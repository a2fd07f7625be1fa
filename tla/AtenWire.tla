------------------------------- MODULE AtenWire -------------------------------
(***************************************************************************)
(* The bytes of an ATEN websocket: the RFB handshake, which reads exactly  *)
(* what it needs and leaves the rest of the last message to the session,   *)
(* and the messages that AtenRfbMessageBuffer finds in what follows, a few *)
(* of them in each drain.                                                  *)
(*                                                                         *)
(* As in MegaracWire the stream is a sequence of small numbers, and each   *)
(* group of header fields is one of them.                                  *)
(***************************************************************************)
EXTENDS Integers, Sequences, SequencesExt, FiniteSetsExt, ByteBuffer, HardwareCursor

\* The versions of RFB that client_protocol_version() knows, and the one it answers with.
Insyde == 55
ClientVersion(version) ==
  CASE version = Insyde -> Insyde
    [] version \in {8, 40, 41} -> 8
    [] version = 7 -> 7
    [] version \in {3, 6, 89} -> 3
    [] OTHER -> 0

UsesSecurityTypes(version) == version # 3

\* kMaxAtenCursorPatternBytes, in the numbers of the pattern that the stream carries.
CONSTANT MaxPattern

ASSUME MaxPatternAssumption == MaxPattern \in Nat

\* Where the rectangles of an update begin in the bytes at hand, their lengths added up one
\* by one, and Beyond from where it cannot be read yet.
UpdateType == 0
CursorMessage == 4
UpdateHeader == 2      \* four bytes: the type and the number of rectangles
RectHeader == 2        \* twenty bytes: the encoding, and the length of the payload last
AstEncoding == 87
AstHeader == 2         \* the four bytes at the front of such a payload
CursorHeader == 4      \* 21 bytes: the type, valid, the place and the size
LongTypes == {22, 60}  \* two bytes; with 53 and 57 in their place
BellType == 2
Beyond == -1

Unknown(message) == message[1] \notin {UpdateType, BellType, CursorMessage} \cup LongTypes

\* A cursor with a pattern that no BMC would send, as its header shows.
OversizedCursor(message) ==
  /\ message[1] = CursorMessage
  /\ Len(message) >= CursorHeader
  /\ message[2] = 1
  /\ message[4] > MaxPattern

Rejected(message) == Unknown(message) \/ OversizedCursor(message)

AfterRect(bytes, at) ==
  IF at # Beyond /\ at + RectHeader <= Len(bytes)
  THEN at + RectHeader + bytes[at + RectHeader] ELSE Beyond

RectStart(bytes) ==
  LET start[i \in Nat] == IF i = 0 THEN UpdateHeader ELSE AfterRect(bytes, start[i - 1])
  IN  start

\* AtenRfbMessageBuffer::next: the length of the message at the front, 0 while it is not
\* complete, -1 if it throws.
LengthOf(bytes) ==
  LET Whole(n) == IF n \in 0 .. Len(bytes) THEN n ELSE 0
  IN  IF bytes = <<>> THEN 0
      ELSE IF Rejected(bytes) THEN -1
      ELSE CASE bytes[1] = UpdateType ->
                  IF Len(bytes) < UpdateHeader THEN 0 ELSE Whole(RectStart(bytes)[bytes[2]])
             [] bytes[1] = BellType -> 1
             [] bytes[1] = CursorMessage ->
                  IF Len(bytes) < CursorHeader THEN 0
                  ELSE IF bytes[2] = 1
                       THEN Whole(CursorHeader + 1 + bytes[4]) ELSE CursorHeader
             [] bytes[1] \in LongTypes -> Whole(2)

\* A message has the length that it says, if the parser goes through with it.
WellFormed(message) ==
  message # <<>> /\ (Rejected(message) \/ LengthOf(message) = Len(message))

CONSTANTS
  Offers,         \* what a BMC may be like: version, security types, result
  AtenMessages,   \* the messages a BMC may send after it
  AtenSent,       \* bound of the model: messages it sends
  DrainLimit      \* kMaxAtenMessagesPerReceiveDrain

ASSUME AtenWireAssumption ==
  /\ AtenSent \in Nat
  /\ DrainLimit \in Nat \ {0}
  /\ Offers # {}
  /\ \A some \in Offers :
       /\ some.version \in Nat /\ some.types \in Seq(Nat) /\ some.result \in Nat
       /\ UsesSecurityTypes(ClientVersion(some.version)) \/ Len(some.types) = 1
  /\ \A message \in AtenMessages : message \in Seq(Nat) /\ WellFormed(message)

VARIABLES
  offer,        \* what the BMC offers in this handshake
  aWire,        \* bytes of the BMC that have not arrived
  step,         \* what the handshake reads next; "running" or "failed" in the end
  selected,     \* the security type
  shake,        \* the buffer of RfbHandshakeStream
  bmcStep,      \* how far the BMC is: it waits for what the viewer writes
  parser,       \* parser_
  drainPosted,  \* receive_parse_posted_
  drained,      \* messages of this drain
  atenCache,    \* cursor_pattern_, with its size
  atenCursor,   \* the cursor published last
  handled,      \* messages handled
  sent          \* history: messages sent

atenWireVars == <<offer, aWire, step, selected, shake, bmcStep, parser, drainPosted,
                  drained, atenCache, atenCursor, handled, sent>>
atenSessionVars == <<parser, drainPosted, drained, atenCache, atenCursor, handled>>

AtenSource == [width |-> PatternSize, height |-> PatternSize]

AtenWireInit(someOffer) ==
  /\ offer = someOffer
  /\ aWire = <<>>
  /\ step = "banner"
  /\ selected = 0
  /\ shake = EmptyBuffer
  /\ bmcStep = "banner"
  /\ parser = EmptyBuffer
  /\ drainPosted = FALSE
  /\ drained = 0
  /\ atenCache = [pattern |-> NoPattern, width |-> 0, height |-> 0]
  /\ atenCursor = NoCursor
  /\ handled = <<>>
  /\ sent = <<>>

-----------------------------------------------------------------------------
Answer == ClientVersion(offer.version)

ResultForNone(version) == version \in {8, Insyde}

\* is_supported_js_security_type, and the types that authenticate() goes through with.
JsType(type) == type <= 16 \/ type = 22
NoneType == 1
InsydeTypes == {15, 16}
Implemented == {NoneType} \cup InsydeTypes

\* negotiate_security: the greatest of the types that the BMC's own client knows.
Choice(types) == Max({0} \cup {types[i] : i \in {j \in DOMAIN types : JsType(types[j])}})

\* What follows a step, with the security type that is chosen by then: a challenge only
\* for the Insyde types, and no result without authentication in the old versions.
After(at, type) ==
  CASE at = "banner" -> "security"
    [] at = "security" /\ type \in InsydeTypes -> "challenge"
    [] at = "security" /\ type = NoneType /\ ~ResultForNone(Answer) -> "init"
    [] at = "security" -> "result"
    [] at = "challenge" -> "result"
    [] at = "result" -> "init"
    [] at = "init" -> "running"

\* The numbers the BMC sends at each step: a version; the types, or the scheme of RFB 3.3;
\* a challenge; the result; and ServerInit, with a name and the Insyde extension.
Hello(at) ==
  CASE at = "banner" -> <<offer.version>>
    [] at = "security" -> IF UsesSecurityTypes(Answer)
                          THEN <<Len(offer.types)>> \o offer.types ELSE offer.types
    [] at = "challenge" -> <<70, 71>>
    [] at = "result" -> <<offer.result>>
    [] at = "init" -> <<80, 2, 1, 4>> \o IF selected \in InsydeTypes THEN <<90, 91>> ELSE <<>>

\* The BMC says what is next once it has read the answer to what it said before.  After
\* ServerInit it need not wait.
BmcGreets ==
  /\ bmcStep = step
  /\ step \notin {"running", "failed"}
  /\ aWire' = aWire \o Hello(step)
  /\ bmcStep' = IF step = "init" THEN "running" ELSE "waits"
  /\ UNCHANGED <<offer, step, selected, shake, atenSessionVars, sent>>

BmcSays ==
  /\ bmcStep = "running"
  /\ Len(sent) < AtenSent
  /\ \E message \in AtenMessages :
       /\ aWire' = aWire \o message
       /\ sent' = Append(sent, message)
  /\ UNCHANGED <<offer, step, selected, shake, bmcStep, atenSessionVars>>

\* How many numbers the reads of a step want, as far as the buffer can tell: the counts
\* come first.
Wanted(at) ==
  CASE at = "banner" -> 1
    [] at = "security" -> IF UsesSecurityTypes(Answer) /\ CanRead(shake, 1)
                          THEN 1 + Byte(shake, 0) ELSE 1
    [] at = "challenge" -> 2
    [] at = "result" -> 1
    [] at = "init" -> 2 + (IF CanRead(shake, 2) THEN Byte(shake, 1) ELSE 0)
                        + (IF selected \in InsydeTypes THEN 2 ELSE 0)

\* read_message(), which read_exact() calls while there are too few.
HandshakeReads ==
  /\ step \notin {"running", "failed"}
  /\ ~CanRead(shake, Wanted(step))
  /\ \E n \in 1 .. Len(aWire) :
       /\ shake' = Appended(shake, SubSeq(aWire, 1, n))
       /\ aWire' = SubSeq(aWire, n + 1, Len(aWire))
  /\ UNCHANGED <<offer, step, selected, bmcStep, atenSessionVars, sent>>

\* client_protocol_version, negotiate_security with authenticate, and
\* read_security_result throw.
Unacceptable(type, read) ==
  \/ step = "banner" /\ Answer = 0
  \/ step = "security" /\ type \notin Implemented
  \/ step = "result" /\ read[1] # 0

\* One step of the handshake, and after the last one take_queued_bytes() and start().
HandshakeStep ==
  /\ step \notin {"running", "failed"}
  /\ CanRead(shake, Wanted(step))
  /\ LET read == Slice(shake, 0, Wanted(step))
         type == IF step # "security" THEN selected
                 ELSE IF UsesSecurityTypes(Answer) THEN Choice(Tail(read)) ELSE read[1]
         rest == AtenConsumed(shake, Wanted(step))
     IN  /\ selected' = type
         /\ step' = IF Unacceptable(type, read) THEN "failed" ELSE After(step, type)
         /\ IF step' = "running"
            THEN /\ shake' = EmptyBuffer
                 /\ parser' = Appended(EmptyBuffer, Unread(rest))
                 /\ drainPosted' = TRUE
            ELSE /\ shake' = rest
                 /\ UNCHANGED <<parser, drainPosted>>
  /\ bmcStep' = IF bmcStep = "waits" THEN step' ELSE bmcStep
  /\ UNCHANGED <<offer, aWire, drained, atenCache, atenCursor, handled, sent>>

-----------------------------------------------------------------------------
\* handle_framebuffer_update throws without the Insyde extension of ServerInit, and
\* handle_ast_rect on a payload, if there is one, that is shorter than its header.
ShortAst(message) ==
  \E i \in 0 .. message[2] - 1 :
    LET rect == RectStart(message)[i]
    IN  /\ message[rect + 1] = AstEncoding
        /\ message[rect + RectHeader] \in 1 .. AstHeader - 1

Unhandled(type, message) ==
  message[1] = UpdateType /\ (type \notin InsydeTypes \/ ShortAst(message))

\* on_read(): what has come is appended, and a drain posted if there is none.
SessionReads ==
  /\ step = "running"
  /\ drained = 0
  /\ \E n \in 1 .. Len(aWire) :
       /\ parser' = Appended(parser, SubSeq(aWire, 1, n))
       /\ aWire' = SubSeq(aWire, n + 1, Len(aWire))
  /\ drainPosted' = TRUE
  /\ UNCHANGED <<offer, step, selected, shake, bmcStep, drained, atenCache, atenCursor,
                 handled, sent>>

\* handle_cursor_position
ShowCursor(message) ==
  LET cursor == [type |-> IF message[2] = 1 THEN message[5] ELSE 0,
                 x |-> message[3], y |-> 0,
                 width |-> message[4], height |-> 1,
                 pattern |-> IF message[2] = 1 /\ message[4] > 0 THEN message[6]
                             ELSE NoPattern]
  IN  /\ atenCursor' = AtenCursor(cursor, atenCache, AtenSource)
      /\ atenCache' = IF cursor.pattern = NoPattern THEN atenCache
                      ELSE [pattern |-> cursor.pattern, width |-> cursor.width,
                            height |-> cursor.height]

MessageLength == LengthOf(Unread(parser))
NextMessage == Slice(parser, 0, MessageLength)

\* A message of the drain that is under way; a full one posts the next and ends.
DrainOne ==
  /\ step = "running"
  /\ drainPosted
  /\ MessageLength > 0
  /\ ~Unhandled(selected, NextMessage)
  /\ handled' = Append(handled, NextMessage)
  /\ IF NextMessage[1] = CursorMessage
     THEN ShowCursor(NextMessage)
     ELSE UNCHANGED <<atenCache, atenCursor>>
  /\ parser' = AtenConsumed(parser, MessageLength)
  /\ drained' = (drained + 1) % DrainLimit
  /\ UNCHANGED <<offer, aWire, step, selected, shake, bmcStep, drainPosted, sent>>

\* Nothing is complete: the drain is over.
DrainEnds ==
  /\ step = "running"
  /\ drainPosted
  /\ MessageLength = 0
  /\ drainPosted' = FALSE
  /\ drained' = 0
  /\ UNCHANGED <<offer, aWire, step, selected, shake, bmcStep, parser, atenCache,
                 atenCursor, handled, sent>>

\* What next() or handle_message() throws ends the session.
DrainThrowsAt ==
  /\ step = "running"
  /\ drainPosted
  /\ MessageLength < 0 \/ (MessageLength > 0 /\ Unhandled(selected, NextMessage))
  /\ step' = "failed"
  /\ parser' = EmptyBuffer
  /\ drainPosted' = FALSE
  /\ UNCHANGED <<offer, aWire, selected, shake, bmcStep, drained, atenCache, atenCursor,
                 handled, sent>>

AtenWireNext ==
  \/ BmcGreets \/ BmcSays
  \/ HandshakeReads \/ HandshakeStep
  \/ SessionReads \/ DrainOne \/ DrainEnds \/ DrainThrowsAt

-----------------------------------------------------------------------------
\* The messages that are handled are those that were sent, whatever part of them came
\* together with the end of the handshake, and wherever the stream was cut.
AtenMessagesInOrder == IsPrefix(handled, sent)

\* And all of them: what has arrived is not left in the parser without a drain that would
\* come for it.
AtenNothingKept ==
  step = "running" /\ aWire = <<>> /\ ~drainPosted => handled = sent

\* The handshake fails on a version or on the BMC's refusal, or when the viewer goes
\* through with none of the security types or chooses another for being the greater; and
\* the session on the very message that is next in the stream, when that is one the parser
\* does not take or one the session of this security type cannot handle.
AtenRefusalIsDue ==
  step = "failed" =>
    \/ Answer = 0
    \/ offer.result # 0
    \/ ToSet(offer.types) \cap Implemented = {}
    \/ \E type \in ToSet(offer.types) : JsType(type) /\ type \notin Implemented
    \/ /\ Len(handled) < Len(sent)
       /\ LET next == sent[Len(handled) + 1]
          IN  Rejected(next) \/ Unhandled(selected, next)

=============================================================================
