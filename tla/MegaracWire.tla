----------------------------- MODULE MegaracWire -----------------------------
(***************************************************************************)
(* What a MegaRAC session makes of the bytes of its websocket: packets out *)
(* of MegaracPacketBuffer, frames out of MegaracVideoAssembler, cursors.   *)
(* The websocket cuts the stream anywhere.                                 *)
(*                                                                         *)
(* The stream is a sequence of small numbers.  A packet is its type, the   *)
(* size of its payload and the payload (eight bytes of header in the       *)
(* code); a fragment of a frame is one byte of its own header (two), in    *)
(* the first fragment the size of the frame (86), and compressed data.     *)
(***************************************************************************)
EXTENDS Integers, Sequences, SequencesExt, ByteBuffer, HardwareCursor

VideoType == 1
CursorType == 2
OtherType == 3

Unsupported == 9     \* the first byte of a frame whose first block header is not known
TooLarge == 99       \* kMaxPacketPayloadSize, and kMaxCompressedFrameSize

CONSTANTS
  MegaracFrames,   \* compressed frames the BMC may send, the second byte of each is data
  MegaracSent      \* bound of the model: frames and cursors that the BMC sends

ASSUME MegaracWireAssumption ==
  /\ MegaracSent \in Nat
  /\ \A frame \in MegaracFrames : frame \in Seq(Nat) /\ Len(frame) \in 1 .. TooLarge - 3

VARIABLES
  mWire,      \* bytes of the BMC that have not arrived
  mBuffer,    \* packet_buffer_
  mReading,   \* async_read is under way: on_read() has returned
  assembler,  \* video_assembler_: the frame's declared size and its data, <<>> if a new
              \* one is expected
  mPattern,   \* cursor_pattern_
  mSource,    \* framebuffer_width_ and _height_
  mFrames,    \* the frames published
  mCursor,    \* the cursor published last
  mFailed,    \* an exception has ended the session
  bmcFrames,  \* history: the frames sent that the decoder knows, the one in fragments
              \* included
  bmcRest,    \* the data of the frame in fragments that is still to be sent
  bmcPattern, \* the pattern of the last cursor that had one
  bmcSent,    \* frames and cursors sent
  bmcBroken   \* the BMC has sent something it should not

megaracWireVars == <<mWire, mBuffer, mReading, assembler, mPattern, mSource, mFrames,
                     mCursor, mFailed, bmcFrames, bmcRest, bmcPattern, bmcSent,
                     bmcBroken>>
megaracBmcVars == <<bmcFrames, bmcRest, bmcPattern, bmcSent, bmcBroken>>
megaracViewVars == <<mBuffer, mReading, assembler, mPattern, mSource, mFrames, mCursor,
                     mFailed>>

MegaracHeader == 2   \* kPacketHeaderSize
FirstHeader == 2     \* what precedes the data in the first fragment of a frame
NextHeader == 1      \* and in the others

Packet(type, payload) == <<type, Len(payload)>> \o payload

Supported(frame) == frame[1] # Unsupported

MegaracWireInit ==
  /\ mWire = <<>>
  /\ mBuffer = EmptyBuffer
  /\ mReading = TRUE
  /\ assembler = <<>>
  /\ mPattern = NoPattern
  /\ mSource = [width |-> PatternSize, height |-> PatternSize]
  /\ mFrames = <<>>
  /\ mCursor = NoCursor
  /\ mFailed = FALSE
  /\ bmcFrames = <<>>
  /\ bmcRest = <<>>
  /\ bmcPattern = NoPattern
  /\ bmcSent = 0
  /\ bmcBroken = FALSE

-----------------------------------------------------------------------------
\* The BMC.  The first fragment of a frame ...
SendFrame ==
  /\ ~bmcBroken
  /\ bmcRest = <<>>
  /\ bmcSent < MegaracSent
  /\ bmcSent' = bmcSent + 1
  /\ \E frame \in MegaracFrames : \E n \in 0 .. Len(frame) :
       /\ mWire' = mWire \o Packet(VideoType, <<0, Len(frame)>> \o SubSeq(frame, 1, n))
       /\ bmcFrames' = IF Supported(frame) THEN Append(bmcFrames, frame) ELSE bmcFrames
       /\ bmcRest' = SubSeq(frame, n + 1, Len(frame))
  /\ UNCHANGED <<megaracViewVars, bmcPattern, bmcBroken>>

\* ... the others, with packets of other kinds between them ...
SendFragment ==
  /\ ~bmcBroken
  /\ bmcRest # <<>>
  /\ \E n \in 1 .. Len(bmcRest) :
       /\ mWire' = mWire \o Packet(VideoType, <<0>> \o SubSeq(bmcRest, 1, n))
       /\ bmcRest' = SubSeq(bmcRest, n + 1, Len(bmcRest))
  /\ UNCHANGED <<megaracViewVars, bmcFrames, bmcPattern, bmcSent, bmcBroken>>

\* ... a cursor, with its pattern or without, or too short to be one ...
SendCursor ==
  /\ ~bmcBroken
  /\ bmcSent < MegaracSent
  /\ bmcSent' = bmcSent + 1
  /\ \E cursor \in {<<>>, <<0>>, <<1>>, <<0, 1>>, <<1, 1>>} :
       /\ mWire' = mWire \o Packet(CursorType, cursor)
       /\ bmcPattern' = IF Len(cursor) = 2 THEN cursor[2] ELSE bmcPattern
  /\ UNCHANGED <<megaracViewVars, bmcFrames, bmcRest, bmcBroken>>

\* ... and something that breaks the protocol: a packet of an impossible size, a fragment
\* with no data to declare, or one that has too much.
SendBroken ==
  /\ ~bmcBroken
  /\ bmcBroken' = TRUE
  /\ \E packet \in {<<OtherType, TooLarge>>, Packet(VideoType, <<>>),
                    Packet(VideoType, IF bmcRest = <<>> THEN <<0, 0>>
                                      ELSE <<0>> \o bmcRest \o <<7>>)} :
       mWire' = mWire \o packet
  /\ UNCHANGED <<megaracViewVars, bmcFrames, bmcRest, bmcPattern, bmcSent>>

-----------------------------------------------------------------------------
\* on_read(), as far as the buffer: whatever the websocket message holds.
MegaracRead ==
  /\ mReading
  /\ ~mFailed
  /\ \E n \in 1 .. Len(mWire) :
       /\ mBuffer' = Appended(mBuffer, SubSeq(mWire, 1, n))
       /\ mWire' = SubSeq(mWire, n + 1, Len(mWire))
  /\ mReading' = FALSE
  /\ UNCHANGED <<assembler, mPattern, mSource, mFrames, mCursor, mFailed, megaracBmcVars>>

PayloadSize == Byte(mBuffer, 1)
PacketSize == MegaracHeader + PayloadSize
Payload == Slice(mBuffer, MegaracHeader, PayloadSize)

\* next() returns a packet, if it does not throw.
PacketThere ==
  /\ CanRead(mBuffer, MegaracHeader)
  /\ CanRead(mBuffer, PacketSize)

Implausible == CanRead(mBuffer, MegaracHeader) /\ PayloadSize >= TooLarge

\* Nothing in the buffer is complete: the loop of on_read() ends, and it reads on.
ReadOn ==
  /\ ~mReading
  /\ ~mFailed
  /\ ~Implausible
  /\ ~PacketThere
  /\ mReading' = TRUE
  /\ mBuffer' = MegaracCompact(mBuffer)
  /\ UNCHANGED <<mWire, assembler, mPattern, mSource, mFrames, mCursor, mFailed,
                 megaracBmcVars>>

\* A mutant of Assembled: the longer header of a first fragment is cut off the others too.
AssembledOn(current, payload) ==
  IF current = <<>>
  THEN [size |-> payload[2], data |-> SubSeq(payload, FirstHeader + 1, Len(payload))]
  ELSE [current[1] EXCEPT !.data = @ \o SubSeq(payload, FirstHeader + 1, Len(payload))]

\* MegaracVideoAssembler::ingest: the frame with the fragment in it.
Assembled(current, payload) ==
  IF current = <<>>
  THEN [size |-> payload[2], data |-> SubSeq(payload, FirstHeader + 1, Len(payload))]
  ELSE [current[1] EXCEPT !.data = @ \o SubSeq(payload, NextHeader + 1, Len(payload))]

\* The checks of ingest(): what is too short, and sizes that cannot be.
Refuses(current, payload) ==
  IF Len(payload) < (IF current = <<>> THEN FirstHeader ELSE NextHeader) THEN TRUE
  ELSE IF current = <<>> /\ payload[2] \notin 1 .. TooLarge - 1 THEN TRUE
  ELSE Len(Assembled(current, payload).data) > Assembled(current, payload).size

\* handle_video_packet: a frame that is complete is published, unless its first block has
\* a header the decoder does not know.
VideoPacket ==
  LET frame == Assembled(assembler, Payload)
  IN  /\ ~Refuses(assembler, Payload)
      /\ IF Len(frame.data) < frame.size
         THEN assembler' = <<frame>> /\ UNCHANGED <<mFrames, mSource>>
         ELSE /\ assembler' = <<>>
              /\ IF Supported(frame.data)
                 THEN /\ mFrames' = Append(mFrames, frame.data)
                      /\ mSource' = [width |-> frame.size, height |-> frame.size]
                 ELSE UNCHANGED <<mFrames, mSource>>
      /\ UNCHANGED <<mPattern, mCursor>>

\* The cursor message of a payload that is long enough.
CursorMessageOf(payload) ==
  [type |-> payload[1], x |-> payload[1], y |-> 0,
   xOffset |-> payload[1], yOffset |-> PatternSize,
   pattern |-> IF Len(payload) > 1 THEN payload[2] ELSE NoPattern]

\* handle_hardware_cursor_packet: what is too short is ignored.
CursorPacket ==
  LET message == CursorMessageOf(Payload)
  IN  /\ IF Payload = <<>>
         THEN UNCHANGED <<mCursor, mPattern>>
         ELSE /\ mCursor' = MegaracCursor(message, mPattern, mSource)
              /\ mPattern' = IF message.pattern # NoPattern THEN message.pattern
                             ELSE mPattern
      /\ UNCHANGED <<assembler, mFrames, mSource>>

\* One turn of the loop of on_read().
HandlePacket ==
  /\ ~mReading
  /\ ~mFailed
  /\ ~Implausible
  /\ PacketThere
  /\ CASE Byte(mBuffer, 0) = VideoType -> VideoPacket
       [] Byte(mBuffer, 0) = CursorType -> CursorPacket
       [] OTHER -> UNCHANGED <<assembler, mPattern, mSource, mFrames, mCursor>>
  /\ mBuffer' = MegaracConsumed(mBuffer, PacketSize)
  /\ UNCHANGED <<mReading, mWire, mFailed, megaracBmcVars>>

\* next() or ingest() throws: on_read() stores the exception and closes the socket.
PacketThrows ==
  /\ ~mReading
  /\ ~mFailed
  /\ \/ Implausible
     \/ PacketThere /\ Byte(mBuffer, 0) = VideoType /\ Refuses(assembler, Payload)
  /\ mFailed' = TRUE
  /\ UNCHANGED <<mBuffer, mReading, assembler, mPattern, mSource, mFrames, mCursor, mWire,
                 megaracBmcVars>>

MegaracWireNext ==
  \/ SendFrame \/ SendFragment \/ SendCursor \/ SendBroken
  \/ MegaracRead \/ ReadOn \/ HandlePacket \/ PacketThrows

-----------------------------------------------------------------------------
\* The frames that are published are those that were sent, in their order and without a
\* byte missing, however fragments, cursors and the cuts of the websocket fall.
MegaracFramesInOrder == IsPrefix(mFrames, bmcFrames)

\* And none is kept back: once everything has arrived and the session reads again, the
\* last frame that was sent to its end is out, and the cursor has the last pattern.
MegaracNothingKept ==
  mReading /\ mWire = <<>> /\ ~bmcBroken =>
    /\ bmcRest = <<>> => mFrames = bmcFrames
    /\ mPattern = bmcPattern
    /\ mCursor # NoCursor => mCursor.pattern = mPattern

\* A BMC that keeps to the protocol is never refused.
MegaracNeverRefused == mFailed => bmcBroken

=============================================================================
