------------------------------ MODULE ByteBuffer ------------------------------
(***************************************************************************)
(* The receive buffers of the viewers: a vector of bytes with an offset    *)
(* that moves over what has been parsed, and is compacted now and then.    *)
(* MegaracPacketBuffer, AtenRfbMessageBuffer and RfbHandshakeStream each   *)
(* have one of their own; the first compacts by another rule.              *)
(***************************************************************************)
LOCAL INSTANCE Naturals
LOCAL INSTANCE Sequences

CONSTANT CompactAt    \* 4096

ASSUME CompactAssumption == CompactAt \in Nat

EmptyBuffer == [bytes |-> <<>>, offset |-> 0]

Buffered(buffer) == Len(buffer.bytes) - buffer.offset

CanRead(buffer, n) == n \in 0 .. Buffered(buffer)

\* The bytes that are still to be parsed; Byte counts them from zero.
Unread(buffer) == SubSeq(buffer.bytes, buffer.offset + 1, Len(buffer.bytes))
Byte(buffer, i) == buffer.bytes[buffer.offset + i + 1]
Slice(buffer, i, n) == SubSeq(buffer.bytes, buffer.offset + i + 1, buffer.offset + i + n)

Appended(buffer, bytes) == [buffer EXCEPT !.bytes = @ \o bytes]

Erased(buffer) == [bytes |-> Unread(buffer), offset |-> 0]

\* MegaracPacketBuffer::compact_if_needed
MegaracCompact(buffer) ==
  IF buffer.offset = Len(buffer.bytes) \/ buffer.offset > CompactAt
  THEN Erased(buffer) ELSE buffer

\* AtenRfbMessageBuffer::compact_if_needed, and that of RfbHandshakeStream
AtenCompact(buffer) ==
  IF \/ buffer.offset = Len(buffer.bytes)
     \/ buffer.offset >= CompactAt /\ 2 * buffer.offset >= Len(buffer.bytes)
  THEN Erased(buffer) ELSE buffer

MegaracConsumed(buffer, n) == MegaracCompact([buffer EXCEPT !.offset = @ + n])
AtenConsumed(buffer, n) == AtenCompact([buffer EXCEPT !.offset = @ + n])

=============================================================================
