------------------------- MODULE MegaracSessionProofs -------------------------
(***************************************************************************)
(* Proofs about MegaracSession, for any number of input packets and power  *)
(* actions and any length of the queue.  A packet is followed from the     *)
(* strand to the queue and from the queue to the wire by its number; what  *)
(* the session sends by itself is put in between.                          *)
(*                                                                         *)
(* And about InputPath, which brings the input there: the last report of   *)
(* the keys is followed through the queue, the call of the sink and the    *)
(* flush, and each key that the typer presses to its release.              *)
(***************************************************************************)
EXTENDS MegaracSession, InputPath, SequenceTheorems, WellFoundedInduction, TLAPS

Kinds == {"control", "stop", "hid", "power", "start"}
AnyPacket == [kind : Kinds, n : Nat]

ShapeInv ==
  /\ posted \in Seq(AnyPacket)
  /\ outgoing \in Seq(AnyPacket)
  /\ wire \in Seq(AnyPacket)
  /\ inputs \in Nat
  /\ powers \in Nat
  /\ reported \in Nat

FlagInv ==
  /\ writing \in BOOLEAN
  /\ stopping \in BOOLEAN
  /\ closed \in BOOLEAN

\* Of total packets of a kind that were posted, the strand has taken some: they are on the
\* wire and in the queue, and the others are still posted.  A stop drops what it finds in
\* the queue and on the strand, but nothing out of the middle of what goes on the wire.
Flow(kind, taken, total) ==
  \E a \in 0 .. total :
    /\ InOrder(kind, wire, 0, a)
    /\ ~closed =>
         \E b \in 0 .. total :
           /\ InOrder(kind, outgoing, a, b)
           /\ ~stopping => b = taken /\ InOrder(kind, posted, b, total)

InputFlow == \E taken \in Nat : Flow("hid", taken, inputs)
PowerFlow == Flow("power", reported, powers)

IInv ==
  /\ ShapeInv /\ FlagInv
  /\ NoPacketStranded /\ StopOvertakesQueue
  /\ InputFlow /\ PowerFlow

-----------------------------------------------------------------------------
\* What the ends of a sequence do to the order of the packets of a kind in it.

\* What each packet is.
LEMMA PacketTypes ==
  /\ Control \in AnyPacket /\ Control.kind = "control"
  /\ StopPacket \in AnyPacket /\ StopPacket.kind = "stop"
  /\ Start \in AnyPacket /\ Start.kind = "start"
  /\ \A i \in Nat : Hid(i) \in AnyPacket /\ Hid(i).kind = "hid" /\ Hid(i).n = i
  /\ \A i \in Nat : Power(i) \in AnyPacket /\ Power(i).kind = "power" /\ Power(i).n = i
BY DEF Control, StopPacket, Start, Hid, Power, Packet, AnyPacket, Kinds

\* A packet is its kind and its number.
LEMMA PacketEqual ==
  ASSUME NEW p \in AnyPacket
  PROVE  p = Packet(p.kind, p.n)
BY DEF AnyPacket, Packet

\* Nothing is in order, from anywhere to there.
LEMMA InOrderEmpty ==
  ASSUME NEW kind, NEW lo \in Nat
  PROVE  InOrder(kind, <<>>, lo, lo)
<1>1. Len(<<>>) = 0
  BY EmptySeq
<1> QED
  BY <1>1 DEF InOrder

\* Packets of other kinds behind it.
LEMMA InOrderConcat ==
  ASSUME NEW kind, NEW s \in Seq(AnyPacket), NEW t \in Seq(AnyPacket),
         NEW lo \in Nat, NEW hi \in Nat,
         InOrder(kind, s, lo, hi), \A i \in 1 .. Len(t) : t[i].kind # kind
  PROVE  InOrder(kind, s \o t, lo, hi)
<1>1. /\ Len(s) \in Nat /\ Len(t) \in Nat /\ Len(s \o t) = Len(s) + Len(t)
      /\ \A i \in 1 .. Len(s) : (s \o t)[i] = s[i]
      /\ \A i \in Len(s) + 1 .. Len(s) + Len(t) : (s \o t)[i] = t[i - Len(s)]
  BY LenProperties, ConcatProperties
<1>2. \A i \in 1 .. Len(s \o t) :
        (s \o t)[i].kind = kind => i \in 1 .. Len(s) /\ (s \o t)[i] = s[i]
  <2> SUFFICES ASSUME NEW i \in 1 .. Len(s \o t), i \notin 1 .. Len(s)
               PROVE  (s \o t)[i].kind # kind
    BY <1>1
  <2>1. i - Len(s) \in 1 .. Len(t) /\ i \in Len(s) + 1 .. Len(s) + Len(t)
    BY <1>1
  <2> QED
    BY <1>1, <2>1
<1>3. \A i \in 1 .. Len(s) : i \in 1 .. Len(s \o t)
  BY <1>1
<1> QED
  BY <1>1, <1>2, <1>3 DEF InOrder

\* A packet of another kind at the end changes nothing.
LEMMA InOrderAppend ==
  ASSUME NEW kind, NEW s \in Seq(AnyPacket), NEW p \in AnyPacket,
         NEW lo \in Nat, NEW hi \in Nat,
         InOrder(kind, s, lo, hi), p.kind # kind
  PROVE  InOrder(kind, Append(s, p), lo, hi)
<1>1. <<p>> \in Seq(AnyPacket) /\ Len(<<p>>) = 1 /\ <<p>>[1] = p
  OBVIOUS
<1>2. \A i \in 1 .. Len(<<p>>) : <<p>>[i].kind # kind
  BY <1>1
<1>3. InOrder(kind, s \o <<p>>, lo, hi)
  BY <1>1, <1>2, InOrderConcat
<1> QED
  BY <1>3, AppendIsConcat

\* The next packet of the kind behind it.
LEMMA InOrderNext ==
  ASSUME NEW kind, NEW s \in Seq(AnyPacket), NEW p \in AnyPacket,
         NEW lo \in Nat, NEW hi \in Nat,
         InOrder(kind, s, lo, hi), p.kind = kind, p.n = hi + 1
  PROVE  InOrder(kind, Append(s, p), lo, hi + 1)
<1> DEFINE t == Append(s, p)
<1>1. /\ Len(s) \in Nat /\ Len(t) = Len(s) + 1 /\ t[Len(s) + 1] = p
      /\ \A i \in 1 .. Len(s) : t[i] = s[i]
  BY LenProperties, AppendProperties
<1> HIDE DEF t
<1>2. lo <= hi + 1
  BY DEF InOrder
<1>3. \A i \in 1 .. Len(t) : t[i].kind = kind => t[i].n \in lo + 1 .. hi + 1
  <2> SUFFICES ASSUME NEW i \in 1 .. Len(t), t[i].kind = kind
               PROVE  t[i].n \in lo + 1 .. hi + 1
    OBVIOUS
  <2>1. CASE i = Len(s) + 1
    BY <1>1, <1>2, <2>1 DEF InOrder
  <2>2. CASE i # Len(s) + 1
    <3>1. i \in 1 .. Len(s)
      BY <1>1, <2>2
    <3>2. s[i].n \in lo + 1 .. hi
      BY <1>1, <3>1 DEF InOrder
    <3> QED
      BY <1>1, <3>1, <3>2
  <2> QED
    BY <2>1, <2>2
<1>4. ASSUME NEW i \in 1 .. Len(t), NEW j \in 1 .. Len(t),
             i < j, t[i].kind = kind, t[j].kind = kind
      PROVE  t[i].n < t[j].n
  <2>1. i \in 1 .. Len(s) /\ t[i] = s[i] /\ s[i].n \in lo + 1 .. hi
    BY <1>1, <1>4 DEF InOrder
  <2>2. CASE j = Len(s) + 1
    BY <1>1, <2>1, <2>2
  <2>3. CASE j # Len(s) + 1
    <3>1. j \in 1 .. Len(s) /\ t[j] = s[j]
      BY <1>1, <2>3
    <3> QED
      BY <1>4, <2>1, <3>1 DEF InOrder
  <2> QED
    BY <2>2, <2>3
<1>5. ASSUME NEW n \in lo + 1 .. hi + 1
      PROVE  \E i \in 1 .. Len(t) : t[i] = Packet(kind, n)
  <2>1. CASE n = hi + 1
    <3>1. p = Packet(kind, n)
      BY <2>1, PacketEqual
    <3> QED
      BY <1>1, <3>1
  <2>2. CASE n # hi + 1
    <3>1. PICK i \in 1 .. Len(s) : s[i] = Packet(kind, n)
      BY <2>2 DEF InOrder
    <3> QED
      BY <1>1, <3>1
  <2> QED
    BY <2>1, <2>2
<1> QED
  BY <1>2, <1>3, <1>4, <1>5 DEF InOrder, t

\* A packet of another kind in front of it goes.
LEMMA InOrderTail ==
  ASSUME NEW kind, NEW s \in Seq(AnyPacket), s # <<>>, NEW lo \in Nat, NEW hi \in Nat,
         InOrder(kind, s, lo, hi), Head(s).kind # kind
  PROVE  InOrder(kind, Tail(s), lo, hi)
<1> DEFINE t == Tail(s)
<1>1. /\ Len(s) \in Nat /\ Len(t) = Len(s) - 1 /\ s[1].kind # kind
      /\ \A i \in 1 .. Len(t) : t[i] = s[i + 1]
  BY LenProperties, HeadTailProperties
<1> HIDE DEF t
<1>2. \A i \in 1 .. Len(t) : i + 1 \in 1 .. Len(s)
  BY <1>1
<1>3. ASSUME NEW n \in lo + 1 .. hi
      PROVE  \E i \in 1 .. Len(t) : t[i] = Packet(kind, n)
  <2>1. PICK i \in 1 .. Len(s) : s[i] = Packet(kind, n)
    BY DEF InOrder
  <2>2. i # 1
    BY <1>1, <2>1 DEF Packet
  <2>3. i - 1 \in 1 .. Len(t) /\ (i - 1) + 1 = i
    BY <1>1, <2>2
  <2>4. t[i - 1] = s[i]
    BY <1>1, <2>3
  <2> QED
    BY <2>1, <2>3, <2>4
<1>4. \A i \in 1 .. Len(t) : t[i].kind = kind => t[i].n \in lo + 1 .. hi
  BY <1>1, <1>2 DEF InOrder
<1>5. ASSUME NEW i \in 1 .. Len(t), NEW j \in 1 .. Len(t),
             i < j, t[i].kind = kind, t[j].kind = kind
      PROVE  t[i].n < t[j].n
  <2>1. /\ i + 1 \in 1 .. Len(s) /\ j + 1 \in 1 .. Len(s) /\ i + 1 < j + 1
        /\ t[i] = s[i + 1] /\ t[j] = s[j + 1]
    BY <1>1, <1>2, <1>5
  <2> QED
    BY <1>5, <2>1 DEF InOrder
<1> QED
  BY <1>3, <1>4, <1>5 DEF InOrder, t

\* One of the kind in front of it is the first one, and goes.
LEMMA InOrderTake ==
  ASSUME NEW kind, NEW s \in Seq(AnyPacket), s # <<>>, NEW lo \in Nat, NEW hi \in Nat,
         InOrder(kind, s, lo, hi), Head(s).kind = kind
  PROVE  Head(s).n = lo + 1 /\ lo < hi /\ InOrder(kind, Tail(s), lo + 1, hi)
<1> DEFINE t == Tail(s)
<1>1. /\ Len(s) \in Nat /\ Len(t) = Len(s) - 1 /\ s[1].kind = kind /\ Head(s) = s[1]
      /\ 1 \in 1 .. Len(s)
      /\ \A i \in 1 .. Len(t) : t[i] = s[i + 1]
  BY LenProperties, HeadTailProperties, EmptySeq
<1> HIDE DEF t
<1>2. s[1].n \in lo + 1 .. hi
  BY <1>1 DEF InOrder
<1>3. lo < hi /\ lo + 1 \in lo + 1 .. hi
  BY <1>2
<1>4. s[1].n = lo + 1
  <2>1. PICK i \in 1 .. Len(s) : s[i] = Packet(kind, lo + 1)
    BY <1>3 DEF InOrder
  <2>2. s[i].kind = kind /\ s[i].n = lo + 1
    BY <2>1 DEF Packet
  <2>3. 1 < i => s[1].n < s[i].n
    BY <1>1, <2>2 DEF InOrder
  <2> QED
    BY <1>1, <1>2, <2>2, <2>3
<1>5. \A i \in 1 .. Len(t) : i + 1 \in 1 .. Len(s) /\ 1 < i + 1
  BY <1>1
<1>6. ASSUME NEW n \in lo + 2 .. hi
      PROVE  \E i \in 1 .. Len(t) : t[i] = Packet(kind, n)
  <2>1. n \in lo + 1 .. hi /\ n # lo + 1
    OBVIOUS
  <2>2. PICK i \in 1 .. Len(s) : s[i] = Packet(kind, n)
    BY <2>1 DEF InOrder
  <2>3. i # 1
    BY <1>4, <2>1, <2>2 DEF Packet
  <2>4. i - 1 \in 1 .. Len(t) /\ (i - 1) + 1 = i
    BY <1>1, <2>3
  <2>5. t[i - 1] = s[i]
    BY <1>1, <2>4
  <2> QED
    BY <2>2, <2>4, <2>5
<1>7. ASSUME NEW i \in 1 .. Len(t), t[i].kind = kind
      PROVE  t[i].n \in lo + 2 .. hi
  <2>1. s[i + 1].kind = kind /\ i + 1 \in 1 .. Len(s) /\ 1 < i + 1
    BY <1>1, <1>5, <1>7
  <2>2. s[i + 1].n \in lo + 1 .. hi /\ s[1].n < s[i + 1].n
    BY <1>1, <2>1 DEF InOrder
  <2> QED
    BY <1>1, <1>4, <2>2
<1>8. ASSUME NEW i \in 1 .. Len(t), NEW j \in 1 .. Len(t),
             i < j, t[i].kind = kind, t[j].kind = kind
      PROVE  t[i].n < t[j].n
  <2>1. /\ i + 1 \in 1 .. Len(s) /\ j + 1 \in 1 .. Len(s) /\ i + 1 < j + 1
        /\ t[i] = s[i + 1] /\ t[j] = s[j + 1]
    BY <1>1, <1>5, <1>8
  <2> QED
    BY <1>8, <2>1 DEF InOrder
<1>9. (lo + 1) + 1 = lo + 2 /\ lo + 1 <= hi
  BY <1>3
<1> QED
  BY <1>1, <1>3, <1>4, <1>6, <1>7, <1>8, <1>9 DEF InOrder, t

\* What is kept of a sequence is in order, if it is a head.
LEMMA InOrderHead ==
  ASSUME NEW kind, NEW s \in Seq(AnyPacket), s # <<>>, NEW lo \in Nat, NEW hi \in Nat,
         InOrder(kind, s, lo, hi)
  PROVE  \E b \in lo .. hi : InOrder(kind, <<Head(s)>>, lo, b)
<1>1. Head(s) \in AnyPacket /\ <<>> \in Seq(AnyPacket) /\ Append(<<>>, Head(s)) = <<Head(s)>>
  BY HeadTailProperties, EmptySeq
<1>2. InOrder(kind, <<>>, lo, lo) /\ lo <= hi
  BY InOrderEmpty DEF InOrder
<1>3. CASE Head(s).kind = kind
  <2>1. Head(s).n = lo + 1 /\ lo < hi
    BY <1>3, InOrderTake
  <2>2. InOrder(kind, Append(<<>>, Head(s)), lo, lo + 1)
    BY <1>1, <1>2, <1>3, <2>1, InOrderNext
  <2> QED
    BY <1>1, <2>1, <2>2
<1>4. CASE Head(s).kind # kind
  <2>1. InOrder(kind, Append(<<>>, Head(s)), lo, lo)
    BY <1>1, <1>2, <1>4, InOrderAppend
  <2> QED
    BY <1>1, <1>2, <2>1
<1> QED
  BY <1>3, <1>4

-----------------------------------------------------------------------------
\* What each thing that can happen to the queues does to the packets of a kind.

\* A step that leaves the queues alone.
LEMMA FlowKept ==
  ASSUME NEW kind, NEW taken, NEW total, Flow(kind, taken, total),
         UNCHANGED <<posted, outgoing, wire, stopping, closed>>
  PROVE  Flow(kind, taken, total)'
BY DEF Flow

\* The GUI thread posts an operation.
LEMMA FlowPosted ==
  ASSUME ShapeInv, NEW kind, NEW taken \in Nat, NEW total \in Nat, Flow(kind, taken, total),
         NEW p \in AnyPacket, posted' = Append(posted, p),
         UNCHANGED <<outgoing, wire, stopping, closed>>
  PROVE  /\ p.kind # kind => Flow(kind, taken, total)'
         /\ p.kind = kind /\ p.n = total + 1 => Flow(kind, taken, total + 1)'
<1>1. PICK a \in 0 .. total :
        /\ InOrder(kind, wire, 0, a)
        /\ ~closed =>
             \E b \in 0 .. total :
               /\ InOrder(kind, outgoing, a, b)
               /\ ~stopping => b = taken /\ InOrder(kind, posted, b, total)
  BY DEF Flow
<1>2. CASE closed
  BY <1>1, <1>2 DEF Flow
<1>3. CASE ~closed
  <2>1. PICK b \in 0 .. total :
          /\ InOrder(kind, outgoing, a, b)
          /\ ~stopping => b = taken /\ InOrder(kind, posted, b, total)
    BY <1>1, <1>3
  <2>2. ASSUME p.kind # kind
        PROVE  Flow(kind, taken, total)'
    <3>1. ~stopping => InOrder(kind, posted', b, total)
      BY <2>1, <2>2, InOrderAppend DEF ShapeInv
    <3> QED
      BY <1>1, <2>1, <3>1 DEF Flow
  <2>3. ASSUME p.kind = kind, p.n = total + 1
        PROVE  Flow(kind, taken, total + 1)'
    <3>1. ~stopping => InOrder(kind, posted', b, total + 1)
      BY <2>1, <2>3, InOrderNext DEF ShapeInv
    <3>2. a \in 0 .. total + 1 /\ b \in 0 .. total + 1
      OBVIOUS
    <3> QED
      BY <1>1, <2>1, <3>1, <3>2 DEF Flow
  <2> QED
    BY <2>2, <2>3
<1> QED
  BY <1>2, <1>3

\* The strand runs an operation that is not of the kind, or drops one after the stop.
LEMMA FlowPassed ==
  ASSUME ShapeInv, NEW kind, NEW taken \in Nat, NEW total \in Nat, Flow(kind, taken, total),
         posted # <<>>, posted' = Tail(posted),
         UNCHANGED <<wire, stopping, closed>>,
         \/ stopping /\ outgoing' = outgoing
         \/ /\ Head(posted).kind # kind
            /\ outgoing' = outgoing \/ outgoing' = Append(outgoing, Head(posted))
  PROVE  Flow(kind, taken, total)'
<1>1. PICK a \in 0 .. total :
        /\ InOrder(kind, wire, 0, a)
        /\ ~closed =>
             \E b \in 0 .. total :
               /\ InOrder(kind, outgoing, a, b)
               /\ ~stopping => b = taken /\ InOrder(kind, posted, b, total)
  BY DEF Flow
<1>2. CASE closed
  BY <1>1, <1>2 DEF Flow
<1>3. CASE ~closed
  <2>1. PICK b \in 0 .. total :
          /\ InOrder(kind, outgoing, a, b)
          /\ ~stopping => b = taken /\ InOrder(kind, posted, b, total)
    BY <1>1, <1>3
  <2>2. Head(posted) \in AnyPacket
    BY HeadTailProperties DEF ShapeInv
  <2>3. InOrder(kind, outgoing', a, b)
    <3>1. a \in Nat /\ b \in Nat /\ outgoing \in Seq(AnyPacket)
      BY DEF ShapeInv
    <3>2. Head(posted).kind # kind => InOrder(kind, Append(outgoing, Head(posted)), a, b)
      BY <2>1, <2>2, <3>1, InOrderAppend
    <3> QED
      BY <2>1, <3>2
  <2>4. ~stopping => InOrder(kind, posted', b, total)
    BY <2>1, InOrderTail DEF ShapeInv
  <2> QED
    BY <1>1, <2>1, <2>3, <2>4 DEF Flow
<1> QED
  BY <1>2, <1>3

\* The strand puts the next packet of the kind into the queue.
LEMMA FlowTaken ==
  ASSUME ShapeInv, NEW kind, NEW taken \in Nat, NEW total \in Nat, Flow(kind, taken, total),
         ~closed, ~stopping, posted # <<>>, Head(posted).kind = kind,
         posted' = Tail(posted), outgoing' = Append(outgoing, Head(posted)),
         UNCHANGED <<wire, stopping, closed>>
  PROVE  Head(posted).n = taken + 1 /\ Flow(kind, taken + 1, total)'
<1>1. PICK a \in 0 .. total :
        /\ InOrder(kind, wire, 0, a)
        /\ \E b \in 0 .. total :
             InOrder(kind, outgoing, a, b) /\ b = taken /\ InOrder(kind, posted, b, total)
  BY DEF Flow
<1>2. InOrder(kind, outgoing, a, taken) /\ InOrder(kind, posted, taken, total)
  BY <1>1
<1>3. Head(posted) \in AnyPacket
  BY HeadTailProperties DEF ShapeInv
<1>4. /\ Head(posted).n = taken + 1 /\ taken < total
      /\ InOrder(kind, posted', taken + 1, total)
  BY <1>2, InOrderTake DEF ShapeInv
<1>5. InOrder(kind, outgoing', a, taken + 1)
  BY <1>2, <1>3, <1>4, InOrderNext DEF ShapeInv
<1>6. taken + 1 \in 0 .. total
  BY <1>4
<1> QED
  BY <1>1, <1>4, <1>5, <1>6 DEF Flow

\* request_stop() on the strand keeps the packet that is being written, if there is one.
LEMMA FlowStopped ==
  ASSUME ShapeInv, NEW kind, kind # "stop", NEW taken, NEW total \in Nat,
         Flow(kind, taken, total),
         outgoing' = Append(ActiveWrite, StopPacket), stopping', UNCHANGED <<wire, closed>>
  PROVE  Flow(kind, taken, total)'
<1>1. PICK a \in 0 .. total :
        /\ InOrder(kind, wire, 0, a)
        /\ ~closed => \E b \in 0 .. total : InOrder(kind, outgoing, a, b)
  BY DEF Flow
<1>2. CASE closed
  BY <1>1, <1>2 DEF Flow
<1>3. CASE ~closed
  <2>1. PICK b \in 0 .. total : InOrder(kind, outgoing, a, b)
    BY <1>1, <1>3
  <2>2. ActiveWrite \in Seq(AnyPacket) /\ \E c \in 0 .. total : InOrder(kind, ActiveWrite, a, c)
    <3>1. CASE writing /\ outgoing # <<>>
      <4>1. ActiveWrite = <<Head(outgoing)>> /\ Head(outgoing) \in AnyPacket
        BY <3>1, HeadTailProperties DEF ActiveWrite, ShapeInv
      <4>2. \E c \in a .. b : InOrder(kind, <<Head(outgoing)>>, a, c)
        BY <2>1, <3>1, InOrderHead DEF ShapeInv
      <4> QED
        BY <4>1, <4>2
    <3>2. CASE ~(writing /\ outgoing # <<>>)
      <4>1. ActiveWrite = <<>>
        BY <3>2 DEF ActiveWrite
      <4> QED
        BY <4>1, InOrderEmpty, EmptySeq
    <3> QED
      BY <3>1, <3>2
  <2>3. PICK c \in 0 .. total : InOrder(kind, ActiveWrite, a, c)
    BY <2>2
  <2>4. InOrder(kind, outgoing', a, c)
    BY <2>2, <2>3, InOrderAppend, PacketTypes
  <2> QED
    BY <1>1, <2>4 DEF Flow
<1> QED
  BY <1>2, <1>3

\* The session queues packets of its own.
LEMMA FlowAnswered ==
  ASSUME ShapeInv, NEW kind, NEW taken, NEW total \in Nat, Flow(kind, taken, total),
         NEW t \in Seq(AnyPacket), \A i \in 1 .. Len(t) : t[i].kind # kind,
         outgoing' = outgoing \o t, UNCHANGED <<posted, wire, stopping, closed>>
  PROVE  Flow(kind, taken, total)'
<1>1. PICK a \in 0 .. total :
        /\ InOrder(kind, wire, 0, a)
        /\ ~closed =>
             \E b \in 0 .. total :
               /\ InOrder(kind, outgoing, a, b)
               /\ ~stopping => b = taken /\ InOrder(kind, posted, b, total)
  BY DEF Flow
<1>2. CASE closed
  BY <1>1, <1>2 DEF Flow
<1>3. CASE ~closed
  <2>1. PICK b \in 0 .. total :
          /\ InOrder(kind, outgoing, a, b)
          /\ ~stopping => b = taken /\ InOrder(kind, posted, b, total)
    BY <1>1, <1>3
  <2>2. InOrder(kind, outgoing', a, b)
    <3>1. a \in Nat /\ b \in Nat /\ outgoing \in Seq(AnyPacket)
      BY DEF ShapeInv
    <3>2. InOrder(kind, outgoing \o t, a, b)
      BY <2>1, <3>1, InOrderConcat
    <3> QED
      BY <3>2
  <2> QED
    BY <1>1, <2>1, <2>2 DEF Flow
<1> QED
  BY <1>2, <1>3

\* Once the socket is closed only the wire counts.
LEMMA FlowClosed ==
  ASSUME NEW kind, NEW taken, NEW total, Flow(kind, taken, total), closed', wire' = wire
  PROVE  Flow(kind, taken, total)'
BY DEF Flow

\* on_write(): a packet goes from the queue to the wire.
LEMMA FlowWritten ==
  ASSUME ShapeInv, NEW kind, kind # "control", NEW taken, NEW total \in Nat,
         Flow(kind, taken, total), ~closed, outgoing # <<>>,
         wire' = wire \o Delivered(Head(outgoing)), outgoing' = Tail(outgoing),
         UNCHANGED <<posted, stopping>>
  PROVE  Flow(kind, taken, total)'
<1>1. PICK a \in 0 .. total :
        /\ InOrder(kind, wire, 0, a)
        /\ \E b \in 0 .. total :
             /\ InOrder(kind, outgoing, a, b)
             /\ ~stopping => b = taken /\ InOrder(kind, posted, b, total)
  BY DEF Flow
<1>2. PICK b \in 0 .. total :
        /\ InOrder(kind, outgoing, a, b)
        /\ ~stopping => b = taken /\ InOrder(kind, posted, b, total)
  BY <1>1
<1> DEFINE p == Head(outgoing)
<1>3. p \in AnyPacket /\ outgoing \in Seq(AnyPacket) /\ wire \in Seq(AnyPacket)
  BY HeadTailProperties DEF ShapeInv
<1>4. wire' = wire \/ wire' = Append(wire, p)
  BY <1>3, AppendIsConcat, ConcatEmptySeq DEF Delivered
<1>5. CASE p.kind = kind
  <2>1. p # Control
    BY <1>5, PacketTypes
  <2>2. wire' = Append(wire, p)
    BY <1>3, <2>1, AppendIsConcat DEF Delivered
  <2>3. p.n = a + 1 /\ a < b /\ InOrder(kind, outgoing', a + 1, b)
    BY <1>2, <1>3, <1>5, InOrderTake
  <2>4. InOrder(kind, wire', 0, a + 1)
    <3>1. a \in Nat /\ p.n = a + 1
      BY <2>3
    <3>2. InOrder(kind, Append(wire, p), 0, a + 1)
      BY <1>1, <1>3, <1>5, <3>1, InOrderNext
    <3> QED
      BY <2>2, <3>2
  <2>5. a + 1 \in 0 .. total
    BY <2>3
  <2> QED
    BY <1>2, <2>3, <2>4, <2>5 DEF Flow
<1>6. CASE p.kind # kind
  <2>1. InOrder(kind, wire', 0, a)
    <3>1. a \in Nat
      OBVIOUS
    <3>2. InOrder(kind, Append(wire, p), 0, a)
      BY <1>1, <1>3, <1>6, <3>1, InOrderAppend
    <3> QED
      BY <1>1, <1>4, <3>2
  <2>2. InOrder(kind, outgoing', a, b)
    BY <1>2, <1>3, <1>6, InOrderTail
  <2> QED
    BY <1>2, <2>1, <2>2 DEF Flow
<1> QED
  BY <1>5, <1>6

-----------------------------------------------------------------------------
\* What the steps have in common that answer the BMC ...
Answers ==
  /\ ~closed
  /\ UNCHANGED <<posted, stopping, closed, reported, wire, viewerVars>>
  /\ \/ UNCHANGED <<outgoing, writing>>
     \/ /\ ~stopping
        /\ writing' = TRUE
        /\ \E t \in Seq(AnyPacket) :
             /\ t # <<>>
             /\ \A i \in 1 .. Len(t) : t[i].kind = "control"
             /\ outgoing' = outgoing \o t

\* ... and those that close the socket.
Closes == CloseKvmSocket /\ UNCHANGED <<posted, reported, wire, viewerVars>>

\* queue_packets_() of answers: they come behind what is queued, and are being written.
LEMMA Queued ==
  ASSUME ShapeInv, NEW n \in Nat, QueuePackets([i \in 1 .. n |-> Control])
  PROVE  \/ UNCHANGED <<outgoing, writing>>
         \/ /\ ~stopping
            /\ writing' = TRUE
            /\ \E t \in Seq(AnyPacket) :
                 /\ t # <<>>
                 /\ \A i \in 1 .. Len(t) : t[i].kind = "control"
                 /\ outgoing' = outgoing \o t
<1> DEFINE t == [i \in 1 .. n |-> Control]
<1>1. t \in Seq(AnyPacket) /\ Len(t) = n
  BY PacketTypes
<1>2. \A i \in 1 .. Len(t) : t[i].kind = "control"
  BY <1>1, PacketTypes
<1>3. ASSUME t # <<>>
      PROVE  outgoing \o t # <<>>
  <2>1. Len(t) \in Nat \ {0} /\ Len(outgoing) \in Nat /\ Len(outgoing \o t) = Len(outgoing) + Len(t)
    BY <1>1, <1>3, ConcatProperties, LenProperties, EmptySeq DEF ShapeInv
  <2> QED
    BY <2>1, EmptySeq
<1> QED
  BY <1>1, <1>2, <1>3 DEF QueuePackets, StartWrite

\* queue_packets_() of one packet does the same with that one.
LEMMA Enqueued ==
  ASSUME ShapeInv, NEW p \in AnyPacket, QueuePackets(<<p>>)
  PROVE  \/ stopping /\ UNCHANGED <<outgoing, writing>>
         \/ /\ ~stopping
            /\ writing' = TRUE
            /\ outgoing' = Append(outgoing, p)
            /\ outgoing' # <<>>
<1>1. <<p>> # <<>> /\ outgoing \o <<p>> = Append(outgoing, p)
  BY AppendIsConcat DEF ShapeInv
<1>2. Append(outgoing, p) # <<>>
  BY AppendProperties DEF ShapeInv
<1> QED
  BY <1>1, <1>2 DEF QueuePackets, StartWrite

\* What the strand takes is a packet, or the start of the read.
LEMMA PostedHead ==
  ASSUME ShapeInv, posted # <<>>
  PROVE  Head(posted) \in AnyPacket /\ Tail(posted) \in Seq(AnyPacket)
BY HeadTailProperties DEF ShapeInv

\* What is being written is kept by an erase.
LEMMA ActiveWriteType ==
  ASSUME ShapeInv
  PROVE  /\ ActiveWrite \in Seq(AnyPacket)
         /\ Append(ActiveWrite, StopPacket) \in Seq(AnyPacket)
         /\ Append(ActiveWrite, StopPacket) # <<>>
         /\ Append(ActiveWrite, StopPacket)
              \in {<<StopPacket>>, <<Head(outgoing), StopPacket>>}
<1>1. ActiveWrite \in Seq(AnyPacket)
  BY HeadTailProperties, EmptySeq DEF ShapeInv, ActiveWrite
<1>2. Append(ActiveWrite, StopPacket) \in {<<StopPacket>>, <<Head(outgoing), StopPacket>>}
  <2>1. CASE ActiveWrite = <<>>
    BY <2>1
  <2>2. CASE outgoing # <<>> /\ ActiveWrite = <<Head(outgoing)>>
    <3>1. Append(<<Head(outgoing)>>, StopPacket) = <<Head(outgoing), StopPacket>>
      <4>1. /\ Head(outgoing) \in AnyPacket /\ StopPacket \in AnyPacket
            /\ <<Head(outgoing)>> \in Seq(AnyPacket) /\ Len(<<Head(outgoing)>>) = 1
            /\ <<Head(outgoing)>>[1] = Head(outgoing)
        BY <1>1, <2>2, PacketTypes, HeadTailProperties DEF ShapeInv
      <4> DEFINE t == Append(<<Head(outgoing)>>, StopPacket)
      <4>2. t \in Seq(AnyPacket) /\ Len(t) = 2 /\ t[1] = Head(outgoing) /\ t[2] = StopPacket
        BY <4>1, AppendProperties
      <4> HIDE DEF t
      <4>3. t = <<t[1], t[2]>>
        BY <4>2
      <4> QED
        BY <4>2, <4>3 DEF t
    <3> QED
      BY <2>2, <3>1
  <2> QED
    BY <2>1, <2>2 DEF ActiveWrite
<1> QED
  BY <1>1, <1>2, AppendProperties, PacketTypes

\* What the BMC sends is answered and no more.
LEMMA Received ==
  ASSUME ShapeInv, NEW answers \in Nat, NEW frames, Receive(answers, frames)
  PROVE  Answers
<1>1. PICK due \in IF frames THEN 0 .. 1 ELSE {0} :
        QueuePackets([i \in 1 .. answers + due |-> Control])
  BY DEF Receive
<1>2. answers + due \in Nat
  OBVIOUS
<1> QED
  BY <1>1, <1>2, Queued DEF Receive, Answers

\* What can happen in a step.
LEMMA StepCases ==
  ASSUME ShapeInv, [KvmNext]_kvmVars
  PROVE  ViewerNext \/ Strand \/ Answers \/ Closes \/ Written \/ UNCHANGED kvmVars
<1>1. CASE ConnectionAllowed
  BY <1>1, Received DEF ConnectionAllowed
<1>2. CASE Validated
  BY <1>2, Received DEF Validated
<1>3. CASE Answered
  BY <1>3, Received DEF Answered
<1>4. CASE ActiveClients
  BY <1>4, Received DEF ActiveClients
<1>5. CASE BlankScreen
  BY <1>5, Received DEF BlankScreen
<1>6. CASE PowerIsOn
  BY <1>6, Received DEF PowerIsOn
<1>7. CASE VideoFrame
  BY <1>7, Received DEF VideoFrame
<1>8. CASE PowerPoll
  <2>1. Len(<<Control>>) = 1 /\ <<Control>> = [i \in 1 .. 1 |-> Control]
    OBVIOUS
  <2>2. QueuePackets([i \in 1 .. 1 |-> Control])
    BY <1>8, <2>1 DEF PowerPoll
  <2> QED
    BY <1>8, <2>2, Queued DEF PowerPoll, Answers
<1>9. CASE ReadEnds \/ WriteFails \/ GraceExpires
  BY <1>9 DEF ReadEnds, WriteFails, GraceExpires, Closes
<1>10. CASE Returned
  BY <1>10 DEF Returned
<1> QED
  BY <1>1, <1>2, <1>3, <1>4, <1>5, <1>6, <1>7, <1>8, <1>9, <1>10 DEF KvmNext, KvmBmcNext

\* Every variable keeps its type.
LEMMA ShapeStep ==
  ASSUME ShapeInv, NoPacketStranded, [KvmNext]_kvmVars
  PROVE  ShapeInv'
<1> USE DEF ShapeInv, viewerVars, protocolVars
<1>1. CASE ViewerNext
  <2>1. CASE PostInput
    BY <2>1, PacketTypes DEF PostInput
  <2>2. CASE PostPower
    BY <2>2, PacketTypes DEF PostPower
  <2>3. CASE PostStop
    BY <2>3, PacketTypes DEF PostStop
  <2> QED
    BY <1>1, <2>1, <2>2, <2>3 DEF ViewerNext
<1>2. CASE Strand
  <2>1. CASE StartRunning
    BY <2>1, PacketTypes DEF StartRunning
  <2>2. CASE RunStart
    BY <2>2, PacketTypes DEF RunStart, RunPosted
  <2>3. CASE RunInput
    <3>1. /\ posted # <<>> /\ posted' = Tail(posted) /\ UNCHANGED <<wire, viewerVars, reported>>
          /\ QueuePackets(<<Head(posted)>>)
      BY <2>3 DEF RunInput, RunPosted
    <3>2. outgoing' \in Seq(AnyPacket)
      <4>1. outgoing' = outgoing \/ outgoing' = Append(outgoing, Head(posted))
        BY <3>1, PostedHead, Enqueued
      <4>2. Head(posted) \in AnyPacket
        BY <3>1, PostedHead
      <4>3. Append(outgoing, Head(posted)) \in Seq(AnyPacket)
        BY <4>2, AppendProperties
      <4> QED
        BY <4>1, <4>3
    <3> QED
      BY <3>1, <3>2, PostedHead
  <2>4. CASE RunPower
    <3>1. /\ posted # <<>> /\ posted' = Tail(posted) /\ UNCHANGED <<wire, viewerVars>>
          /\ QueuePackets(<<Head(posted)>>)
          /\ reported' = reported \/ reported' = Head(posted).n
      BY <2>4 DEF RunPower, RunPosted
    <3>2. outgoing' \in Seq(AnyPacket)
      <4>1. outgoing' = outgoing \/ outgoing' = Append(outgoing, Head(posted))
        BY <3>1, PostedHead, Enqueued
      <4>2. Head(posted) \in AnyPacket
        BY <3>1, PostedHead
      <4>3. Append(outgoing, Head(posted)) \in Seq(AnyPacket)
        BY <4>2, AppendProperties
      <4> QED
        BY <4>1, <4>3
    <3>3. Head(posted).n \in Nat
      BY <3>1, PostedHead DEF AnyPacket
    <3> QED
      BY <3>1, <3>2, <3>3, PostedHead
  <2>5. CASE RunStop
    <3>1. /\ posted' = Tail(posted) /\ posted # <<>> /\ UNCHANGED <<wire, viewerVars, reported>>
          /\ outgoing' = Append(ActiveWrite, StopPacket)
      BY <2>5 DEF RunStop, RunPosted, StartWrite
    <3> QED
      BY <3>1, ActiveWriteType, PostedHead
  <2> QED
    BY <1>2, <2>1, <2>2, <2>3, <2>4, <2>5 DEF Strand
<1>3. CASE Answers
  <2>1. outgoing' \in Seq(AnyPacket)
    BY <1>3, ConcatProperties DEF Answers
  <2> QED
    BY <1>3, <2>1 DEF Answers
<1>4. CASE Closes
  <2>1. outgoing' \in Seq(AnyPacket)
    BY <1>4, HeadTailProperties, EmptySeq DEF Closes, CloseKvmSocket, ActiveWrite
  <2> QED
    BY <1>4, <2>1 DEF Closes
<1>5. CASE Written
  <2>1. outgoing # <<>> /\ Head(outgoing) \in AnyPacket /\ outgoing' \in Seq(AnyPacket)
    BY <1>5, HeadTailProperties DEF Written, NoPacketStranded
  <2>2. wire' \in Seq(AnyPacket)
    <3>1. Delivered(Head(outgoing)) \in Seq(AnyPacket)
      BY <2>1, EmptySeq DEF Delivered
    <3> QED
      BY <1>5, <3>1, ConcatProperties DEF Written
  <2> QED
    BY <1>5, <2>1, <2>2 DEF Written
<1>6. CASE UNCHANGED kvmVars
  BY <1>6 DEF kvmVars
<1> QED
  BY <1>1, <1>2, <1>3, <1>4, <1>5, <1>6, StepCases

\* No step leaves a flag with anything but TRUE or FALSE.
LEMMA FlagStep ==
  ASSUME ShapeInv, FlagInv, [KvmNext]_kvmVars
  PROVE  FlagInv'
<1> USE DEF FlagInv, viewerVars, protocolVars
<1>1. CASE ViewerNext
  <2>1. CASE PostInput
    BY <2>1 DEF PostInput
  <2>2. CASE PostPower
    BY <2>2 DEF PostPower
  <2>3. CASE PostStop
    BY <2>3 DEF PostStop
  <2> QED
    BY <1>1, <2>1, <2>2, <2>3 DEF ViewerNext
<1>2. CASE Strand
  <2>1. CASE StartRunning
    BY <2>1 DEF StartRunning
  <2>2. CASE RunStart
    BY <2>2 DEF RunStart, RunPosted
  <2>3. CASE RunInput
    BY <2>3 DEF RunInput, RunPosted, QueuePackets, StartWrite
  <2>4. CASE RunPower
    BY <2>4 DEF RunPower, RunPosted, QueuePackets, StartWrite
  <2>5. CASE RunStop
    BY <2>5 DEF RunStop, RunPosted, StartWrite
  <2> QED
    BY <1>2, <2>1, <2>2, <2>3, <2>4, <2>5 DEF Strand
<1>3. CASE Answers
  BY <1>3 DEF Answers
<1>4. CASE Closes
  BY <1>4 DEF Closes, CloseKvmSocket
<1>5. CASE Written
  BY <1>5 DEF Written
<1>6. CASE UNCHANGED kvmVars
  BY <1>6 DEF kvmVars
<1> QED
  BY <1>1, <1>2, <1>3, <1>4, <1>5, <1>6, StepCases

\* A write is under way when there is something to write.
LEMMA StrandedStep ==
  ASSUME ShapeInv, FlagInv, NoPacketStranded, [KvmNext]_kvmVars
  PROVE  NoPacketStranded'
<1> USE DEF NoPacketStranded, viewerVars, protocolVars
<1>1. CASE ViewerNext
  <2>1. CASE PostInput
    BY <2>1 DEF PostInput
  <2>2. CASE PostPower
    BY <2>2 DEF PostPower
  <2>3. CASE PostStop
    BY <2>3 DEF PostStop
  <2> QED
    BY <1>1, <2>1, <2>2, <2>3 DEF ViewerNext
<1>2. CASE Strand
  <2>1. CASE StartRunning
    BY <2>1 DEF StartRunning
  <2>2. CASE RunStart
    BY <2>2 DEF RunStart, RunPosted
  <2>3. CASE RunInput
    <3>1. /\ posted # <<>> /\ UNCHANGED <<stopping, closed>> /\ QueuePackets(<<Head(posted)>>)
      BY <2>3 DEF RunInput, RunPosted
    <3> QED
      BY <3>1, PostedHead, Enqueued
  <2>4. CASE RunPower
    <3>1. /\ posted # <<>> /\ UNCHANGED <<stopping, closed>> /\ QueuePackets(<<Head(posted)>>)
      BY <2>4 DEF RunPower, RunPosted
    <3> QED
      BY <3>1, PostedHead, Enqueued
  <2>5. CASE RunStop
    <3>1. /\ outgoing' = Append(ActiveWrite, StopPacket) /\ closed' = closed /\ stopping'
          /\ writing' = (writing \/ outgoing' # <<>>)
      BY <2>5 DEF RunStop, RunPosted, StartWrite
    <3> QED
      BY <3>1, ActiveWriteType
  <2> QED
    BY <1>2, <2>1, <2>2, <2>3, <2>4, <2>5 DEF Strand
<1>3. CASE Answers
  BY <1>3 DEF Answers
<1>4. CASE Closes
  BY <1>4 DEF Closes, CloseKvmSocket
<1>5. CASE Written
  BY <1>5 DEF Written
<1>6. CASE UNCHANGED kvmVars
  BY <1>6 DEF kvmVars
<1> QED
  BY <1>1, <1>2, <1>3, <1>4, <1>5, <1>6, StepCases

\* Behind the stop packet nothing is put into the queue.
LEMMA StopStep ==
  ASSUME ShapeInv, FlagInv, NoPacketStranded, StopOvertakesQueue, [KvmNext]_kvmVars
  PROVE  StopOvertakesQueue'
<1> USE DEF StopOvertakesQueue, viewerVars, protocolVars
<1>1. CASE ViewerNext
  <2>1. CASE PostInput
    BY <2>1 DEF PostInput
  <2>2. CASE PostPower
    BY <2>2 DEF PostPower
  <2>3. CASE PostStop
    BY <2>3 DEF PostStop
  <2> QED
    BY <1>1, <2>1, <2>2, <2>3 DEF ViewerNext
<1>2. CASE Strand
  <2>1. CASE StartRunning
    BY <2>1 DEF StartRunning
  <2>2. CASE RunStart
    BY <2>2 DEF RunStart, RunPosted
  <2>3. CASE RunInput
    <3>1. /\ posted # <<>> /\ UNCHANGED <<stopping, closed>> /\ QueuePackets(<<Head(posted)>>)
      BY <2>3 DEF RunInput, RunPosted
    <3> QED
      BY <3>1, PostedHead, Enqueued
  <2>4. CASE RunPower
    <3>1. /\ posted # <<>> /\ UNCHANGED <<stopping, closed>> /\ QueuePackets(<<Head(posted)>>)
      BY <2>4 DEF RunPower, RunPosted
    <3> QED
      BY <3>1, PostedHead, Enqueued
  <2>5. CASE RunStop
    <3>1. /\ outgoing' = Append(ActiveWrite, StopPacket) /\ closed' = closed /\ stopping'
          /\ writing' = (writing \/ outgoing' # <<>>)
      BY <2>5 DEF RunStop, RunPosted, StartWrite
    <3> QED
      BY <3>1, ActiveWriteType
  <2> QED
    BY <1>2, <2>1, <2>2, <2>3, <2>4, <2>5 DEF Strand
<1>3. CASE Answers
  BY <1>3 DEF Answers
<1>4. CASE Closes
  BY <1>4 DEF Closes, CloseKvmSocket
<1>5. CASE Written
  <2>1. outgoing # <<>> /\ outgoing \in Seq(AnyPacket)
    BY <1>5 DEF Written, NoPacketStranded, ShapeInv
  <2>2. ~closed /\ stopping' = stopping /\ outgoing' = Tail(outgoing)
        /\ (stopping /\ Tail(outgoing) = <<>> => closed')
    BY <1>5 DEF Written
  <2>3. CASE outgoing = <<StopPacket>>
    BY <2>2, <2>3
  <2>4. CASE Len(outgoing) = 2 /\ outgoing[2] = StopPacket
    <3>1. /\ Tail(outgoing) \in Seq(AnyPacket) /\ Len(Tail(outgoing)) = 1
          /\ Tail(outgoing)[1] = StopPacket
      <4> DEFINE o == outgoing
      <4> HIDE DEF o
      <4>1. o # <<>> /\ o \in Seq(AnyPacket) /\ Len(o) = 2 /\ o[2] = StopPacket
        BY <2>1, <2>4 DEF o
      <4>2. Tail(o) \in Seq(AnyPacket) /\ Len(Tail(o)) = 1 /\ Tail(o)[1] = o[2]
        BY <4>1, HeadTailProperties
      <4> QED
        BY <4>1, <4>2 DEF o
    <3>2. Tail(outgoing) = <<StopPacket>>
      <4> DEFINE t == Tail(outgoing)
      <4> HIDE DEF t
      <4>1. t \in Seq(AnyPacket) /\ Len(t) = 1 /\ t[1] = StopPacket
        BY <3>1 DEF t
      <4>2. t = <<t[1]>>
        BY <4>1
      <4> QED
        BY <4>1, <4>2 DEF t
    <3> QED
      BY <2>2, <3>2
  <2> QED
    BY <2>2, <2>3, <2>4
<1>6. CASE UNCHANGED kvmVars
  BY <1>6 DEF kvmVars
<1> QED
  BY <1>1, <1>2, <1>3, <1>4, <1>5, <1>6, StepCases

\* A step that leaves the counters alone moves both kinds of packets on.
LEMMA FlowsKept ==
  ASSUME ShapeInv, InputFlow, PowerFlow, UNCHANGED <<inputs, powers, reported>>,
         \A kind \in {"hid", "power"} : \A taken, total \in Nat :
           Flow(kind, taken, total) => Flow(kind, taken, total)'
  PROVE  InputFlow' /\ PowerFlow'
<1>1. inputs \in Nat /\ powers \in Nat /\ reported \in Nat
  BY DEF ShapeInv
<1>2. PICK taken \in Nat : Flow("hid", taken, inputs)
  BY DEF InputFlow
<1>3. Flow("hid", taken, inputs)'
  <2>1. inputs' = inputs
    OBVIOUS
  <2>2. \A total \in Nat : Flow("hid", taken, total) => Flow("hid", taken, total)'
    BY <1>2
  <2>3. \A total \in Nat :
          total = inputs => (Flow("hid", taken, total)' <=> Flow("hid", taken, inputs)')
    BY <2>1 DEF Flow
  <2> QED
    BY <1>1, <1>2, <2>2, <2>3
<1>4. Flow("power", reported, powers)'
  <2>1. powers' = powers /\ reported' = reported
    OBVIOUS
  <2>2. \A taken_1, total \in Nat : Flow("power", taken_1, total) => Flow("power", taken_1, total)'
    OBVIOUS
  <2>3. \A taken_1, total \in Nat : taken_1 = reported /\ total = powers =>
          (Flow("power", taken_1, total)' <=> Flow("power", reported, powers)')
    BY <2>1 DEF Flow
  <2> QED
    BY <1>1, <2>2, <2>3 DEF PowerFlow
<1> QED
  BY <1>2, <1>3, <1>4 DEF InputFlow, PowerFlow

\* Every step moves them on, or adds one that was posted at the end of its kind.
LEMMA FlowStep ==
  ASSUME ShapeInv, FlagInv, NoPacketStranded, InputFlow, PowerFlow, [KvmNext]_kvmVars
  PROVE  InputFlow' /\ PowerFlow'
<1> USE DEF viewerVars, protocolVars
<1>1. CASE PostInput
  <2>1. /\ posted' = Append(posted, Hid(inputs + 1)) /\ inputs' = inputs + 1
        /\ UNCHANGED <<outgoing, wire, stopping, closed, reported, powers>>
    BY <1>1 DEF PostInput
  <2>2. /\ inputs \in Nat /\ powers \in Nat /\ reported \in Nat
        /\ Hid(inputs + 1) \in AnyPacket /\ Hid(inputs + 1).kind = "hid"
        /\ Hid(inputs + 1).n = inputs + 1
    BY PacketTypes DEF ShapeInv
  <2>3. PICK taken \in Nat : Flow("hid", taken, inputs)
    BY DEF InputFlow
  <2>4. Flow("hid", taken, inputs)'
    <3>1. PICK total \in Nat : total = inputs
      BY <2>2
    <3>2. Flow("hid", taken, total + 1)'
      BY <2>1, <2>2, <2>3, <3>1, FlowPosted
    <3>3. inputs' = total + 1
      BY <2>1, <3>1
    <3> QED
      BY <3>2, <3>3 DEF Flow
  <2>5. Flow("power", reported, powers)'
    BY <2>1, <2>2, FlowPosted DEF PowerFlow
  <2> QED
    BY <2>3, <2>4, <2>5 DEF InputFlow, PowerFlow
<1>2. CASE PostPower
  <2>1. /\ posted' = Append(posted, Power(powers + 1)) /\ powers' = powers + 1
        /\ UNCHANGED <<outgoing, wire, stopping, closed, reported, inputs>>
    BY <1>2 DEF PostPower
  <2>2. /\ inputs \in Nat /\ powers \in Nat /\ reported \in Nat
        /\ Power(powers + 1) \in AnyPacket /\ Power(powers + 1).kind = "power"
        /\ Power(powers + 1).n = powers + 1
    BY PacketTypes DEF ShapeInv
  <2>3. PICK taken \in Nat : Flow("hid", taken, inputs)
    BY DEF InputFlow
  <2>4. Flow("hid", taken, inputs)'
    BY <2>1, <2>2, <2>3, FlowPosted
  <2>5. Flow("power", reported, powers)'
    <3>1. PICK total \in Nat : total = powers
      BY <2>2
    <3>2. PICK taken_1 \in Nat : taken_1 = reported
      BY <2>2
    <3>3. Flow("power", taken_1, total + 1)'
      BY <2>1, <2>2, <3>1, <3>2, FlowPosted DEF PowerFlow
    <3>4. powers' = total + 1 /\ reported' = taken_1
      BY <2>1, <3>1, <3>2
    <3> QED
      BY <3>3, <3>4 DEF Flow
  <2> QED
    BY <2>3, <2>4, <2>5 DEF InputFlow, PowerFlow
<1>3. CASE PostStop \/ StartRunning
  <2>1. PICK p \in {StopPacket, Start} :
          /\ posted' = Append(posted, p)
          /\ UNCHANGED <<outgoing, wire, stopping, closed, reported, inputs, powers>>
    BY <1>3 DEF PostStop, StartRunning
  <2>2. p \in AnyPacket /\ p.kind \notin {"hid", "power"}
    BY PacketTypes
  <2>3. \A kind \in {"hid", "power"} : \A taken, total \in Nat :
          Flow(kind, taken, total) => Flow(kind, taken, total)'
    BY <2>1, <2>2, FlowPosted
  <2> QED
    BY <2>1, <2>3, FlowsKept
<1>4. CASE RunStart
  <2>1. /\ posted # <<>> /\ Head(posted).kind = "start" /\ posted' = Tail(posted)
        /\ UNCHANGED <<outgoing, wire, stopping, closed, reported, inputs, powers>>
    BY <1>4 DEF RunStart, RunPosted
  <2>2. \A kind \in {"hid", "power"} : \A taken, total \in Nat :
          Flow(kind, taken, total) => Flow(kind, taken, total)'
    BY <2>1, FlowPassed
  <2> QED
    BY <2>1, <2>2, FlowsKept
<1>5. CASE RunInput
  <2>1. /\ posted # <<>> /\ Head(posted).kind = "hid" /\ posted' = Tail(posted) /\ ~closed
        /\ UNCHANGED <<wire, stopping, closed, reported, inputs, powers>>
        /\ QueuePackets(<<Head(posted)>>)
    BY <1>5 DEF RunInput, RunPosted
  <2>2. CASE stopping
    <3>1. outgoing' = outgoing
      BY <2>1, <2>2 DEF QueuePackets
    <3>2. \A kind \in {"hid", "power"} : \A taken, total \in Nat :
            Flow(kind, taken, total) => Flow(kind, taken, total)'
      BY <2>1, <2>2, <3>1, FlowPassed
    <3> QED
      BY <2>1, <3>2, FlowsKept
  <2>3. CASE ~stopping
    <3>1. outgoing' = Append(outgoing, Head(posted))
      BY <2>1, <2>3, PostedHead, Enqueued
    <3>2. PICK taken \in Nat : Flow("hid", taken, inputs)
      BY DEF InputFlow
    <3>3. inputs \in Nat /\ powers \in Nat /\ reported \in Nat
      BY DEF ShapeInv
    <3>4. Flow("hid", taken + 1, inputs)'
      BY <2>1, <2>3, <3>1, <3>2, <3>3, FlowTaken
    <3>5. Flow("power", reported, powers)'
      BY <2>1, <3>1, <3>3, FlowPassed DEF PowerFlow
    <3>6. taken + 1 \in Nat
      OBVIOUS
    <3> QED
      BY <2>1, <3>4, <3>5, <3>6 DEF InputFlow, PowerFlow, Flow
  <2> QED
    BY <2>2, <2>3
<1>6. CASE RunPower
  <2>1. /\ posted # <<>> /\ Head(posted).kind = "power" /\ posted' = Tail(posted) /\ ~closed
        /\ UNCHANGED <<wire, stopping, closed, inputs, powers>>
        /\ QueuePackets(<<Head(posted)>>)
        /\ reported' = IF stopping THEN reported ELSE Head(posted).n
    BY <1>6 DEF RunPower, RunPosted
  <2>2. CASE stopping
    <3>1. outgoing' = outgoing /\ reported' = reported
      BY <2>1, <2>2 DEF QueuePackets
    <3>2. \A kind \in {"hid", "power"} : \A taken, total \in Nat :
            Flow(kind, taken, total) => Flow(kind, taken, total)'
      BY <2>1, <2>2, <3>1, FlowPassed
    <3> QED
      BY <2>1, <3>1, <3>2, FlowsKept
  <2>3. CASE ~stopping
    <3>1. outgoing' = Append(outgoing, Head(posted)) /\ reported' = Head(posted).n
      BY <2>1, <2>3, PostedHead, Enqueued
    <3>2. PICK taken \in Nat : Flow("hid", taken, inputs)
      BY DEF InputFlow
    <3>3. inputs \in Nat /\ powers \in Nat /\ reported \in Nat
      BY DEF ShapeInv
    <3>4. Flow("hid", taken, inputs)'
      BY <2>1, <3>1, <3>2, <3>3, FlowPassed
    <3>5. Flow("power", reported, powers)'
      <4>1. PICK n \in Nat, total \in Nat : n = reported /\ total = powers
        BY <3>3
      <4>2. Head(posted).n = n + 1 /\ Flow("power", n + 1, total)'
        BY <2>1, <2>3, <3>1, <4>1, FlowTaken DEF PowerFlow
      <4>3. reported' = n + 1 /\ powers' = total
        BY <2>1, <3>1, <4>1, <4>2
      <4> QED
        BY <4>2, <4>3 DEF Flow
    <3> QED
      BY <3>2, <3>4, <3>5 DEF InputFlow, PowerFlow
  <2> QED
    BY <2>2, <2>3
<1>7. CASE RunStop
  <2>1. /\ outgoing' = Append(ActiveWrite, StopPacket) /\ stopping'
        /\ UNCHANGED <<wire, closed, reported, inputs, powers>>
    BY <1>7 DEF RunStop, RunPosted, StartWrite
  <2>2. \A kind \in {"hid", "power"} : \A taken, total \in Nat :
          Flow(kind, taken, total) => Flow(kind, taken, total)'
    BY <2>1, FlowStopped
  <2> QED
    BY <2>1, <2>2, FlowsKept
<1>8. CASE Answers
  <2>1. UNCHANGED <<posted, wire, stopping, closed, reported, inputs, powers>>
    BY <1>8 DEF Answers
  <2>2. CASE outgoing' = outgoing
    <3>1. \A kind \in {"hid", "power"} : \A taken, total \in Nat :
            Flow(kind, taken, total) => Flow(kind, taken, total)'
      BY <2>1, <2>2, FlowKept
    <3> QED
      BY <2>1, <3>1, FlowsKept
  <2>3. CASE outgoing' # outgoing
    <3>1. PICK t \in Seq(AnyPacket) :
            (\A i \in 1 .. Len(t) : t[i].kind = "control") /\ outgoing' = outgoing \o t
      BY <1>8, <2>3 DEF Answers
    <3>2. \A kind \in {"hid", "power"} : \A i \in 1 .. Len(t) : t[i].kind # kind
      BY <3>1
    <3>3. \A kind \in {"hid", "power"} : \A taken, total \in Nat :
            Flow(kind, taken, total) => Flow(kind, taken, total)'
      BY <2>1, <3>1, <3>2, FlowAnswered
    <3> QED
      BY <2>1, <3>3, FlowsKept
  <2> QED
    BY <2>2, <2>3
<1>9. CASE Closes
  <2>1. closed' /\ UNCHANGED <<wire, reported, inputs, powers>>
    BY <1>9 DEF Closes, CloseKvmSocket
  <2>2. \A kind \in {"hid", "power"} : \A taken, total \in Nat :
          Flow(kind, taken, total) => Flow(kind, taken, total)'
    BY <2>1, FlowClosed
  <2> QED
    BY <2>1, <2>2, FlowsKept
<1>10. CASE Written
  <2>1. /\ ~closed /\ outgoing # <<>> /\ wire' = wire \o Delivered(Head(outgoing))
        /\ outgoing' = Tail(outgoing)
        /\ UNCHANGED <<posted, stopping, reported, inputs, powers>>
    BY <1>10 DEF Written, NoPacketStranded
  <2>2. \A kind \in {"hid", "power"} : \A taken, total \in Nat :
          Flow(kind, taken, total) => Flow(kind, taken, total)'
    BY <2>1, FlowWritten
  <2> QED
    BY <2>1, <2>2, FlowsKept
<1>11. CASE UNCHANGED kvmVars
  <2>1. UNCHANGED <<posted, outgoing, wire, stopping, closed, reported, inputs, powers>>
    BY <1>11 DEF kvmVars
  <2>2. \A kind \in {"hid", "power"} : \A taken, total \in Nat :
          Flow(kind, taken, total) => Flow(kind, taken, total)'
    BY <2>1, FlowKept
  <2> QED
    BY <2>1, <2>2, FlowsKept
<1> QED
  BY <1>1, <1>2, <1>3, <1>4, <1>5, <1>6, <1>7, <1>8, <1>9, <1>10, <1>11, StepCases
  DEF ViewerNext, Strand

-----------------------------------------------------------------------------
\* The invariant holds at the start, with what was typed before the session began, and
\* every step keeps it.
LEMMA InvInit == KvmInit => IInv
<1> SUFFICES ASSUME KvmInit
             PROVE  IInv
  OBVIOUS
<1> USE DEF KvmInit
<1>1. inputs \in Nat /\ posted = [i \in 1 .. inputs |-> Hid(i)]
  BY SessionAssumption
<1>2. ShapeInv
  <2>1. posted \in Seq(AnyPacket)
    BY <1>1, PacketTypes
  <2> QED
    BY <1>1, <2>1, EmptySeq DEF ShapeInv
<1>3. FlagInv /\ NoPacketStranded /\ StopOvertakesQueue
  BY DEF FlagInv, NoPacketStranded, StopOvertakesQueue
<1>4. \A kind \in {"hid", "power"} : InOrder(kind, wire, 0, 0) /\ InOrder(kind, outgoing, 0, 0)
  BY InOrderEmpty
<1>5. Len(posted) = inputs /\ \A i \in 1 .. inputs : posted[i] = Hid(i)
  BY <1>1
<1>6. \A i \in 1 .. inputs : posted[i].kind = "hid" /\ posted[i].n = i
  BY <1>1, <1>5, PacketTypes
<1>7. InOrder("hid", posted, 0, inputs)
  <2>1. 0 <= inputs
    BY <1>1
  <2>2. \A n \in 0 + 1 .. inputs : \E i \in 1 .. Len(posted) : posted[i] = Packet("hid", n)
    BY <1>1, <1>5 DEF Hid
  <2>3. \A i \in 1 .. Len(posted) : posted[i].n \in 0 + 1 .. inputs
    BY <1>1, <1>5, <1>6
  <2>4. \A i, j \in 1 .. Len(posted) : i < j => posted[i].n < posted[j].n
    BY <1>1, <1>5, <1>6
  <2> QED
    BY <2>1, <2>2, <2>3, <2>4 DEF InOrder
<1>8. InOrder("power", posted, 0, 0)
  BY <1>5, <1>6 DEF InOrder
<1>9. InputFlow
  <2>1. Flow("hid", 0, inputs)
    BY <1>1, <1>4, <1>7 DEF Flow
  <2> QED
    BY <2>1 DEF InputFlow
<1>10. PowerFlow
  BY <1>4, <1>8 DEF PowerFlow, Flow
<1> QED
  BY <1>2, <1>3, <1>9, <1>10 DEF IInv

\* Every step keeps the whole of it.
LEMMA InvStep == IInv /\ [KvmNext]_kvmVars => IInv'
BY ShapeStep, FlagStep, StrandedStep, StopStep, FlowStep DEF IInv

\* So it holds in every state.
LEMMA Invariant == KvmSpec => []IInv
BY InvInit, InvStep, PTL DEF KvmSpec

-----------------------------------------------------------------------------
\* What the session accepts is written: while it is open a write is under way when there is
\* something to write, the BMC receives the input in the order it was typed and without a
\* gap whatever the session sends in between and whenever it is stopped, and the power
\* actions that the user was told of are sent or on their way (send_packet(),
\* send_power_command(), start_write(), on_write(), close_socket()).
THEOREM AcceptedCorrect == KvmSpec => []AcceptedIsSent
<1>1. IInv => AcceptedIsSent
  <2> SUFFICES ASSUME IInv
               PROVE  AcceptedIsSent
    OBVIOUS
  <2>1. InputInOrder
    <3>1. \E a \in 0 .. inputs : InOrder("hid", wire, 0, a)
      BY DEF IInv, InputFlow, Flow
    <3> QED
      BY <3>1 DEF InputInOrder
  <2>2. ReportedPowerIsQueued
    <3> SUFFICES ASSUME ~stopping, ~closed, NEW n \in 1 .. reported
                 PROVE  Power(n) \in ToSet(wire) \cup ToSet(outgoing)
      BY DEF ReportedPowerIsQueued
    <3>1. PICK a \in 0 .. powers :
            /\ InOrder("power", wire, 0, a)
            /\ \E b \in 0 .. powers : InOrder("power", outgoing, a, b) /\ b = reported
      BY DEF IInv, PowerFlow, Flow
    <3>2. InOrder("power", outgoing, a, reported)
      BY <3>1
    <3>3. DOMAIN wire = 1 .. Len(wire) /\ DOMAIN outgoing = 1 .. Len(outgoing)
      BY LenProperties DEF IInv, ShapeInv
    <3>4. reported \in Nat /\ powers \in Nat
      BY DEF IInv, ShapeInv
    <3>5. CASE n <= a
      <4>1. n \in 0 + 1 .. a
        BY <3>4, <3>5
      <4>2. \E i \in 1 .. Len(wire) : wire[i] = Power(n)
        BY <3>1, <4>1 DEF InOrder, Power
      <4> QED
        BY <3>3, <4>2 DEF ToSet
    <3>6. CASE ~(n <= a)
      <4>1. n \in a + 1 .. reported
        BY <3>4, <3>6
      <4>2. \E i \in 1 .. Len(outgoing) : outgoing[i] = Power(n)
        BY <3>2, <4>1 DEF InOrder, Power
      <4> QED
        BY <3>3, <4>2 DEF ToSet
    <3> QED
      BY <3>5, <3>6
  <2> QED
    BY <2>1, <2>2 DEF IInv, AcceptedIsSent
<1> QED
  BY <1>1, Invariant, PTL

\* Once the strand has run request_stop(), at most the packet that was being written goes
\* out before the stop packet, and nothing after it: no key and no power action follows it.
THEOREM StopCorrect == KvmSpec => []StopOvertakesQueue
<1>1. IInv => StopOvertakesQueue
  BY DEF IInv
<1> QED
  BY <1>1, Invariant, PTL

-----------------------------------------------------------------------------
\* InputPath, the way of the keys to the session, for any keys, plans and bounds.

IsSequence(s) == \E S : s \in Seq(S)

\* The typer holds a key down as far as it knows, and the running handler is about to release
\* one.
Held(key) == \E i \in 1 .. Len(pressed) : pressed[i] = key
Up(key) == \E i \in 1 .. Len(todo) : todo[i].key = key /\ ~todo[i].down

\* What a handler feeds: a press at most, and then releases.  The typer keeps track of the
\* press that it feeds, or feeds the release as well.
FeedInv ==
  /\ IsSequence(pressed) /\ IsSequence(todo)
  /\ ~active => pressed = <<>>
  /\ active => Len(todo) <= 1
  /\ \A i \in 2 .. Len(todo) : ~todo[i].down
  /\ todo # <<>> /\ todo[1].down =>
       \/ Held(todo[1].key)
       \/ \E i \in 2 .. Len(todo) : todo[i].key = todo[1].key
       \/ ~active /\ todo[1].by = "user"

\* What the typer has pressed in the controller it knows of, or it is being released.
TypedInv ==
  /\ typed \subseteq keyDown
  /\ ~dropped => \A key \in typed : Held(key) \/ Up(key)
  /\ active /\ ~dropped => \A key \in keyDown : key \in atStart \/ Held(key) \/ Up(key)

\* A call of the sink that will reach this session.
Calls == calling # <<>> /\ calling[1].to = session

\* The last report on its way, wherever that is, says what the controller says.
ReportInv ==
  /\ session \in Nat
  /\ sink # 0 => net = "running"
  /\ net = "running" => sink = session /\ 1 <= session
  /\ net = "connected" => ~told /\ 1 <= session
  /\ IsSequence(pending) /\ IsSequence(flushing)
  /\ sink # 0 => pending = <<>>
  /\ flushing # <<>> => net = "running"
  /\ calling # <<>> => calling[1].report = keyDown
  /\ pending # <<>> => pending[Len(pending)] = keyDown
  /\ ~overtaken /\ flushing # <<>> /\ ~Calls => flushing[Len(flushing)] = keyDown
  /\ ~overtaken /\ net = "running" /\ flushing = <<>> /\ told /\ ~Calls => guest = keyDown

InputInv == FeedInv /\ TypedInv /\ ReportInv

-----------------------------------------------------------------------------
\* Sequences.

\* A sequence is one whatever it is of.
LEMMA SequenceIs ==
  ASSUME NEW s, IsSequence(s)
  PROVE  /\ Len(s) \in Nat /\ DOMAIN s = 1 .. Len(s)
         /\ s # <<>> <=> 1 <= Len(s)
         /\ s \in Seq(ToSet(s))
<1>1. PICK S : s \in Seq(S)
  BY DEF IsSequence
<1>2. Len(s) \in Nat /\ DOMAIN s = 1 .. Len(s) /\ s \in [1 .. Len(s) -> S]
  BY <1>1, LenProperties
<1>3. s # <<>> <=> 1 <= Len(s)
  BY <1>1, <1>2, EmptySeq
<1>4. s \in Seq(ToSet(s))
  <2>1. s \in [1 .. Len(s) -> ToSet(s)]
    BY <1>2 DEF ToSet
  <2> QED
    BY <1>2, <2>1
<1> QED
  BY <1>2, <1>3, <1>4

\* One more at its end.
LEMMA AppendIs ==
  ASSUME NEW s, IsSequence(s), NEW x
  PROVE  /\ IsSequence(Append(s, x)) /\ Len(Append(s, x)) = Len(s) + 1
         /\ Append(s, x)[Len(s) + 1] = x /\ Append(s, x) # <<>>
         /\ \A i \in 1 .. Len(s) : Append(s, x)[i] = s[i]
<1> DEFINE S == ToSet(s) \cup {x}
<1>1. s \in Seq(S) /\ x \in S /\ Len(s) \in Nat
  <2>1. s \in Seq(ToSet(s)) /\ Len(s) \in Nat /\ DOMAIN s = 1 .. Len(s)
    BY SequenceIs
  <2>2. s \in [1 .. Len(s) -> ToSet(s)]
    BY <2>1, LenProperties
  <2>3. s \in [1 .. Len(s) -> S]
    BY <2>2
  <2> QED
    BY <2>1, <2>3
<1> HIDE DEF S
<1>2. /\ Append(s, x) \in Seq(S) /\ Len(Append(s, x)) = Len(s) + 1
      /\ Append(s, x)[Len(s) + 1] = x
      /\ \A i \in 1 .. Len(s) : Append(s, x)[i] = s[i]
  BY <1>1, AppendProperties
<1>3. IsSequence(Append(s, x))
  BY <1>2 DEF IsSequence
<1>4. Append(s, x) # <<>>
  BY <1>1, <1>2, EmptySeq
<1> QED
  BY <1>2, <1>3, <1>4

\* One less at its head.
LEMMA TailIs ==
  ASSUME NEW s, IsSequence(s), s # <<>>
  PROVE  /\ IsSequence(Tail(s)) /\ Len(s) \in Nat /\ Len(Tail(s)) = Len(s) - 1
         /\ Head(s) = s[1]
         /\ \A i \in 1 .. Len(s) - 1 : Tail(s)[i] = s[i + 1]
<1>1. s \in Seq(ToSet(s)) /\ Len(s) \in Nat
  BY SequenceIs
<1>2. /\ Tail(s) \in Seq(ToSet(s)) /\ Len(Tail(s)) = Len(s) - 1 /\ Head(s) = s[1]
      /\ \A i \in 1 .. Len(s) - 1 : Tail(s)[i] = s[i + 1]
  BY <1>1, HeadTailProperties
<1> QED
  BY <1>1, <1>2 DEF IsSequence

\* Two, one behind the other.
LEMMA ConcatIs ==
  ASSUME NEW s, NEW t, IsSequence(s), IsSequence(t)
  PROVE  /\ IsSequence(s \o t) /\ Len(s) \in Nat /\ Len(t) \in Nat
         /\ Len(s \o t) = Len(s) + Len(t)
         /\ \A i \in 1 .. Len(s) : (s \o t)[i] = s[i]
         /\ \A i \in 1 .. Len(t) : (s \o t)[Len(s) + i] = t[i]
<1> DEFINE S == ToSet(s) \cup ToSet(t)
<1>1. s \in Seq(S) /\ t \in Seq(S) /\ Len(s) \in Nat /\ Len(t) \in Nat
  <2>1. /\ s \in Seq(ToSet(s)) /\ Len(s) \in Nat
        /\ t \in Seq(ToSet(t)) /\ Len(t) \in Nat
    BY SequenceIs
  <2>2. s \in [1 .. Len(s) -> ToSet(s)] /\ t \in [1 .. Len(t) -> ToSet(t)]
    BY <2>1, LenProperties
  <2>3. s \in [1 .. Len(s) -> S] /\ t \in [1 .. Len(t) -> S]
    BY <2>2
  <2> QED
    BY <2>1, <2>3
<1> HIDE DEF S
<1>2. /\ s \o t \in Seq(S) /\ Len(s \o t) = Len(s) + Len(t)
      /\ \A i \in 1 .. Len(s) : (s \o t)[i] = s[i]
      /\ \A i \in 1 .. Len(t) : (s \o t)[Len(s) + i] = t[i]
  BY <1>1, ConcatProperties
<1> QED
  BY <1>1, <1>2 DEF IsSequence

\* The releases of some keys, newest first.
LEMMA UpsAre ==
  ASSUME NEW s, IsSequence(s)
  PROVE  /\ IsSequence(Ups(Reverse(s))) /\ Len(s) \in Nat
         /\ Len(Ups(Reverse(s))) = Len(s)
         /\ \A i \in 1 .. Len(s) :
              ~Ups(Reverse(s))[i].down
         /\ \A i \in 1 .. Len(s) : \E j \in 1 .. Len(s) : Ups(Reverse(s))[j].key = s[i]
<1> DEFINE r == Reverse(s)
           u == Ups(r)
           n == Len(s)
<1>1. n \in Nat
  BY SequenceIs
<1>2. r = [i \in 1 .. n |-> s[(n - i) + 1]]
  BY DEF Reverse
<1>3. Len(r) = n
  <2>1. r \in [1 .. n -> {s[(n - i) + 1] : i \in 1 .. n}]
    BY <1>2
  <2>2. r \in Seq({s[(n - i) + 1] : i \in 1 .. n})
    BY <1>1, <2>1
  <2> QED
    BY <1>1, <2>1, <2>2, LenProperties
<1> HIDE DEF r, n
<1>4. u = [i \in 1 .. n |-> Event(r[i], FALSE, "typer")]
  BY <1>3 DEF Ups
<1>5. \A i \in 1 .. n : u[i].key = r[i] /\ u[i].down = FALSE
  BY <1>4 DEF Event
<1>6. IsSequence(u) /\ Len(u) = n
  <2> DEFINE T == {Event(r[i], FALSE, "typer") : i \in 1 .. n}
  <2>1. u \in [1 .. n -> T]
    BY <1>4
  <2> HIDE DEF T, u
  <2>2. u \in Seq(T)
    BY <1>1, <2>1
  <2>3. Len(u) = n
    BY <1>1, <2>1, <2>2, LenProperties
  <2> QED
    BY <2>2, <2>3 DEF IsSequence
<1> HIDE DEF u
<1>7. \A i \in 1 .. n : \E j \in 1 .. n : u[j].key = s[i]
  <2> SUFFICES ASSUME NEW i \in 1 .. n
               PROVE  \E j \in 1 .. n : u[j].key = s[i]
    OBVIOUS
  <2>1. (n - i) + 1 \in 1 .. n /\ (n - ((n - i) + 1)) + 1 = i
    BY <1>1
  <2>2. r[(n - i) + 1] = s[i]
    BY <1>2, <2>1
  <2> QED
    BY <1>5, <2>1, <2>2
<1>8. \A i \in 1 .. n : ~u[i].down
  BY <1>5
<1> QED
  BY <1>1, <1>6, <1>7, <1>8 DEF n, u, r

Below == {pair \in Nat \X Nat : pair[1] < pair[2]}

\* A set of numbers has a least one.
LEMMA Least ==
  ASSUME NEW T, T \subseteq Nat, T # {}
  PROVE  \E m \in T : \A k \in T : m <= k
<1>1. IsWellFoundedOn(Below, Nat)
  BY NatLessThanWellFounded, Zenon DEF OpToRel, Below
<1>2. PICK m \in T : \A k \in T : ~ (<<k, m>> \in Below)
  BY <1>1, WFMin
<1>3. \A k \in T : ~ (k < m)
  BY <1>2 DEF Below
<1> QED
  BY <1>3

\* What a list is without one of its places.
LEMMA Removed ==
  ASSUME NEW S, NEW s \in Seq(S), NEW at \in 1 .. Len(s)
  PROVE  /\ RemoveAt(s, at) \in Seq(S) /\ Len(s) \in Nat
         /\ Len(RemoveAt(s, at)) = Len(s) - 1
         /\ \A i \in 1 .. Len(s) - 1 :
              RemoveAt(s, at)[i] = IF i < at THEN s[i] ELSE s[i + 1]
<1> DEFINE a == SubSeq(s, 1, at - 1)
           b == SubSeq(s, at + 1, Len(s))
<1>1. Len(s) \in Nat /\ at \in 1 .. Len(s)
  BY LenProperties
<1>2. /\ a \in Seq(S) /\ Len(a) = at - 1
      /\ \A i \in 1 .. at - 1 : a[i] = s[i]
  BY <1>1, SubSeqProperties
<1>3. /\ b \in Seq(S) /\ Len(b) = Len(s) - at
      /\ \A i \in 1 .. Len(s) - at : b[i] = s[at + i]
  BY <1>1, SubSeqProperties
<1>4. RemoveAt(s, at) = a \o b
  BY DEF RemoveAt
<1> HIDE DEF a, b
<1>5. /\ a \o b \in Seq(S) /\ Len(a \o b) = Len(a) + Len(b)
      /\ \A i \in 1 .. Len(a) + Len(b) :
           (a \o b)[i] = IF i <= Len(a) THEN a[i] ELSE b[i - Len(a)]
  BY <1>2, <1>3, ConcatProperties
<1>6. \A i \in 1 .. Len(s) - 1 : (a \o b)[i] = IF i < at THEN s[i] ELSE s[i + 1]
  <2> SUFFICES ASSUME NEW i \in 1 .. Len(s) - 1
               PROVE  (a \o b)[i] = IF i < at THEN s[i] ELSE s[i + 1]
    OBVIOUS
  <2>1. (a \o b)[i] = IF i <= at - 1 THEN a[i] ELSE b[i - (at - 1)]
    BY <1>1, <1>2, <1>3, <1>5
  <2>2. CASE i < at
    BY <1>1, <1>2, <2>1, <2>2
  <2>3. CASE ~(i < at)
    <3>1. i - (at - 1) \in 1 .. Len(s) - at /\ at + (i - (at - 1)) = i + 1
      BY <1>1, <2>3
    <3>2. b[i - (at - 1)] = s[i + 1]
      BY <1>3, <3>1
    <3> QED
      BY <1>1, <2>1, <2>3, <3>2
  <2> QED
    BY <2>2, <2>3
<1> QED
  BY <1>1, <1>2, <1>3, <1>4, <1>5, <1>6

\* And with one more.

\* There is a newest press of a key that is pressed.
LEMMA NewestIs ==
  ASSUME IsSequence(pressed), NEW key, Held(key)
  PROVE  Newest(key) \in 1 .. Len(pressed) /\ pressed[Newest(key)] = key
<1> DEFINE T == {Len(pressed) - i : i \in {j \in 1 .. Len(pressed) : pressed[j] = key}}
<1>1. Len(pressed) \in Nat /\ DOMAIN pressed = 1 .. Len(pressed)
  BY SequenceIs
<1>2. T \subseteq Nat /\ T # {}
  BY <1>1 DEF Held
<1> HIDE DEF T
<1>3. PICK m \in T : \A k \in T : m <= k
  BY <1>2, Least
<1>4. PICK i \in 1 .. Len(pressed) : pressed[i] = key /\ m = Len(pressed) - i
  BY <1>3 DEF T
<1>5. \A j \in 1 .. Len(pressed) : pressed[j] = key => j <= i
  <2> SUFFICES ASSUME NEW j \in 1 .. Len(pressed), pressed[j] = key
               PROVE  j <= i
    OBVIOUS
  <2>1. Len(pressed) - j \in T
    BY DEF T
  <2>2. m <= Len(pressed) - j
    BY <1>3, <2>1
  <2> QED
    BY <1>1, <1>4, <2>2
<1>6. \E n \in DOMAIN pressed :
        pressed[n] = key /\ \A j \in DOMAIN pressed : pressed[j] = key => j <= n
  BY <1>1, <1>4, <1>5
<1> QED
  BY <1>1, <1>6 DEF Newest

\* The bookkeeping of an event forgets no key but the one that is released, and has that
\* which is pressed.
LEMMA TrackKeeps ==
  ASSUME IsSequence(pressed), NEW event
  PROVE  /\ IsSequence(Track(event)) /\ Len(Track(event)) \in Nat
         /\ event.down => \E i \in 1 .. Len(Track(event)) : Track(event)[i] = event.key
         /\ \A key : Held(key) =>
              \/ \E i \in 1 .. Len(Track(event)) : Track(event)[i] = key
              \/ ~event.down /\ key = event.key
<1>1. Len(pressed) \in Nat /\ pressed \in Seq(ToSet(pressed))
      /\ DOMAIN pressed = 1 .. Len(pressed)
  BY SequenceIs
<1>2. CASE event.down
  <2>1. Track(event) = Append(pressed, event.key)
    BY <1>2 DEF Track
  <2>2. /\ IsSequence(Append(pressed, event.key))
        /\ Len(Append(pressed, event.key)) = Len(pressed) + 1
        /\ Append(pressed, event.key)[Len(pressed) + 1] = event.key
        /\ \A i \in 1 .. Len(pressed) : Append(pressed, event.key)[i] = pressed[i]
    BY AppendIs
  <2>3. IsSequence(Track(event)) /\ Len(Track(event)) = Len(pressed) + 1
        /\ Track(event)[Len(pressed) + 1] = event.key
        /\ \A i \in 1 .. Len(pressed) : Track(event)[i] = pressed[i]
    BY <2>1, <2>2
  <2>4. \A key : Held(key) => \E i \in 1 .. Len(Track(event)) : Track(event)[i] = key
    BY <1>1, <2>3 DEF Held
  <2>5. \E i \in 1 .. Len(Track(event)) : Track(event)[i] = event.key
    BY <1>1, <2>3
  <2>6. Len(Track(event)) \in Nat
    BY <1>1, <2>3
  <2> QED
    BY <2>3, <2>4, <2>5, <2>6
<1>3. CASE ~event.down /\ event.key \in ToSet(pressed)
  <2> DEFINE at == Newest(event.key)
             s == RemoveAt(pressed, at)
  <2>1. Track(event) = s
    BY <1>3 DEF Track
  <2>2. Held(event.key)
    BY <1>1, <1>3 DEF ToSet, Held
  <2>3. at \in 1 .. Len(pressed) /\ pressed[at] = event.key
    BY <2>2, NewestIs
  <2> HIDE DEF at
  <2>4. /\ s \in Seq(ToSet(pressed)) /\ Len(s) = Len(pressed) - 1
        /\ \A i \in 1 .. Len(pressed) - 1 :
             s[i] = IF i < at THEN pressed[i] ELSE pressed[i + 1]
    BY <1>1, <2>3, Removed
  <2> HIDE DEF s
  <2>5. \A key : Held(key) => (\E i \in 1 .. Len(s) : s[i] = key) \/ key = event.key
    <3> SUFFICES ASSUME NEW key, Held(key), key # event.key
                 PROVE  \E i \in 1 .. Len(s) : s[i] = key
      OBVIOUS
    <3>1. PICK j \in 1 .. Len(pressed) : pressed[j] = key
      BY DEF Held
    <3>2. j # at
      BY <2>3, <3>1
    <3>3. CASE j < at
      <4>1. j \in 1 .. Len(s) /\ s[j] = pressed[j]
        BY <1>1, <2>3, <2>4, <3>3
      <4> QED
        BY <3>1, <4>1
    <3>4. CASE at < j
      <4>1. j - 1 \in 1 .. Len(pressed) - 1 /\ ~(j - 1 < at) /\ (j - 1) + 1 = j
        BY <1>1, <2>3, <3>4
      <4>2. s[j - 1] = pressed[j] /\ j - 1 \in 1 .. Len(s)
        BY <2>4, <4>1
      <4> QED
        BY <3>1, <4>2
    <3> QED
      BY <1>1, <2>3, <3>2, <3>3, <3>4
  <2>6. Len(s) \in Nat
    BY <1>1, <2>3, <2>4
  <2>7. IsSequence(s)
    BY <2>4 DEF IsSequence
  <2> QED
    BY <1>3, <2>1, <2>5, <2>6, <2>7
<1>4. CASE ~event.down /\ event.key \notin ToSet(pressed)
  <2>1. Track(event) = pressed
    BY <1>4 DEF Track
  <2> QED
    BY <1>1, <1>4, <2>1 DEF Held
<1> QED
  BY <1>2, <1>3, <1>4

-----------------------------------------------------------------------------
\* What is fed, and what of it is down.

TyperInv == FeedInv /\ TypedInv

\* A step that feeds nothing and stops nothing.
LEMMA TyperKept ==
  ASSUME TyperInv, UNCHANGED <<pressed, todo, active, typed, keyDown, dropped>>,
         active => atStart' = atStart
  PROVE  TyperInv'
<1>1. /\ pressed' = pressed /\ todo' = todo /\ active' = active
      /\ typed' = typed /\ keyDown' = keyDown /\ dropped' = dropped
  OBVIOUS
<1>2. FeedInv'
  BY <1>1 DEF TyperInv, FeedInv, Held
<1>3. TypedInv'
  BY <1>1 DEF TyperInv, TypedInv, Held, Up
<1> QED
  BY <1>2, <1>3 DEF TyperInv

\* Nothing is to be fed but what the typer holds down.
LEMMA TyperStopped ==
  ASSUME TyperInv, todo = <<>>, StopTyping, UNCHANGED keyVars
  PROVE  TyperInv'
<1>1. /\ todo' = Ups(Reverse(pressed)) /\ pressed' = <<>> /\ active' = FALSE
      /\ keyDown' = keyDown /\ typed' = typed /\ dropped' = dropped
  BY DEF StopTyping, keyVars
<1>2. /\ IsSequence(todo') /\ Len(pressed) \in Nat /\ Len(todo') = Len(pressed)
      /\ \A i \in 1 .. Len(pressed) : ~todo'[i].down
      /\ \A i \in 1 .. Len(pressed) : \E j \in 1 .. Len(pressed) : todo'[j].key = pressed[i]
  <2>1. IsSequence(pressed)
    BY DEF TyperInv, FeedInv
  <2> QED
    BY <1>1, <2>1, UpsAre
<1>3. IsSequence(pressed') /\ (todo' # <<>> => ~todo'[1].down)
  <2>1. todo' # <<>> => 1 <= Len(todo')
    BY <1>2, SequenceIs
  <2>2. <<>> \in Seq({})
    BY EmptySeq
  <2> QED
    BY <1>1, <1>2, <2>1, <2>2 DEF IsSequence
<1>4. FeedInv'
  <2>1. \A i \in 2 .. Len(todo') : i \in 1 .. Len(pressed)
    BY <1>2
  <2>2. \A i \in 2 .. Len(todo') : ~todo'[i].down
    BY <1>2, <2>1
  <2> QED
    BY <1>1, <1>2, <1>3, <2>2 DEF FeedInv
<1>5. \A key : Held(key) \/ Up(key) => Up(key)'
  <2>1. \A key : ~Up(key)
    <3>1. Len(todo) = 0
      BY EmptySeq
    <3> QED
      BY <3>1 DEF Up
  <2> QED
    BY <1>2, <2>1 DEF Held, Up
<1>6. TypedInv'
  BY <1>1, <1>5 DEF TyperInv, TypedInv
<1> QED
  BY <1>4, <1>6 DEF TyperInv

\* One event of the user is to be fed.
LEMMA UserFed ==
  ASSUME TyperInv, todo = <<>>, ~active, NEW key, NEW down,
         todo' = <<Event(key, down, "user")>>, UNCHANGED <<typerVars, keyVars>>
  PROVE  TyperInv'
<1>1. /\ pressed' = pressed /\ active' = active
      /\ keyDown' = keyDown /\ typed' = typed /\ dropped' = dropped
  BY DEF typerVars, keyVars
<1>2. IsSequence(todo') /\ Len(todo') = 1 /\ todo'[1].by = "user"
  <2>1. <<Event(key, down, "user")>> \in Seq({Event(key, down, "user")})
    OBVIOUS
  <2> QED
    BY <2>1 DEF IsSequence, Event
<1>3. FeedInv'
  <2>1. \A i \in 2 .. Len(todo') : ~todo'[i].down
    BY <1>2
  <2> QED
    BY <1>1, <1>2, <2>1 DEF TyperInv, FeedInv
<1>4. \A k : ~Held(k) /\ ~Up(k)
  <2>1. Len(todo) = 0 /\ Len(pressed) = 0
    BY EmptySeq DEF TyperInv, FeedInv
  <2> QED
    BY <2>1 DEF Held, Up
<1>5. TypedInv'
  BY <1>1, <1>4 DEF TyperInv, TypedInv
<1> QED
  BY <1>3, <1>5 DEF TyperInv

\* A key of the user cancels the typing, is swallowed by it, or is fed.
LEMMA UserKey ==
  ASSUME TyperInv, todo = <<>>, NEW key, NEW down, KeyEvent(key, down)
  PROVE  TyperInv'
<1>1. UNCHANGED keyVars
  BY DEF KeyEvent
<1>2. CASE active /\ down
  BY <1>1, <1>2, TyperStopped DEF KeyEvent
<1>3. CASE UNCHANGED <<typerVars, todo>>
  BY <1>1, <1>3, TyperKept DEF typerVars, keyVars
<1>4. CASE ~active /\ todo' = <<Event(key, down, "user")>> /\ UNCHANGED typerVars
  BY <1>1, <1>4, UserFed
<1> QED
  BY <1>2, <1>3, <1>4 DEF KeyEvent

\* The typer starts with nothing pressed, and with what the user holds down.
LEMMA TypingStarted ==
  ASSUME TyperInv, StartTyping
  PROVE  TyperInv'
<1>1. todo = <<>> /\ ~active /\ UNCHANGED <<todo, keyVars>>
  BY DEF StartTyping, Clickable, GuiIdle
<1>2. CASE UNCHANGED <<active, pressed>>
  BY <1>1, <1>2, TyperKept DEF keyVars
<1>3. CASE pressed' = <<>> /\ atStart' = keyDown
  <2>1. todo' = todo /\ keyDown' = keyDown /\ typed' = typed /\ dropped' = dropped
    BY <1>1 DEF keyVars
  <2>2. pressed' = pressed
    BY <1>1, <1>3 DEF TyperInv, FeedInv
  <2>3. FeedInv'
    <3>1. Len(todo) = 0
      BY <1>1, EmptySeq
    <3> QED
      BY <1>1, <1>3, <2>1, <2>2, <3>1 DEF TyperInv, FeedInv
  <2>4. TypedInv'
    BY <1>3, <2>1, <2>2 DEF TyperInv, TypedInv, Held, Up
  <2> QED
    BY <2>3, <2>4 DEF TyperInv
<1> QED
  BY <1>2, <1>3 DEF StartTyping

\* A tick feeds an event and keeps track of it; the last one releases what is left.
LEMMA Typed ==
  ASSUME TyperInv, TypeTick
  PROVE  TyperInv'
<1>1. todo = <<>> /\ active /\ UNCHANGED keyVars
  BY DEF TypeTick, GuiIdle
<1>2. CASE ~connected
  BY <1>1, <1>2, TyperStopped DEF TypeTick
<1>3. CASE connected
  <2> DEFINE event == Head(queue)
             track == Track(event)
             last == Tail(queue) = <<>>
             rest == Ups(Reverse(track))
  <2>1. /\ todo' = <<event>> \o (IF last THEN rest ELSE <<>>)
        /\ pressed' = IF last THEN <<>> ELSE track
        /\ active' = ~last
        /\ keyDown' = keyDown /\ typed' = typed /\ dropped' = dropped
        /\ atStart' = atStart
    BY <1>1, <1>3 DEF TypeTick, keyVars
  <2> HIDE DEF event, last
  <2>2. /\ IsSequence(track) /\ Len(track) \in Nat
        /\ event.down => \E i \in 1 .. Len(track) : track[i] = event.key
        /\ \A key : Held(key) =>
             \/ \E i \in 1 .. Len(track) : track[i] = key
             \/ ~event.down /\ key = event.key
    <3>1. IsSequence(pressed)
      BY DEF TyperInv, FeedInv
    <3> QED
      BY <3>1, TrackKeeps
  <2> HIDE DEF track
  <2>3. /\ IsSequence(rest) /\ Len(rest) = Len(track)
        /\ \A i \in 1 .. Len(track) : ~rest[i].down
        /\ \A i \in 1 .. Len(track) : \E j \in 1 .. Len(track) : rest[j].key = track[i]
    BY <2>2, UpsAre
  <2> HIDE DEF rest
  <2>4. IsSequence(<<>>) /\ IsSequence(<<event>>)
        /\ Len(<<event>>) = 1 /\ <<event>>[1] = event /\ Len(<<>>) = 0
    <3>1. <<>> \in Seq({}) /\ <<event>> \in Seq({event})
      OBVIOUS
    <3> QED
      BY <3>1, EmptySeq DEF IsSequence
  <2>5. \A key : ~Up(key)
    <3>1. Len(todo) = 0
      BY <1>1, EmptySeq
    <3> QED
      BY <3>1 DEF Up
  <2>6. CASE last
    <3>1. todo' = <<event>> \o rest /\ pressed' = <<>> /\ ~active'
      BY <2>1, <2>6
    <3>2. /\ IsSequence(todo') /\ Len(todo') = 1 + Len(track)
          /\ todo'[1] = event
          /\ \A i \in 1 .. Len(track) : todo'[1 + i] = rest[i]
      <4>1. /\ IsSequence(<<event>> \o rest)
            /\ Len(<<event>> \o rest) = Len(<<event>>) + Len(rest)
            /\ \A i \in 1 .. Len(<<event>>) : (<<event>> \o rest)[i] = <<event>>[i]
            /\ \A i \in 1 .. Len(rest) : (<<event>> \o rest)[Len(<<event>>) + i] = rest[i]
        BY <2>3, <2>4, ConcatIs
      <4> QED
        BY <2>3, <2>4, <3>1, <4>1
    <3>3. \A i \in 2 .. Len(todo') : ~todo'[i].down
      <4> SUFFICES ASSUME NEW i \in 2 .. Len(todo')
                   PROVE  ~todo'[i].down
        OBVIOUS
      <4>1. i - 1 \in 1 .. Len(track) /\ 1 + (i - 1) = i
        BY <2>2, <3>2
      <4>2. todo'[i] = rest[i - 1]
        BY <3>2, <4>1
      <4> QED
        BY <2>3, <4>1, <4>2
    <3>4. \A i \in 1 .. Len(track) : \E j \in 2 .. Len(todo') : todo'[j].key = track[i]
      <4> SUFFICES ASSUME NEW i \in 1 .. Len(track)
                   PROVE  \E j \in 2 .. Len(todo') : todo'[j].key = track[i]
        OBVIOUS
      <4>1. PICK j \in 1 .. Len(track) : rest[j].key = track[i]
        BY <2>3
      <4>2. 1 + j \in 2 .. Len(todo') /\ todo'[1 + j] = rest[j]
        BY <2>2, <3>2, <4>1
      <4> QED
        BY <4>1, <4>2
    <3>5. event.down => \E i \in 2 .. Len(todo') : todo'[i].key = todo'[1].key
      <4> SUFFICES ASSUME event.down
                   PROVE  \E i \in 2 .. Len(todo') : todo'[i].key = todo'[1].key
        OBVIOUS
      <4>1. PICK i \in 1 .. Len(track) : track[i] = event.key
        BY <2>2
      <4>2. PICK j \in 2 .. Len(todo') : todo'[j].key = track[i]
        BY <3>4, <4>1
      <4> QED
        BY <3>2, <4>1, <4>2
    <3>6. FeedInv'
      <4>1. IsSequence(pressed')
        BY <2>4, <3>1
      <4> QED
        BY <3>1, <3>2, <3>3, <3>5, <4>1 DEF FeedInv
    <3>7. \A key : Held(key) \/ Up(key) => Up(key)'
      <4> SUFFICES ASSUME NEW key, Held(key)
                   PROVE  Up(key)'
        BY <2>5
      <4>1. CASE \E i \in 1 .. Len(track) : track[i] = key
        <5>1. PICK i \in 1 .. Len(track) : track[i] = key
          BY <4>1
        <5>2. PICK j \in 2 .. Len(todo') : todo'[j].key = key
          BY <3>4, <5>1
        <5>3. j \in 1 .. Len(todo') /\ ~todo'[j].down
          BY <3>3, <5>2
        <5> QED
          BY <5>2, <5>3 DEF Up
      <4>2. CASE ~event.down /\ key = event.key
        <5>1. 1 \in 1 .. Len(todo')
          BY <2>2, <3>2
        <5> QED
          BY <3>2, <4>2, <5>1 DEF Up
      <4> QED
        BY <2>2, <4>1, <4>2
    <3>8. TypedInv'
      BY <2>1, <3>1, <3>7 DEF TyperInv, TypedInv
    <3> QED
      BY <3>6, <3>8 DEF TyperInv
  <2>7. CASE ~last
    <3>1. todo' = <<event>> \o <<>> /\ pressed' = track /\ active'
      BY <2>1, <2>7
    <3>2. IsSequence(todo') /\ Len(todo') = 1 /\ todo'[1] = event
      <4>1. /\ IsSequence(<<event>> \o <<>>)
            /\ Len(<<event>> \o <<>>) = Len(<<event>>) + Len(<<>>)
            /\ \A i \in 1 .. Len(<<event>>) : (<<event>> \o <<>>)[i] = <<event>>[i]
        BY <2>4, ConcatIs
      <4> QED
        BY <2>4, <3>1, <4>1
    <3>3. FeedInv'
      <4>1. \A i \in 2 .. Len(todo') : ~todo'[i].down
        BY <3>2
      <4>2. todo'[1].down => \E i \in 1 .. Len(pressed') : pressed'[i] = todo'[1].key
        BY <2>2, <3>1, <3>2
      <4> QED
        BY <2>2, <3>1, <3>2, <4>1, <4>2 DEF FeedInv, Held
    <3>4. \A key : Held(key) \/ Up(key) => Held(key)' \/ Up(key)'
      <4> SUFFICES ASSUME NEW key, Held(key)
                   PROVE  Held(key)' \/ Up(key)'
        BY <2>5
      <4>1. CASE \E i \in 1 .. Len(track) : track[i] = key
        BY <3>1, <4>1 DEF Held
      <4>2. CASE ~event.down /\ key = event.key
        BY <3>2, <4>2 DEF Up
      <4> QED
        BY <2>2, <4>1, <4>2
    <3>5. TypedInv'
      BY <1>1, <2>1, <3>1, <3>4 DEF TyperInv, TypedInv
    <3> QED
      BY <3>3, <3>5 DEF TyperInv
  <2> QED
    BY <2>6, <2>7
<1> QED
  BY <1>2, <1>3

\* The first of the events that are to be fed reaches the controller, or does not.
LEMMA KeyFed ==
  ASSUME TyperInv, FeedKey
  PROVE  TyperInv'
<1> DEFINE event == todo[1]
           refused == event.by = "typer" /\ ~connected
<1>1. /\ todo # <<>> /\ todo' = Tail(todo)
      /\ active' = active /\ pressed' = pressed /\ atStart' = atStart
  BY DEF FeedKey, typerVars
<1>2. /\ IsSequence(Tail(todo)) /\ Len(todo) \in Nat /\ Len(Tail(todo)) = Len(todo) - 1
      /\ Head(todo) = todo[1]
      /\ \A i \in 1 .. Len(todo) - 1 : Tail(todo)[i] = todo[i + 1]
  <2>1. IsSequence(todo)
    BY DEF TyperInv, FeedInv
  <2> QED
    BY <1>1, <2>1, TailIs
<1>3. /\ IsSequence(todo') /\ Len(todo) \in Nat /\ Len(todo') = Len(todo) - 1
      /\ Head(todo) = event
      /\ \A i \in 1 .. Len(todo) - 1 : todo'[i] = todo[i + 1]
  BY <1>1, <1>2
<1>4. IF refused \/ (event.key \in keyDown) = event.down
      THEN dropped' = (dropped \/ refused) /\ keyDown' = keyDown /\ typed' = typed
      ELSE /\ keyDown' = IF event.down THEN keyDown \cup {event.key}
                                       ELSE keyDown \ {event.key}
           /\ typed' = IF event.down /\ event.by = "typer"
                       THEN typed \cup {event.key} ELSE typed \ {event.key}
           /\ dropped' = dropped
  BY <1>3 DEF FeedKey
<1> HIDE DEF event
<1>5. \A i \in 1 .. Len(todo') : ~todo'[i].down
  <2> SUFFICES ASSUME NEW i \in 1 .. Len(todo')
               PROVE  ~todo'[i].down
    OBVIOUS
  <2>1. i + 1 \in 2 .. Len(todo) /\ todo'[i] = todo[i + 1]
    BY <1>3
  <2> QED
    BY <2>1 DEF TyperInv, FeedInv
<1>6. FeedInv'
  <2>1. todo' # <<>> => 1 <= Len(todo')
    BY <1>3, SequenceIs
  <2>2. todo' # <<>> => ~todo'[1].down
    <3>1. Len(todo') \in Int
      BY <1>3
    <3>2. todo' # <<>> => 1 \in 1 .. Len(todo')
      BY <2>1, <3>1
    <3> QED
      BY <1>5, <3>2
  <2>3. \A i \in 2 .. Len(todo') : ~todo'[i].down
    <3>1. \A i \in 2 .. Len(todo') : i \in 1 .. Len(todo')
      BY <1>3
    <3> QED
      BY <1>5, <3>1
  <2>4. active => Len(todo') <= 1
    BY <1>3 DEF TyperInv, FeedInv
  <2> QED
    BY <1>1, <1>3, <2>2, <2>3, <2>4 DEF TyperInv, FeedInv
<1>7. \A key : Held(key)' <=> Held(key)
  BY <1>1 DEF Held
<1>8. \A key : Up(key) => Up(key)' \/ (key = event.key /\ ~event.down)
  <2> SUFFICES ASSUME NEW key, NEW i \in 1 .. Len(todo), todo[i].key = key, ~todo[i].down
               PROVE  Up(key)' \/ (key = event.key /\ ~event.down)
    BY DEF Up
  <2>1. CASE i = 1
    BY <2>1 DEF event
  <2>2. CASE i # 1
    <3>1. i - 1 \in 1 .. Len(todo') /\ i - 1 \in 1 .. Len(todo) - 1 /\ (i - 1) + 1 = i
      BY <1>3, <2>2
    <3>2. todo'[i - 1] = todo[i]
      BY <1>3, <3>1
    <3> QED
      BY <3>1, <3>2 DEF Up
  <2> QED
    BY <2>1, <2>2
<1>9. event.down =>
        \/ Held(event.key)
        \/ \E i \in 1 .. Len(todo') : todo'[i].key = event.key /\ ~todo'[i].down
        \/ ~active /\ event.by = "user"
  <2> SUFFICES ASSUME event.down, NEW i \in 2 .. Len(todo), todo[i].key = todo[1].key
               PROVE  \E j \in 1 .. Len(todo') :
                        todo'[j].key = event.key /\ ~todo'[j].down
    BY <1>1 DEF TyperInv, FeedInv, event
  <2>1. i - 1 \in 1 .. Len(todo') /\ i - 1 \in 1 .. Len(todo) - 1 /\ (i - 1) + 1 = i
    BY <1>3
  <2>2. todo'[i - 1] = todo[i] /\ ~todo'[i - 1].down
    BY <1>3, <1>5, <2>1
  <2> QED
    BY <2>1, <2>2 DEF event
<1>10. typed' \subseteq keyDown'
  BY <1>4 DEF TyperInv, TypedInv
<1>11. ASSUME ~dropped'
       PROVE  \A key \in typed' : Held(key)' \/ Up(key)'
  <2>0. ~dropped
    BY <1>4, <1>11
  <2> SUFFICES ASSUME NEW key \in typed'
               PROVE  Held(key) \/ Up(key)'
    BY <1>7
  <2>1. CASE refused \/ (event.key \in keyDown) = event.down
    <3>1. ~refused /\ typed' = typed
      BY <1>4, <1>11, <2>1
    <3>2. ~(key = event.key /\ ~event.down)
      BY <2>1, <3>1 DEF TyperInv, TypedInv
    <3> QED
      BY <1>8, <2>0, <3>1, <3>2 DEF TyperInv, TypedInv
  <2>2. CASE ~(refused \/ (event.key \in keyDown) = event.down)
    <3>1. typed' = IF event.down /\ event.by = "typer"
                   THEN typed \cup {event.key} ELSE typed \ {event.key}
      BY <1>4, <2>2
    <3>2. CASE key = event.key
      <4>1. event.down /\ event.by = "typer"
        BY <3>1, <3>2
      <4> QED
        BY <1>9, <3>2, <4>1 DEF Up
    <3>3. CASE key # event.key
      BY <1>8, <2>0, <3>1, <3>3 DEF TyperInv, TypedInv
    <3> QED
      BY <3>2, <3>3
  <2> QED
    BY <2>1, <2>2
<1>12. ASSUME active', ~dropped'
       PROVE  \A key \in keyDown' : key \in atStart' \/ Held(key)' \/ Up(key)'
  <2>0. active /\ ~dropped /\ atStart' = atStart
    BY <1>1, <1>4, <1>12
  <2> SUFFICES ASSUME NEW key \in keyDown'
               PROVE  key \in atStart \/ Held(key) \/ Up(key)'
    BY <1>7, <2>0
  <2>1. CASE refused \/ (event.key \in keyDown) = event.down
    <3>1. ~refused /\ keyDown' = keyDown
      BY <1>4, <1>12, <2>1
    <3>2. ~(key = event.key /\ ~event.down)
      BY <2>1, <3>1
    <3> QED
      BY <1>8, <2>0, <3>1, <3>2 DEF TyperInv, TypedInv
  <2>2. CASE ~(refused \/ (event.key \in keyDown) = event.down)
    <3>1. keyDown' = IF event.down THEN keyDown \cup {event.key}
                                   ELSE keyDown \ {event.key}
      BY <1>4, <2>2
    <3>2. CASE key = event.key
      <4>1. event.down
        BY <3>1, <3>2
      <4> QED
        BY <1>9, <2>0, <3>2, <4>1 DEF Up
    <3>3. CASE key # event.key
      BY <1>8, <2>0, <3>1, <3>3 DEF TyperInv, TypedInv
    <3> QED
      BY <3>2, <3>3
  <2> QED
    BY <2>1, <2>2
<1>13. TypedInv'
  BY <1>10, <1>11, <1>12 DEF TypedInv
<1> QED
  BY <1>6, <1>13 DEF TyperInv

\* The focus is lost: nothing is down.
LEMMA AllReleased ==
  ASSUME TyperInv, FocusLost
  PROVE  TyperInv'
<1>1. /\ keyDown' = {} /\ typed' = {} /\ todo' = todo
      /\ active' = active /\ pressed' = pressed
  BY DEF FocusLost, typerVars
<1>2. FeedInv'
  BY <1>1 DEF TyperInv, FeedInv, Held
<1>3. TypedInv'
  BY <1>1 DEF TypedInv
<1> QED
  BY <1>2, <1>3 DEF TyperInv

\* No step breaks the typer's part.
LEMMA TyperStep ==
  ASSUME TyperInv, [InputNext]_inputVars
  PROVE  TyperInv'
<1>1. ASSUME PressKey \/ ReleaseKey
      PROVE  TyperInv'
  <2>1. todo = <<>> /\ \E key : KeyEvent(key, TRUE) \/ KeyEvent(key, FALSE)
    BY <1>1 DEF PressKey, ReleaseKey, GuiIdle
  <2> QED
    BY <2>1, UserKey
<1>2. ASSUME StartTyping
      PROVE  TyperInv'
  BY <1>2, TypingStarted
<1>3. ASSUME CancelTyping
      PROVE  TyperInv'
  BY <1>3, TyperStopped DEF CancelTyping, GuiIdle
<1>4. ASSUME TypeTick
      PROVE  TyperInv'
  BY <1>4, Typed
<1>5. ASSUME FeedKey
      PROVE  TyperInv'
  BY <1>5, KeyFed
<1>6. ASSUME FocusLost
      PROVE  TyperInv'
  BY <1>6, AllReleased
<1>7. ASSUME \/ FrameTick \/ ArmPaste \/ DisarmPaste
             \/ PressRetry \/ CallSink
             \/ NetNext \/ UNCHANGED inputVars
      PROVE  TyperInv'
  <2>1. UNCHANGED <<pressed, todo, active, typed, keyDown, dropped, atStart>>
    BY <1>7 DEF FrameTick, ArmPaste, DisarmPaste, PressRetry,
                CallSink, NetNext, Connect, Install, Flush,
                ClearQueue, NextAttempt, Disconnect, CleanUp, inputVars,
                keyVars, typerVars
  <2> QED
    BY <2>1, TyperKept
<1> QED
  BY <1>1, <1>2, <1>3, <1>4, <1>5, <1>6, <1>7 DEF InputNext, GuiNext

-----------------------------------------------------------------------------
\* The reports on their way.

\* A step that has nothing to do with them.
LEMMA ReportKept ==
  ASSUME ReportInv,
         UNCHANGED <<keyDown, calling, sink, pending, flushing, net, session, guest, told,
                     overtaken>>
  PROVE  ReportInv'
BY DEF ReportInv, Calls

\* A report is enqueued: it is the last one, wherever it goes.
LEMMA ReportEnqueued ==
  ASSUME ReportInv, calling = <<>>, Enqueue(keyDown'),
         UNCHANGED <<sink, flushing, net, session, guest, told, overtaken>>
  PROVE  ReportInv'
<1>1. CASE sink = 0
  <2>1. /\ IsSequence(pending') /\ Len(pending') = Len(pending) + 1
        /\ pending'[Len(pending) + 1] = keyDown'
    <3>1. pending' = Append(pending, keyDown') /\ IsSequence(pending)
      BY <1>1 DEF Enqueue, ReportInv
    <3>2. /\ IsSequence(Append(pending, keyDown'))
          /\ Len(Append(pending, keyDown')) = Len(pending) + 1
          /\ Append(pending, keyDown')[Len(pending) + 1] = keyDown'
      BY <3>1, AppendIs
    <3> QED
      BY <3>1, <3>2
  <2>2. pending'[Len(pending')] = keyDown' /\ calling' = <<>>
    BY <1>1, <2>1 DEF Enqueue
  <2>3. net # "running" /\ flushing = <<>>
    BY <1>1 DEF ReportInv
  <2> QED
    BY <1>1, <2>1, <2>2, <2>3 DEF ReportInv
<1>2. CASE sink # 0
  <2>1. calling' = <<[to |-> sink, report |-> keyDown']>> /\ pending' = pending
    BY <1>2 DEF Enqueue
  <2>2. /\ calling' # <<>> /\ calling'[1].to = sink /\ calling'[1].report = keyDown'
    BY <2>1
  <2>3. net = "running" /\ sink = session /\ pending = <<>>
    BY <1>2 DEF ReportInv
  <2>4. Calls'
    BY <2>2, <2>3 DEF Calls
  <2> QED
    BY <1>2, <2>1, <2>2, <2>3, <2>4 DEF ReportInv
<1> QED
  BY <1>1, <1>2

\* No step loses the last report or lets an older one come after it unseen.
LEMMA ReportStep ==
  ASSUME ReportInv, [InputNext]_inputVars
  PROVE  ReportInv'
<1>1. CASE FeedKey
  <2>1. CASE Enqueue(keyDown')
    BY <1>1, <2>1, ReportEnqueued DEF FeedKey
  <2>2. CASE UNCHANGED <<keyDown, pending, calling>>
    BY <1>1, <2>2, ReportKept DEF FeedKey
  <2> QED
    BY <1>1, <2>1, <2>2 DEF FeedKey
<1>2. CASE FocusLost
  <2>1. calling = <<>> /\ Enqueue(keyDown')
        /\ UNCHANGED <<sink, flushing, net, session, guest, told, overtaken>>
    BY <1>2 DEF FocusLost, GuiIdle, Enqueue
  <2> QED
    BY <2>1, ReportEnqueued
<1>3. CASE CallSink
  <2>1. /\ calling # <<>> /\ calling' = <<>>
        /\ UNCHANGED <<keyDown, sink, pending, flushing, net, session>>
    BY <1>3 DEF CallSink, keyVars
  <2>2. CASE calling[1].to = session /\ net = "running"
    BY <1>3, <2>1, <2>2 DEF CallSink, ReportInv
  <2>3. CASE ~(calling[1].to = session /\ net = "running")
    BY <1>3, <2>1, <2>3 DEF CallSink, ReportInv, Calls
  <2> QED
    BY <2>2, <2>3
<1>4. CASE PressRetry \/ CleanUp
  <2>1. /\ net # "running" /\ net' \in {"connecting", "ended"} /\ sink' = 0
        /\ pending' = <<>>
        /\ UNCHANGED <<keyDown, calling, flushing, session, guest, told, overtaken>>
    BY <1>4 DEF PressRetry, CleanUp, keyVars
  <2>2. IsSequence(<<>>)
    BY EmptySeq DEF IsSequence
  <2> QED
    BY <2>1, <2>2 DEF ReportInv
<1>5. CASE Connect
  <2>1. /\ net = "connecting" /\ net' = "connected" /\ session' = session + 1
        /\ told' = FALSE /\ UNCHANGED <<keyDown, calling, sink, pending, flushing>>
    BY <1>5 DEF Connect, keyVars
  <2>2. session' \in Nat /\ 1 <= session'
    BY <2>1 DEF ReportInv
  <2> QED
    BY <2>1, <2>2 DEF ReportInv
<1>6. CASE Install
  <2>1. /\ net = "connected" /\ net' = "running" /\ sink' = session
        /\ flushing' = pending /\ pending' = <<>>
        /\ UNCHANGED <<keyDown, calling, session, guest, told, overtaken>>
    BY <1>6 DEF Install, keyVars
  <2>2. IsSequence(<<>>)
    BY EmptySeq DEF IsSequence
  <2> QED
    BY <2>1, <2>2 DEF ReportInv
<1>7. CASE Flush
  <2>1. /\ flushing # <<>> /\ flushing' = Tail(flushing) /\ guest' = Head(flushing)
        /\ UNCHANGED <<keyDown, calling, sink, pending, net, session, overtaken>>
    BY <1>7 DEF Flush, keyVars
  <2>2. /\ IsSequence(Tail(flushing)) /\ Len(flushing) \in Nat
        /\ Len(Tail(flushing)) = Len(flushing) - 1 /\ Head(flushing) = flushing[1]
        /\ \A i \in 1 .. Len(flushing) - 1 : Tail(flushing)[i] = flushing[i + 1]
    BY <2>1, TailIs DEF ReportInv
  <2>3. Tail(flushing) = <<>> => Len(flushing) = 1
    <3> SUFFICES ASSUME Tail(flushing) = <<>>
                 PROVE  Len(flushing) = 1
      OBVIOUS
    <3>1. Len(Tail(flushing)) = 0
      BY EmptySeq
    <3> QED
      BY <2>2, <3>1
  <2>4. Tail(flushing) # <<>> =>
          Tail(flushing)[Len(Tail(flushing))] = flushing[Len(flushing)]
    <3> SUFFICES ASSUME Tail(flushing) # <<>>
                 PROVE  Tail(flushing)[Len(Tail(flushing))] = flushing[Len(flushing)]
      OBVIOUS
    <3>1. 1 <= Len(Tail(flushing))
      BY <2>2, SequenceIs
    <3>2. Len(flushing) - 1 \in 1 .. Len(flushing) - 1
          /\ (Len(flushing) - 1) + 1 = Len(flushing)
      BY <2>2, <3>1
    <3> QED
      BY <2>2, <3>2
  <2>5. net = "running" /\ (Calls' <=> Calls)
    BY <2>1 DEF ReportInv, Calls
  <2>6. ~overtaken /\ ~Calls => flushing[Len(flushing)] = keyDown
    BY <2>1 DEF ReportInv
  <2>7. ~overtaken' /\ flushing' # <<>> /\ ~Calls' => flushing'[Len(flushing')] = keyDown'
    BY <2>1, <2>4, <2>5, <2>6
  <2>8. ~overtaken' /\ flushing' = <<>> /\ ~Calls' => guest' = keyDown'
    BY <2>1, <2>2, <2>3, <2>5, <2>6
  <2> QED
    BY <2>1, <2>2, <2>5, <2>7, <2>8 DEF ReportInv
<1>8. CASE ClearQueue
  <2>1. /\ flushing = <<>> /\ net' = "closed" /\ sink' = 0 /\ pending' = <<>>
        /\ UNCHANGED <<keyDown, calling, flushing, session, guest, told, overtaken>>
    BY <1>8 DEF ClearQueue, keyVars
  <2>2. IsSequence(<<>>)
    BY EmptySeq DEF IsSequence
  <2> QED
    BY <2>1, <2>2 DEF ReportInv
<1>9. CASE NextAttempt \/ Disconnect
  <2>1. /\ net = "closed" /\ net' \in {"connecting", "cleanup"}
        /\ UNCHANGED <<keyDown, calling, sink, pending, flushing, session, guest, told,
                       overtaken>>
    BY <1>9 DEF NextAttempt, Disconnect, keyVars
  <2> QED
    BY <2>1 DEF ReportInv, Calls
<1>10. CASE \/ PressKey \/ ReleaseKey \/ FrameTick \/ ArmPaste
            \/ DisarmPaste
            \/ StartTyping \/ CancelTyping \/ TypeTick \/ UNCHANGED inputVars
  <2>1. UNCHANGED <<keyVars, calling, netVars>>
    BY <1>10 DEF PressKey, ReleaseKey, KeyEvent, FrameTick,
                 ArmPaste, DisarmPaste,
                 StartTyping, CancelTyping, TypeTick, inputVars
  <2> QED
    BY <2>1, ReportKept DEF keyVars, netVars
<1> QED
  BY <1>1, <1>2, <1>3, <1>4, <1>5, <1>6, <1>7, <1>8, <1>9, <1>10
     DEF InputNext, GuiNext, NetNext

-----------------------------------------------------------------------------
\* The three together are inductive.
LEMMA InputInductive == InputSpec => []InputInv
<1>1. InputInit => InputInv
  <2> SUFFICES ASSUME InputInit
               PROVE  InputInv
    OBVIOUS
  <2>1. IsSequence(<<>>) /\ Len(<<>>) = 0
    BY EmptySeq DEF IsSequence
  <2>2. FeedInv /\ TypedInv
    BY <2>1 DEF InputInit, FeedInv, TypedInv
  <2>3. ReportInv
    BY <2>1 DEF InputInit, ReportInv
  <2> QED
    BY <2>2, <2>3 DEF InputInv
<1>2. InputInv /\ [InputNext]_inputVars => InputInv'
  BY TyperStep, ReportStep DEF InputInv, TyperInv
<1> QED
  BY <1>1, <1>2, PTL DEF InputSpec

\* When both threads are at rest, the last report that this session was sent says what the
\* controller says (InputQueue's enqueue() and install()).
THEOREM GuestCorrect == InputSpec => []GuestAgrees
<1>1. InputInv => GuestAgrees
  BY DEF InputInv, ReportInv, GuestAgrees, GuiIdle, Calls
<1> QED
  BY <1>1, InputInductive, PTL

\* While the typer works, nothing is down that the user or the typer does not know of.
THEOREM StreamCorrect == InputSpec => []TypedStreamIsClean
<1>1. InputInv => TypedStreamIsClean
  <2> SUFFICES ASSUME InputInv, active, todo = <<>>, ~dropped, NEW key \in keyDown
               PROVE  key \in atStart \cup ToSet(pressed)
    BY DEF TypedStreamIsClean
  <2>1. Len(todo) = 0 /\ DOMAIN pressed = 1 .. Len(pressed)
    BY EmptySeq, SequenceIs DEF InputInv, FeedInv
  <2>2. key \in atStart \/ Held(key)
    BY <2>1 DEF InputInv, TypedInv, Up
  <2> QED
    BY <2>1, <2>2 DEF Held, ToSet
<1> QED
  BY <1>1, InputInductive, PTL

\* The typer that has stopped leaves no key down.
THEOREM ReleaseCorrect == InputSpec => []TyperReleasesItsKeys
<1>1. InputInv => TyperReleasesItsKeys
  <2> SUFFICES ASSUME InputInv, ~active, todo = <<>>, ~dropped
               PROVE  typed = {}
    BY DEF TyperReleasesItsKeys, GuiIdle
  <2>1. Len(todo) = 0 /\ Len(pressed) = 0
    BY EmptySeq DEF InputInv, FeedInv
  <2>2. \A key : ~Held(key) /\ ~Up(key)
    BY <2>1 DEF Held, Up
  <2> QED
    BY <2>2 DEF InputInv, TypedInv
<1> QED
  BY <1>1, InputInductive, PTL

=============================================================================
