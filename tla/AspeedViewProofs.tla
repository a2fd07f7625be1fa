-------------------------- MODULE AspeedViewProofs ---------------------------
(***************************************************************************)
(* Proofs about AspeedView, for any picture, any size of the frame queue   *)
(* and any number of changes, reconnects and lost devices.                 *)
(*                                                                         *)
(* Decoding a queue is a recursion over its frames, so the facts about it  *)
(* are proved by induction.  The library states induction for an operator  *)
(* P(_), which cannot be instantiated here; its least element of a set     *)
(* that < is well-founded on can, and gives induction over sets.           *)
(***************************************************************************)
EXTENDS AspeedView, SequenceTheorems, WellFoundedInduction, TLAPS

\* What the proofs need of the types: pictures are functions on Regions.
IsPicture(p) == p = [r \in Regions |-> p[r]]

Frames ==
  [kind : {"full", "delta", "bad"}, was : [Regions -> Nat], now : [Regions -> Nat]]

ShapeInv ==
  /\ host \in [Regions -> Nat]
  /\ version \in Nat
  /\ IsPicture(picture)
  /\ IsPicture(texture)
  /\ queue \in Seq(Frames)

PartsInv ==
  /\ dirty \subseteq Regions
  /\ pending \subseteq Regions
  /\ dropped \subseteq Regions
  /\ textureOf \in {"none", "other", "frame"}

\* frameTick and the console of the ended session.
TickInv ==
  /\ ~tick => dirty = {}
  /\ ended => ~tick /\ consoleActive

\* A texture of the size of a frame agrees with the decoder wherever no upload is pending
\* or was dropped, but for the time between a reconnect, which starts with a new decoder,
\* and its first frame, which is uploaded whole.
UploadInv ==
  textureOf = "frame" =>
    \/ \A r \in Regions \ (dropped \cup pending \cup dirty) : texture[r] = picture[r]
    \/ picture = Blank /\ consoleActive /\ dirty = {}

\* Without a console there is a texture of that size, or there will be.
FreshInv ==
  ~consoleActive => textureOf = "frame" \/ pending # {} \/ dropped = Regions

-----------------------------------------------------------------------------
\* Induction over sets.

Below == {pair \in Nat \X Nat : pair[1] < pair[2]}

\* There is no endless descent in the natural numbers.
LEMMA BelowWellFounded == IsWellFoundedOn(Below, Nat)
BY NatLessThanWellFounded, Zenon DEF OpToRel, Below

\* A set of natural numbers has a least one.
LEMMA Least ==
  ASSUME NEW T, T \subseteq Nat, T # {}
  PROVE  \E m \in T : \A k \in T : m <= k
<1>1. PICK m \in T : \A k \in T : ~ (<<k, m>> \in Below)
  BY WFMin, BelowWellFounded
<1>2. \A k \in T : ~ (k < m)
  BY <1>1 DEF Below
<1> QED
  BY <1>2

\* A set that has zero, and of each number the next, has all of them.
LEMMA Induction ==
  ASSUME NEW T, 0 \in T, \A n \in Nat : n \in T => n + 1 \in T
  PROVE  \A n \in Nat : n \in T
<1> SUFFICES ASSUME Nat \ T # {}
             PROVE  FALSE
  OBVIOUS
<1>1. PICK m \in Nat \ T : \A k \in Nat \ T : m <= k
  BY Least
<1>2. m - 1 \in Nat /\ m - 1 \in T
  BY <1>1
<1> QED
  BY <1>1, <1>2

-----------------------------------------------------------------------------
\* DecodeAll, frame by frame.

\* f has the pictures before the first and after each of n frames.
Steps(p, frames, n, f) ==
  f = [i \in 0 .. n |-> IF i = 0 THEN p ELSE Decode(f[i - 1], frames[i])]

\* There are such pictures.
LEMMA StepsExist ==
  ASSUME NEW p, NEW frames
  PROVE  \A n \in Nat : \E f : Steps(p, frames, n, f)
<1> DEFINE T == {n \in Nat : \E f : Steps(p, frames, n, f)}
<1>1. 0 \in T
  <2> DEFINE f == [i \in 0 .. 0 |-> p]
  <2>1. f = [i \in 0 .. 0 |-> IF i = 0 THEN p ELSE Decode(f[i - 1], frames[i])]
    OBVIOUS
  <2> QED
    BY <2>1 DEF Steps
<1>2. ASSUME NEW n \in Nat, n \in T
      PROVE  n + 1 \in T
  <2>1. PICK f : Steps(p, frames, n, f)
    BY <1>2
  <2> DEFINE last == Decode(f[n], frames[n + 1])
             g == [i \in 0 .. n + 1 |-> IF i = n + 1 THEN last ELSE f[i]]
  <2>2. g[n + 1] = last /\ \A i \in 0 .. n : g[i] = f[i]
    OBVIOUS
  <2>3. /\ DOMAIN g = 0 .. n + 1
        /\ \A i \in 0 .. n : f[i] = IF i = 0 THEN p ELSE Decode(f[i - 1], frames[i])
    BY <2>1 DEF Steps
  <2>4. ASSUME NEW i \in 0 .. n + 1
        PROVE  g[i] = IF i = 0 THEN p ELSE Decode(g[i - 1], frames[i])
    <3>1. CASE i = n + 1
      <4>1. i - 1 = n /\ n \in 0 .. n /\ i # 0
        BY <3>1
      <4>2. g[i] = Decode(f[n], frames[i]) /\ g[i - 1] = f[n]
        BY <2>2, <3>1, <4>1
      <4> QED
        BY <4>1, <4>2
    <3>2. CASE i # n + 1
      <4>1. i \in 0 .. n /\ (i # 0 => i - 1 \in 0 .. n)
        BY <3>2
      <4>2. g[i] = f[i] /\ (i # 0 => g[i - 1] = f[i - 1])
        BY <2>2, <4>1
      <4> QED
        BY <2>3, <4>1, <4>2
    <3> QED
      BY <3>1, <3>2
  <2>5. g = [i \in 0 .. n + 1 |-> g[i]]
    OBVIOUS
  <2> HIDE DEF g
  <2>6. g = [i \in 0 .. n + 1 |-> IF i = 0 THEN p ELSE Decode(g[i - 1], frames[i])]
    BY <2>4, <2>5
  <2>7. Steps(p, frames, n + 1, g)
    BY <2>6 DEF Steps
  <2> QED
    BY <2>7
<1> HIDE DEF T
<1>3. \A n \in Nat : n \in T
  BY <1>1, <1>2, Induction
<1> QED
  BY <1>3 DEF T

\* They are the same for the frames that two queues have in common.
LEMMA StepsAgree ==
  ASSUME NEW p, NEW frames, NEW others, NEW m \in Nat, NEW n \in Nat, NEW f, NEW g,
         Steps(p, frames, m, f), Steps(p, others, n, g),
         m <= n, \A i \in 1 .. m : frames[i] = others[i]
  PROVE  f[m] = g[m]
<1> DEFINE T == {k \in Nat : k <= m => f[k] = g[k]}
<1>1. /\ \A i \in 0 .. m : f[i] = IF i = 0 THEN p ELSE Decode(f[i - 1], frames[i])
      /\ \A i \in 0 .. n : g[i] = IF i = 0 THEN p ELSE Decode(g[i - 1], others[i])
  BY DEF Steps
<1>2. 0 \in T
  BY <1>1
<1>3. ASSUME NEW k \in Nat, k \in T
      PROVE  k + 1 \in T
  <2> SUFFICES ASSUME k + 1 <= m
               PROVE  f[k + 1] = g[k + 1]
    OBVIOUS
  <2>1. k + 1 \in 0 .. m /\ k + 1 \in 0 .. n /\ k + 1 \in 1 .. m /\ k + 1 # 0 /\ (k + 1) - 1 = k
    OBVIOUS
  <2>2. f[k + 1] = Decode(f[k], frames[k + 1]) /\ g[k + 1] = Decode(g[k], others[k + 1])
    BY <1>1, <2>1
  <2>3. f[k] = g[k] /\ frames[k + 1] = others[k + 1]
    BY <1>3, <2>1
  <2> QED
    BY <2>2, <2>3
<1> HIDE DEF T
<1>4. \A k \in Nat : k \in T
  BY <1>2, <1>3, Induction
<1> QED
  BY <1>4 DEF T

\* DecodeAll is the last of them.
LEMMA DecodeAllIs ==
  ASSUME NEW p, NEW frames, Len(frames) \in Nat, NEW f, Steps(p, frames, Len(frames), f)
  PROVE  DecodeAll(p, frames) = f[Len(frames)]
<1> DEFINE after == CHOOSE g : g = [i \in 0 .. Len(frames) |->
                                      IF i = 0 THEN p ELSE Decode(g[i - 1], frames[i])]
<1>1. DecodeAll(p, frames) = after[Len(frames)]
  BY DEF DecodeAll
<1>2. after = [i \in 0 .. Len(frames) |->
                 IF i = 0 THEN p ELSE Decode(after[i - 1], frames[i])]
  BY StepsExist DEF Steps
<1> HIDE DEF after
<1>3. Steps(p, frames, Len(frames), after)
  BY <1>2 DEF Steps
<1>4. f[Len(frames)] = after[Len(frames)]
  BY <1>3, StepsAgree
<1> QED
  BY <1>1, <1>4

\* Without a frame nothing is decoded.
LEMMA DecodeNone ==
  ASSUME NEW p
  PROVE  DecodeAll(p, <<>>) = p
<1>1. Len(<<>>) = 0
  BY EmptySeq
<1>2. PICK f : Steps(p, <<>>, Len(<<>>), f)
  BY <1>1, StepsExist
<1>3. f[0] = p
  BY <1>1, <1>2 DEF Steps
<1> QED
  BY <1>1, <1>2, <1>3, DecodeAllIs

\* A frame behind the others is decoded on what they have left.
LEMMA DecodeOneMore ==
  ASSUME NEW p, NEW S, NEW frames \in Seq(S), NEW frame \in S
  PROVE  DecodeAll(p, Append(frames, frame)) = Decode(DecodeAll(p, frames), frame)
<1> DEFINE n == Len(frames)
           more == Append(frames, frame)
<1>1. /\ n \in Nat /\ Len(more) = n + 1 /\ Len(more) \in Nat
      /\ more[n + 1] = frame /\ \A i \in 1 .. n : more[i] = frames[i]
  BY AppendProperties, LenProperties
<1> HIDE DEF n, more
<1>2. PICK f : Steps(p, frames, n, f)
  BY <1>1, StepsExist
<1>3. PICK g : Steps(p, more, n + 1, g)
  BY <1>1, StepsExist
<1>4. f[n] = g[n]
  <2>1. n <= n + 1 /\ n + 1 \in Nat /\ \A i \in 1 .. n : frames[i] = more[i]
    BY <1>1
  <2> QED
    BY <1>1, <1>2, <1>3, <2>1, StepsAgree
<1>5. g[n + 1] = Decode(g[n], more[n + 1])
  <2>1. n + 1 \in 0 .. n + 1 /\ n + 1 # 0 /\ (n + 1) - 1 = n
    BY <1>1
  <2> QED
    BY <1>3, <2>1 DEF Steps
<1>6. DecodeAll(p, frames) = f[n]
  BY <1>1, <1>2, DecodeAllIs DEF n
<1>7. DecodeAll(p, more) = g[n + 1]
  BY <1>1, <1>3, DecodeAllIs
<1>8. DecodeAll(p, more) = Decode(DecodeAll(p, frames), frame)
  BY <1>1, <1>4, <1>5, <1>6, <1>7
<1> QED
  BY <1>8 DEF more

\* A frame changes its regions, and what it makes is a picture.
LEMMA DecodeIs ==
  ASSUME NEW q, NEW frame
  PROVE  /\ IsPicture(Decode(q, frame))
         /\ \A r \in Regions :
              /\ r \notin Changed(frame) => Decode(q, frame)[r] = q[r]
              /\ r \in Changed(frame) /\ (frame.kind = "full" \/ q[r] = frame.was[r])
                   => Decode(q, frame)[r] = frame.now[r]
<1>1. Decode(q, frame) = [r \in Regions |-> Decode(q, frame)[r]]
  BY DEF Decode
<1>2. \A r \in Regions : r \notin Changed(frame) => Decode(q, frame)[r] = q[r]
  BY DEF Decode
<1>3. ASSUME NEW r \in Regions, r \in Changed(frame),
             frame.kind = "full" \/ q[r] = frame.was[r]
      PROVE  Decode(q, frame)[r] = frame.now[r]
  BY <1>3 DEF Decode
<1> QED
  BY <1>1, <1>2, <1>3 DEF IsPicture

\* What no frame changes stays as it is, and a picture stays a picture.
LEMMA DecodeKeeps ==
  ASSUME NEW p, IsPicture(p), NEW frames, Len(frames) \in Nat, DOMAIN frames = 1 .. Len(frames)
  PROVE  /\ IsPicture(DecodeAll(p, frames))
         /\ \A r \in Regions : (\A i \in DOMAIN frames : r \notin Changed(frames[i]))
              => DecodeAll(p, frames)[r] = p[r]
<1> DEFINE n == Len(frames)
           Same(q, k) == \A r \in Regions : (\A i \in 1 .. k : r \notin Changed(frames[i]))
                                              => q[r] = p[r]
<1>1. PICK f : Steps(p, frames, n, f)
  BY StepsExist
<1>2. \A i \in 0 .. n : f[i] = IF i = 0 THEN p ELSE Decode(f[i - 1], frames[i])
  BY <1>1 DEF Steps
<1> DEFINE T == {k \in Nat : k <= n => IsPicture(f[k]) /\ Same(f[k], k)}
<1>3. 0 \in T
  BY <1>2
<1>4. ASSUME NEW k \in Nat, k \in T
      PROVE  k + 1 \in T
  <2> SUFFICES ASSUME k + 1 <= n
               PROVE  IsPicture(f[k + 1]) /\ Same(f[k + 1], k + 1)
    OBVIOUS
  <2>1. f[k + 1] = Decode(f[k], frames[k + 1])
    BY <1>2
  <2>2. IsPicture(f[k]) /\ Same(f[k], k)
    BY <1>4
  <2>3. \A q, frame : /\ IsPicture(Decode(q, frame))
                      /\ \A r \in Regions : r \notin Changed(frame) => Decode(q, frame)[r] = q[r]
    BY DecodeIs
  <2>4. Same(f[k + 1], k + 1)
    <3> SUFFICES ASSUME NEW r \in Regions, \A i \in 1 .. k + 1 : r \notin Changed(frames[i])
                 PROVE  f[k + 1][r] = p[r]
      OBVIOUS
    <3>1. r \notin Changed(frames[k + 1]) /\ \A i \in 1 .. k : r \notin Changed(frames[i])
      OBVIOUS
    <3>2. f[k][r] = p[r]
      BY <2>2, <3>1
    <3> QED
      BY <2>1, <2>3, <3>1, <3>2
  <2> QED
    BY <2>1, <2>3, <2>4
<1> HIDE DEF T
<1>5. n \in T
  BY <1>3, <1>4, Induction
<1>6. IsPicture(f[n]) /\ Same(f[n], n)
  BY <1>5 DEF T
<1>7. DecodeAll(p, frames) = f[n]
  BY <1>1, DecodeAllIs
<1> QED
  BY <1>6, <1>7

-----------------------------------------------------------------------------
\* The queue.

\* A queue of frames has its indices, and gives the parts that publish() builds on.
LEMMA QueueShape ==
  ASSUME NEW q \in Seq(Frames)
  PROVE  /\ Len(q) \in Nat
         /\ DOMAIN q = 1 .. Len(q)
         /\ ToSet(q) = {q[i] : i \in DOMAIN q}
BY LenProperties DEF ToSet

\* publish() keeps a queue of frames one.  It has lost nothing unless it says so.
LEMMA Published ==
  ASSUME queue \in Seq(Frames), NEW frame \in Frames, Publish(frame)
  PROVE  /\ queue' \in Seq(Frames)
         /\ overflowed => overflowed'
         /\ overflowed' \/ queue' = Append(queue, frame)
<1>1. Append(queue, frame) \in Seq(Frames)
  BY AppendProperties
<1>2. ASSUME Len(queue) = MaxQueued
      PROVE  Append(Tail(queue), frame) \in Seq(Frames)
  <2>1. queue # <<>>
    BY <1>2, EmptySeq, MaxQueuedAssumption
  <2>2. Tail(queue) \in Seq(Frames)
    BY <2>1, HeadTailProperties
  <2> QED
    BY <2>2, AppendProperties
<1>3. /\ queue' = IF Len(queue) = MaxQueued THEN Append(Tail(queue), frame)
                                           ELSE Append(queue, frame)
      /\ overflowed' = (overflowed \/ Len(queue) = MaxQueued)
  BY DEF Publish
<1> QED
  BY <1>1, <1>2, <1>3

\* What a frame is.
LEMMA FrameIs ==
  ASSUME NEW kind \in {"full", "delta", "bad"}, NEW was \in [Regions -> Nat],
         NEW now \in [Regions -> Nat]
  PROVE  /\ Frame(kind, was, now) \in Frames
         /\ Frame(kind, was, now).kind = kind
         /\ Frame(kind, was, now).was = was
         /\ Frame(kind, was, now).now = now
BY DEF Frame, Frames

-----------------------------------------------------------------------------
\* The screen.

\* Pictures stay pictures, and the queue a queue of frames.
LEMMA ShapeStep ==
  ASSUME ShapeInv, [AspeedNext]_aspeedVars
  PROVE  ShapeInv'
<1> USE DEF streamVars, hostedVars, queueVars, surfaceVars
<1>a. UNCHANGED <<host, version, picture, texture, queue>> => ShapeInv'
  BY DEF ShapeInv, IsPicture
<1>1. CASE StreamNext
  <2>1. CASE SendDelta
    <3>1. PICK changed \in SUBSET Regions :
            host' = [r \in Regions |-> IF r \in changed THEN version + 1 ELSE host[r]]
      BY <2>1 DEF SendDelta
    <3>2. host' \in [Regions -> Nat] /\ version' \in Nat
      BY <2>1, <3>1 DEF SendDelta, ShapeInv
    <3>3. Frame("delta", host, host') \in Frames
      BY <3>2, FrameIs DEF ShapeInv
    <3>4. queue' \in Seq(Frames)
      BY <2>1, <3>3, Published DEF SendDelta, ReceiveFrame, ShapeInv
    <3> QED
      BY <2>1, <3>2, <3>4 DEF SendDelta, ShapeInv
  <2>2. CASE SendFull
    <3>1. Frame("full", host, host) \in Frames
      BY FrameIs DEF ShapeInv
    <3>2. queue' \in Seq(Frames)
      BY <2>2, <3>1, Published DEF SendFull, ReceiveFrame, ShapeInv
    <3> QED
      BY <2>2, <3>2 DEF SendFull, ShapeInv
  <2>3. CASE SendUndecodable
    <3>1. host' \in [Regions -> Nat] /\ version' \in Nat
      BY <2>3 DEF SendUndecodable, ShapeInv
    <3>2. Frame("bad", host, host') \in Frames
      BY <3>1, FrameIs DEF ShapeInv
    <3>3. queue' \in Seq(Frames)
      BY <2>3, <3>2, Published DEF SendUndecodable, ReceiveFrame, ShapeInv
    <3> QED
      BY <2>3, <3>1, <3>3 DEF SendUndecodable, ShapeInv
  <2>4. CASE SendBlank
    BY <2>4, <1>a DEF SendBlank
  <2>5. CASE VideoEnds
    BY <2>5, <1>a DEF VideoEnds, ShowConsole
  <2> QED
    BY <1>1, <2>1, <2>2, <2>3, <2>4, <2>5 DEF StreamNext
<1>2. CASE Tick
  <2>1. CASE TickConsole
    BY <2>1, <1>a DEF TickConsole, ShowConsole
  <2>2. CASE TickDrain
    <3>1. IsPicture(picture')
      BY <2>2, DecodeKeeps, QueueShape DEF TickDrain, ShapeInv
    <3> QED
      BY <2>2, <3>1 DEF TickDrain, Drain, ShapeInv
  <2>3. CASE TickShow
    BY <2>3, <1>a DEF TickShow, TakeOverflowed, ShowFrame
  <2> QED
    BY <1>2, <2>1, <2>2, <2>3 DEF Tick
<1>3. CASE UserNext
  <2>1. CASE Minimize
    <3>1. queue' \in Seq(Frames)
      BY <2>1 DEF Minimize, ClearFrames, ShapeInv
    <3> QED
      BY <2>1, <3>1 DEF Minimize, ShapeInv, IsPicture
  <2>2. CASE Restore
    <3>1. queue' = queue \/ queue' = <<>>
      BY <2>2 DEF Restore, ClearFrames
    <3>2. queue' \in Seq(Frames)
      BY <3>1, EmptySeq DEF ShapeInv
    <3> QED
      BY <2>2, <3>2 DEF Restore, ShapeInv, IsPicture
  <2>3. CASE Reconnect
    <3>1. IsPicture(picture')
      BY <2>3 DEF Reconnect, Blank, IsPicture
    <3> QED
      BY <2>3, <3>1 DEF Reconnect, ClearFrames, ShapeInv, IsPicture
  <2> QED
    BY <1>3, <2>1, <2>2, <2>3 DEF UserNext
<1>4. CASE Render \/ LoseDevice
  <2>1. CASE Render
    <3>1. IsPicture(texture')
      BY <2>1 DEF Render, RenderConsole, RenderFrame, IsPicture
    <3> QED
      BY <2>1, <3>1 DEF Render, ShapeInv, IsPicture
  <2>2. CASE LoseDevice
    <3>1. IsPicture(texture')
      BY <2>2 DEF LoseDevice, ReleaseResources, IsPicture
    <3> QED
      BY <2>2, <3>1 DEF LoseDevice, ShapeInv, IsPicture
  <2> QED
    BY <1>4, <2>1, <2>2
<1>5. CASE UNCHANGED aspeedVars
  BY <1>5, <1>a DEF aspeedVars
<1> QED
  BY <1>1, <1>2, <1>3, <1>4, <1>5 DEF AspeedNext

\* Parts of the screen stay parts of it.
LEMMA PartsStep ==
  ASSUME ShapeInv, PartsInv, [AspeedNext]_aspeedVars
  PROVE  PartsInv'
<1> USE DEF PartsInv, streamVars, hostedVars, queueVars, surfaceVars
<1>1. CASE StreamNext
  <2>1. CASE SendDelta
    BY <2>1 DEF SendDelta, ReceiveFrame, Publish
  <2>2. CASE SendFull
    BY <2>2 DEF SendFull, ReceiveFrame, Publish
  <2>3. CASE SendUndecodable
    BY <2>3 DEF SendUndecodable, ReceiveFrame, Publish
  <2>4. CASE SendBlank
    BY <2>4 DEF SendBlank
  <2>5. CASE VideoEnds
    BY <2>5 DEF VideoEnds, ShowConsole
  <2> QED
    BY <1>1, <2>1, <2>2, <2>3, <2>4, <2>5 DEF StreamNext
<1>2. CASE Tick
  <2>1. CASE TickConsole
    BY <2>1 DEF TickConsole, ShowConsole
  <2>2. CASE TickDrain
    <3>1. \A frame \in Frames : Changed(frame) \subseteq Regions
      BY DEF Changed, Frames
    <3>2. \A frame \in ToSet(queue) : Changed(frame) \subseteq Regions
      BY <3>1 DEF ToSet, ShapeInv
    <3>3. dirty' \subseteq Regions
      BY <2>2, <3>2 DEF TickDrain
    <3> QED
      BY <2>2, <3>3 DEF TickDrain
  <2>3. CASE TickShow
    BY <2>3 DEF TickShow, TakeOverflowed, ShowFrame
  <2> QED
    BY <1>2, <2>1, <2>2, <2>3 DEF Tick
<1>3. CASE UserNext
  <2>1. CASE Minimize
    BY <2>1 DEF Minimize, ClearFrames
  <2>2. CASE Restore
    BY <2>2 DEF Restore, ClearFrames
  <2>3. CASE Reconnect
    BY <2>3 DEF Reconnect, ClearFrames
  <2> QED
    BY <1>3, <2>1, <2>2, <2>3 DEF UserNext
<1>4. CASE Render \/ LoseDevice
  <2>1. CASE Render
    BY <2>1 DEF Render, RenderConsole, RenderFrame
  <2>2. CASE LoseDevice
    BY <2>2 DEF LoseDevice, ReleaseResources
  <2> QED
    BY <1>4, <2>1, <2>2
<1>5. CASE UNCHANGED aspeedVars
  BY <1>5 DEF aspeedVars
<1> QED
  BY <1>1, <1>2, <1>3, <1>4, <1>5 DEF AspeedNext

\* Between two ticks nothing is left to show, and the ended console stays up.
LEMMA TickStep ==
  ASSUME TickInv, [AspeedNext]_aspeedVars
  PROVE  TickInv'
<1> USE DEF TickInv, streamVars, hostedVars, queueVars, surfaceVars
<1>1. CASE StreamNext
  <2>1. CASE SendDelta
    BY <2>1 DEF SendDelta, ReceiveFrame, Publish
  <2>2. CASE SendFull
    BY <2>2 DEF SendFull, ReceiveFrame, Publish
  <2>3. CASE SendUndecodable
    BY <2>3 DEF SendUndecodable, ReceiveFrame, Publish
  <2>4. CASE SendBlank
    BY <2>4 DEF SendBlank
  <2>5. CASE VideoEnds
    BY <2>5 DEF VideoEnds, ShowConsole
  <2> QED
    BY <1>1, <2>1, <2>2, <2>3, <2>4, <2>5 DEF StreamNext
<1>2. CASE Tick
  <2>1. CASE TickConsole
    BY <2>1 DEF TickConsole, ShowConsole
  <2>2. CASE TickDrain
    BY <2>2 DEF TickDrain, Drain
  <2>3. CASE TickShow
    BY <2>3 DEF TickShow, TakeOverflowed, ShowFrame
  <2> QED
    BY <1>2, <2>1, <2>2, <2>3 DEF Tick
<1>3. CASE UserNext
  <2>1. CASE Minimize
    BY <2>1 DEF Minimize, ClearFrames
  <2>2. CASE Restore
    BY <2>2 DEF Restore, ClearFrames
  <2>3. CASE Reconnect
    BY <2>3 DEF Reconnect, ClearFrames
  <2> QED
    BY <1>3, <2>1, <2>2, <2>3 DEF UserNext
<1>4. CASE Render \/ LoseDevice
  <2>1. CASE Render
    BY <2>1 DEF Render, RenderConsole, RenderFrame
  <2>2. CASE LoseDevice
    BY <2>2 DEF LoseDevice, ReleaseResources
  <2> QED
    BY <1>4, <2>1, <2>2
<1>5. CASE UNCHANGED aspeedVars
  BY <1>5 DEF aspeedVars
<1> QED
  BY <1>1, <1>2, <1>3, <1>4, <1>5 DEF AspeedNext

\* A frame is uploaded wherever it differs from what the texture holds.
LEMMA UploadStep ==
  ASSUME ShapeInv, PartsInv, TickInv, UploadInv, [AspeedNext]_aspeedVars
  PROVE  UploadInv'
<1> USE DEF streamVars, hostedVars, queueVars, surfaceVars
<1>a. /\ UNCHANGED <<consoleActive, picture, texture, textureOf>>
      /\ dirty' = dirty
      /\ dropped \cup pending \subseteq dropped' \cup pending'
      => UploadInv'
  BY DEF UploadInv
<1>b. /\ UNCHANGED <<picture, texture, textureOf>> /\ consoleActive'
      /\ dirty' = dirty
      /\ dropped \cup pending \subseteq dropped' \cup pending'
      => UploadInv'
  BY DEF UploadInv
<1>c. textureOf' = "none" => UploadInv'
  BY DEF UploadInv
<1>1. CASE StreamNext
  <2>1. CASE SendDelta
    BY <2>1, <1>a, <1>b, <1>c DEF SendDelta, ReceiveFrame, Publish
  <2>2. CASE SendFull
    BY <2>2, <1>a, <1>b, <1>c DEF SendFull, ReceiveFrame, Publish
  <2>3. CASE SendUndecodable
    BY <2>3, <1>a, <1>b, <1>c DEF SendUndecodable, ReceiveFrame, Publish
  <2>4. CASE SendBlank
    BY <2>4, <1>a, <1>b, <1>c DEF SendBlank
  <2>5. CASE VideoEnds
    BY <2>5, <1>a, <1>b, <1>c DEF VideoEnds, ShowConsole
  <2> QED
    BY <1>1, <2>1, <2>2, <2>3, <2>4, <2>5 DEF StreamNext
<1>2. CASE Tick
  <2>1. CASE TickConsole
    BY <2>1, <1>a, <1>b, <1>c DEF TickConsole, ShowConsole
  <2>2. CASE TickDrain
    <3>1. /\ UNCHANGED <<consoleActive, pending, texture, textureOf, dropped>>
          /\ picture' = DecodeAll(picture, queue)
          /\ dirty' = IF picture = Blank /\ \E frame \in ToSet(queue) : frame.kind # "bad"
                      THEN Regions
                      ELSE UNION {Changed(frame) : frame \in ToSet(queue)}
          /\ dirty = {}
      BY <2>2 DEF TickDrain, TickInv
    <3> DEFINE some == \E frame \in ToSet(queue) : frame.kind # "bad"
    <3>2. CASE picture = Blank /\ some
      BY <3>1, <3>2 DEF UploadInv
    <3>3. CASE picture = Blank /\ ~some
      <4>1. \A i \in DOMAIN queue : Changed(queue[i]) = {}
        <5>1. \A frame \in ToSet(queue) : frame.kind = "bad"
          BY <3>3
        <5>2. \A i \in DOMAIN queue : queue[i].kind = "bad"
          BY <5>1, QueueShape DEF ShapeInv
        <5> QED
          BY <5>2 DEF Changed
      <4>2. dirty' = {}
        BY <3>1, <3>3, <4>1, QueueShape DEF ShapeInv
      <4>3. IsPicture(picture) /\ IsPicture(picture') /\ \A r \in Regions : picture'[r] = picture[r]
        BY <3>1, <4>1, DecodeKeeps, QueueShape DEF ShapeInv
      <4>4. picture' = picture
        BY <4>3 DEF IsPicture
      <4> QED
        BY <3>1, <4>2, <4>4 DEF UploadInv
    <3>4. CASE picture # Blank
      <4>1. \A r \in Regions \ dirty' : picture'[r] = picture[r]
        <5> SUFFICES ASSUME NEW r \in Regions \ dirty'
                     PROVE  picture'[r] = picture[r]
          OBVIOUS
        <5>1. \A i \in DOMAIN queue : r \notin Changed(queue[i])
          BY <3>1, <3>4, QueueShape DEF ShapeInv
        <5> QED
          BY <3>1, <5>1, DecodeKeeps, QueueShape DEF ShapeInv
      <4> QED
        BY <3>1, <3>4, <4>1 DEF UploadInv
    <3> QED
      BY <3>2, <3>3, <3>4
  <2>3. CASE TickShow
    <3>1. /\ UNCHANGED <<picture, texture, textureOf, dropped>>
          /\ dirty' = {}
          /\ \/ dirty = {} /\ UNCHANGED <<consoleActive, pending>>
             \/ dirty # {} /\ pending \cup dirty \subseteq pending'
      BY <2>3 DEF TickShow, ShowFrame, PartsInv
    <3> QED
      BY <3>1 DEF UploadInv
  <2> QED
    BY <1>2, <2>1, <2>2, <2>3 DEF Tick
<1>3. CASE UserNext
  <2>1. CASE Minimize
    BY <2>1, <1>a, <1>b, <1>c DEF Minimize, ClearFrames
  <2>2. CASE Restore
    BY <2>2, <1>a, <1>b, <1>c DEF Restore, ClearFrames
  <2>3. CASE Reconnect
    <3> QED
      BY <2>3 DEF Reconnect, UploadInv, TickInv
  <2> QED
    BY <1>3, <2>1, <2>2, <2>3 DEF UserNext
<1>4. CASE Render \/ LoseDevice
  <2>1. CASE Render
    <3>1. dirty = {} /\ UNCHANGED <<picture, dirty, consoleActive>>
      BY <2>1 DEF Render, RenderConsole, RenderFrame, TickInv
    <3>2. CASE RenderConsole
      BY <3>2 DEF RenderConsole, UploadInv
    <3>3. CASE RenderFrame(picture)
      <4>1. PICK uploaded \in {Regions, pending} :
              /\ uploaded = Regions \/ textureOf = "frame"
              /\ texture' = [r \in Regions |->
                               IF r \in uploaded THEN picture[r] ELSE texture[r]]
              /\ dropped' = dropped \ uploaded
              /\ pending' = {}
              /\ ~consoleActive
        BY <3>3 DEF RenderFrame, PartsInv
      <4> QED
        BY <3>1, <4>1 DEF UploadInv
    <3> QED
      BY <2>1, <3>2, <3>3 DEF Render
  <2>2. CASE LoseDevice
    BY <2>2, <1>a, <1>b, <1>c DEF LoseDevice, ReleaseResources
  <2> QED
    BY <1>4, <2>1, <2>2
<1>5. CASE UNCHANGED aspeedVars
  BY <1>5, <1>a, <1>b, <1>c DEF aspeedVars
<1> QED
  BY <1>1, <1>2, <1>3, <1>4, <1>5 DEF AspeedNext

\* What takes the console down asks for an upload.
LEMMA FreshStep ==
  ASSUME PartsInv, FreshInv, [AspeedNext]_aspeedVars
  PROVE  FreshInv'
<1> USE DEF FreshInv, streamVars, hostedVars, queueVars, surfaceVars
<1>1. CASE StreamNext
  <2>1. CASE SendDelta
    BY <2>1 DEF SendDelta, ReceiveFrame, Publish
  <2>2. CASE SendFull
    BY <2>2 DEF SendFull, ReceiveFrame, Publish
  <2>3. CASE SendUndecodable
    BY <2>3 DEF SendUndecodable, ReceiveFrame, Publish
  <2>4. CASE SendBlank
    BY <2>4 DEF SendBlank
  <2>5. CASE VideoEnds
    BY <2>5 DEF VideoEnds, ShowConsole
  <2> QED
    BY <1>1, <2>1, <2>2, <2>3, <2>4, <2>5 DEF StreamNext
<1>2. CASE Tick
  <2>1. CASE TickConsole
    BY <2>1 DEF TickConsole, ShowConsole
  <2>2. CASE TickDrain
    BY <2>2 DEF TickDrain, Drain
  <2>3. CASE TickShow
    <3>1. \/ dirty = {} /\ UNCHANGED surfaceVars
          \/ dirty # {} /\ pending' # {} /\ textureOf' = textureOf
      BY <2>3 DEF TickShow, ShowFrame, PartsInv
    <3> QED
      BY <3>1
  <2> QED
    BY <1>2, <2>1, <2>2, <2>3 DEF Tick
<1>3. CASE UserNext
  <2>1. CASE Minimize
    BY <2>1 DEF Minimize, ClearFrames
  <2>2. CASE Restore
    BY <2>2 DEF Restore, ClearFrames
  <2>3. CASE Reconnect
    BY <2>3 DEF Reconnect, ClearFrames
  <2> QED
    BY <1>3, <2>1, <2>2, <2>3 DEF UserNext
<1>4. CASE Render \/ LoseDevice
  <2>1. CASE Render
    BY <2>1 DEF Render, RenderConsole, RenderFrame
  <2>2. CASE LoseDevice
    BY <2>2 DEF LoseDevice, ReleaseResources
  <2> QED
    BY <1>4, <2>1, <2>2
<1>5. CASE UNCHANGED aspeedVars
  BY <1>5 DEF aspeedVars
<1> QED
  BY <1>1, <1>2, <1>3, <1>4, <1>5 DEF AspeedNext

ScreenInv == ShapeInv /\ PartsInv /\ TickInv /\ UploadInv /\ FreshInv

\* The first state.
LEMMA ScreenInit == AspeedInit => ScreenInv
<1> SUFFICES ASSUME AspeedInit
             PROVE  ScreenInv
  OBVIOUS
<1>1. ShapeInv
  BY DEF AspeedInit, QueueInit, SurfaceInit, ShapeInv, IsPicture, Blank
<1> QED
  BY <1>1 DEF AspeedInit, SurfaceInit, ScreenInv, PartsInv, TickInv, UploadInv, FreshInv

\* Every step keeps them all.
LEMMA ScreenStep == ScreenInv /\ [AspeedNext]_aspeedVars => ScreenInv'
BY ShapeStep, PartsStep, TickStep, UploadStep, FreshStep DEF ScreenInv

\* What is on the screen when a frame has been rendered is the decoder's picture, in every
\* region but those that a console was painted over or whose upload it cancelled, and
\* those of a lost device; a window of whatever size.
THEOREM ScreenCorrect == AspeedSpec => []ScreenShowsPicture
<1>1. ScreenInv => ScreenShowsPicture
  BY DEF ScreenInv, TickInv, UploadInv, FreshInv, ScreenShowsPicture
<1>2. ScreenInv /\ [AspeedNext]_aspeedVars => ScreenInv'
  BY ScreenStep
<1> QED
  BY <1>1, <1>2, ScreenInit, PTL DEF AspeedSpec

-----------------------------------------------------------------------------
\* The chain of frames.

\* A delta continues the chain, a full frame starts it again, and what breaks it leaves a
\* request, an overflow to be taken or the mark of an undecodable frame.
LEMMA SyncStep ==
  ASSUME Backend = "megarac", ShapeInv, InSyncOrRefreshing, [AspeedNext]_aspeedVars
  PROVE  InSyncOrRefreshing'
<1> USE DEF streamVars, hostedVars, queueVars, surfaceVars
<1>a. /\ UNCHANGED <<minimized, ended, picture, queue, host, overflowed, skipped>>
      /\ refresh => refresh'
      => InSyncOrRefreshing'
  BY DEF InSyncOrRefreshing
<1>1. CASE StreamNext
  <2>1. CASE SendDelta
    <3>1. PICK changed \in SUBSET Regions :
            host' = [r \in Regions |-> IF r \in changed THEN version + 1 ELSE host[r]]
      BY <2>1 DEF SendDelta
    <3>2. host' \in [Regions -> Nat]
      BY <2>1, <3>1 DEF SendDelta, ShapeInv
    <3> DEFINE frame == Frame("delta", host, host')
    <3>3. /\ frame \in Frames /\ frame.kind = "delta" /\ frame.was = host /\ frame.now = host'
      BY <3>2, FrameIs DEF ShapeInv
    <3>4. Publish(frame) /\ UNCHANGED <<minimized, ended, picture, refresh, skipped>>
      BY <2>1 DEF SendDelta, ReceiveFrame
    <3> HIDE DEF frame
    <3>5. DecodeAll(picture, Append(queue, frame)) = Decode(DecodeAll(picture, queue), frame)
      BY <3>3, DecodeOneMore DEF ShapeInv
    <3>6. Decode(host, frame) = host'
      <4>1. \A r \in Regions : Decode(host, frame)[r] = host'[r]
        BY <3>3, DecodeIs DEF Changed
      <4> QED
        BY <3>2, <4>1, DecodeIs DEF IsPicture
    <3>7. (overflowed => overflowed') /\ (overflowed' \/ queue' = Append(queue, frame))
      BY <3>3, <3>4, Published DEF ShapeInv
    <3> QED
      BY <3>4, <3>5, <3>6, <3>7 DEF InSyncOrRefreshing
  <2>2. CASE SendFull
    <3> DEFINE frame == Frame("full", host, host)
    <3>1. frame \in Frames /\ frame.kind = "full" /\ frame.now = host
      BY FrameIs DEF ShapeInv
    <3>2. Publish(frame) /\ UNCHANGED <<host, picture>>
      BY <2>2 DEF SendFull, ReceiveFrame
    <3> HIDE DEF frame
    <3>3. DecodeAll(picture, Append(queue, frame)) = Decode(DecodeAll(picture, queue), frame)
      BY <3>1, DecodeOneMore DEF ShapeInv
    <3>4. \A q : Decode(q, frame) = host
      <4> SUFFICES ASSUME NEW q
                   PROVE  Decode(q, frame) = host
        OBVIOUS
      <4>1. \A r \in Regions : Decode(q, frame)[r] = host[r]
        BY <3>1, DecodeIs DEF Changed
      <4>2. Decode(q, frame) = [r \in Regions |-> Decode(q, frame)[r]]
        BY DecodeIs DEF IsPicture
      <4>3. host = [r \in Regions |-> host[r]]
        BY DEF ShapeInv
      <4> QED
        BY <4>1, <4>2, <4>3
    <3>5. overflowed' \/ queue' = Append(queue, frame)
      BY <3>1, <3>2, Published DEF ShapeInv
    <3> QED
      BY <3>2, <3>3, <3>4, <3>5 DEF InSyncOrRefreshing
  <2>3. CASE SendUndecodable
    BY <2>3, <1>a DEF SendUndecodable, InSyncOrRefreshing
  <2>4. CASE SendBlank
    BY <2>4, <1>a DEF SendBlank
  <2>5. CASE VideoEnds
    BY <2>5, <1>a DEF VideoEnds, InSyncOrRefreshing
  <2> QED
    BY <1>1, <2>1, <2>2, <2>3, <2>4, <2>5 DEF StreamNext
<1>2. CASE Tick
  <2>1. CASE TickConsole
    BY <2>1, <1>a DEF TickConsole, ShowConsole
  <2>2. CASE TickDrain
    <3>1. DecodeAll(picture', queue') = DecodeAll(picture, queue)
      BY <2>2, DecodeNone DEF TickDrain, Drain
    <3> QED
      BY <2>2, <3>1 DEF TickDrain, Drain, InSyncOrRefreshing
  <2>3. CASE TickShow
    BY <2>3, <1>a DEF TickShow, TakeOverflowed, InSyncOrRefreshing
  <2> QED
    BY <1>2, <2>1, <2>2, <2>3 DEF Tick
<1>3. CASE UserNext
  <2>1. CASE Minimize
    BY <2>1, <1>a DEF Minimize, InSyncOrRefreshing
  <2>2. CASE Restore
    BY <2>2, <1>a DEF Restore, InSyncOrRefreshing
  <2>3. CASE Reconnect
    BY <2>3, <1>a DEF Reconnect, InSyncOrRefreshing
  <2> QED
    BY <1>3, <2>1, <2>2, <2>3 DEF UserNext
<1>4. CASE Render \/ LoseDevice
  <2>1. CASE Render
    BY <2>1, <1>a DEF Render, RenderConsole, RenderFrame
  <2>2. CASE LoseDevice
    BY <2>2, <1>a DEF LoseDevice, ReleaseResources
  <2> QED
    BY <1>4, <2>1, <2>2
<1>5. CASE UNCHANGED aspeedVars
  BY <1>5, <1>a DEF aspeedVars
<1> QED
  BY <1>1, <1>2, <1>3, <1>4, <1>5 DEF AspeedNext

\* MegaRAC: while the window is visible, what is queued decodes to the host's picture, or
\* a full frame will come, but for a frame that could not be decoded.
THEOREM SyncCorrect ==
  ASSUME Backend = "megarac"
  PROVE  AspeedSpec => []InSyncOrRefreshing
<1> DEFINE SyncInv == ShapeInv /\ InSyncOrRefreshing
<1>1. AspeedInit => SyncInv
  BY ScreenInit DEF AspeedInit, ScreenInv, InSyncOrRefreshing
<1>2. SyncInv /\ [AspeedNext]_aspeedVars => SyncInv'
  BY ShapeStep, SyncStep
<1> QED
  BY <1>1, <1>2, PTL DEF AspeedSpec

=============================================================================
