--------------------------- MODULE PowerPathProofs ---------------------------
(***************************************************************************)
(* Proofs about PowerPath, for any number of actions and of sessions and   *)
(* any length of a hold and a pulse: who holds the worker at each step of  *)
(* the network thread, and what becomes of an action from the popup to the *)
(* button.                                                                 *)
(***************************************************************************)
EXTENDS PowerPath, SequenceTheorems, TLAPS

ShapeInv ==
  /\ issued \in 0 .. MaxActions
  /\ waiting \in Seq(Nat)
  /\ queue \in Seq(Nat)
  /\ pressed \in [Ids -> Nat]

\* A button is held down only while there is an action left to confirm.
HoldInv == hold = NotHeld \/ issued < MaxActions

\* The shared_ptrs: of the run function from make_shared to its end, of the GUI thread
\* inside the sink.  When the log-out begins the worker's thread has been joined, or the
\* GUI thread has had the last word.
HolderInv ==
  /\ holders \subseteq {"net", "gui"}
  /\ "net" \in holders <=> net \in {"install", "flush", "run", "clear", "release"}
  /\ "gui" \in holders <=> gui \in {"submit", "release"}
  /\ net \in {"start", "install", "done"} => ~sink
  /\ net = "start" => gui = "idle"
  /\ net = "logout" => worker = "ended" \/ "gui" \in holders \/ borrowed

\* An action that has been confirmed and not reached the worker's thread yet.
Fresh(a) == a \in 1 .. issued /\ pressed[a] = 0 /\ a # current

\* Each action is in one place at a time: with the GUI thread, pending in the channel, in
\* the worker's queue, or with its thread.
TicketInv ==
  /\ current \in 0 .. issued
  /\ \A a \in ToSet(queue) \cup ToSet(waiting) : Fresh(a)
  /\ IsInjective(queue)
  /\ IsInjective(waiting)
  /\ ToSet(queue) \cap ToSet(waiting) = {}
  /\ gui \in {"lock", "submit"} => Fresh(issued) /\ issued \notin ToSet(queue) \cup ToSet(waiting)
  /\ \A a \in Ids : a > issued => pressed[a] = 0

\* The one way to press twice, once it has been gone: the connection was reused, the BMC
\* closed it after the click, and the request is on a new one.
Spent == current \in lost /\ ~reused

PressInv ==
  /\ worker \in Exchange => current # 0
  /\ worker \in {"send", "sent"} => pressed[current] = 0 \/ (pressed[current] = 1 /\ Spent)
  /\ worker = "pressed" => pressed[current] = 1 \/ (pressed[current] = 2 /\ Spent)
  /\ PressedTwiceOnlyIfLost

IInv == ShapeInv /\ HoldInv /\ HolderInv /\ TicketInv /\ PressInv

-----------------------------------------------------------------------------
\* The elements of a queue, and that none is in it twice.

\* The elements of the empty queue.
LEMMA EmptyElements == ToSet(<<>>) = {} /\ IsInjective(<<>>) /\ <<>> \in Seq(Nat)
BY DEF ToSet, IsInjective

\* An element behind others.
LEMMA AppendElements ==
  ASSUME NEW q \in Seq(Nat), NEW a \in Nat
  PROVE  /\ Append(q, a) \in Seq(Nat)
         /\ ToSet(Append(q, a)) = ToSet(q) \cup {a}
         /\ IsInjective(q) /\ a \notin ToSet(q) => IsInjective(Append(q, a))
<1> DEFINE t == Append(q, a)
<1>1. /\ Len(q) \in Nat /\ DOMAIN q = 1 .. Len(q) /\ t \in Seq(Nat)
      /\ DOMAIN t = 1 .. Len(q) + 1 /\ t[Len(q) + 1] = a
      /\ \A i \in 1 .. Len(q) : t[i] = q[i]
  <2>1. Len(t) = Len(q) + 1 /\ t \in Seq(Nat) /\ t[Len(q) + 1] = a
        /\ \A i \in 1 .. Len(q) : t[i] = q[i]
    BY AppendProperties, LenProperties
  <2>2. DOMAIN t = 1 .. Len(t)
    BY <2>1, LenProperties
  <2> QED
    BY <2>1, <2>2, LenProperties
<1> HIDE DEF t
<1>2. ToSet(t) = ToSet(q) \cup {a}
  <2>1. ASSUME NEW x \in ToSet(t)
        PROVE  x \in ToSet(q) \cup {a}
    <3>1. PICK i \in 1 .. Len(q) + 1 : t[i] = x
      BY <1>1, <2>1 DEF ToSet
    <3>2. i \in 1 .. Len(q) \/ i = Len(q) + 1
      BY <1>1
    <3> QED
      BY <1>1, <3>1, <3>2 DEF ToSet
  <2>2. ASSUME NEW x \in ToSet(q)
        PROVE  x \in ToSet(t)
    <3>1. PICK i \in 1 .. Len(q) : q[i] = x
      BY <1>1, <2>2 DEF ToSet
    <3>2. i \in DOMAIN t /\ t[i] = x
      BY <1>1, <3>1
    <3> QED
      BY <3>2 DEF ToSet
  <2>3. a \in ToSet(t)
    <3>1. Len(q) + 1 \in DOMAIN t
      BY <1>1
    <3> QED
      BY <1>1, <3>1 DEF ToSet
  <2> QED
    BY <2>1, <2>2, <2>3
<1>3. ASSUME IsInjective(q), a \notin ToSet(q)
      PROVE  IsInjective(t)
  <2> SUFFICES ASSUME NEW i \in DOMAIN t, NEW j \in DOMAIN t, t[i] = t[j]
               PROVE  i = j
    BY DEF IsInjective
  <2>1. i \in 1 .. Len(q) \/ i = Len(q) + 1
    BY <1>1
  <2>2. j \in 1 .. Len(q) \/ j = Len(q) + 1
    BY <1>1
  <2>3. \A k \in 1 .. Len(q) : t[k] = q[k] /\ q[k] # a
    BY <1>1, <1>3 DEF ToSet
  <2>4. CASE i \in 1 .. Len(q) /\ j \in 1 .. Len(q)
    <3>1. q[i] = q[j]
      BY <2>3, <2>4
    <3> QED
      BY <1>1, <1>3, <2>4, <3>1 DEF IsInjective
  <2> QED
    BY <1>1, <2>1, <2>2, <2>3, <2>4
<1> QED
  BY <1>1, <1>2, <1>3 DEF t

\* One queue behind another.
LEMMA ConcatElements ==
  ASSUME NEW q \in Seq(Nat), NEW r \in Seq(Nat)
  PROVE  /\ q \o r \in Seq(Nat)
         /\ ToSet(q \o r) = ToSet(q) \cup ToSet(r)
         /\ IsInjective(q) /\ IsInjective(r) /\ ToSet(q) \cap ToSet(r) = {}
              => IsInjective(q \o r)
<1> DEFINE t == q \o r
<1>1. /\ Len(q) \in Nat /\ Len(r) \in Nat /\ DOMAIN q = 1 .. Len(q)
      /\ DOMAIN r = 1 .. Len(r) /\ DOMAIN t = 1 .. Len(q) + Len(r) /\ t \in Seq(Nat)
      /\ \A i \in 1 .. Len(q) : t[i] = q[i]
      /\ \A i \in Len(q) + 1 .. Len(q) + Len(r) : t[i] = r[i - Len(q)]
  BY LenProperties, ConcatProperties
<1> HIDE DEF t
<1>2. \A i \in DOMAIN t :
        \/ i \in DOMAIN q /\ t[i] = q[i]
        \/ i - Len(q) \in DOMAIN r /\ t[i] = r[i - Len(q)]
  <2> SUFFICES ASSUME NEW i \in 1 .. Len(q) + Len(r), i \notin 1 .. Len(q)
               PROVE  i - Len(q) \in 1 .. Len(r) /\ t[i] = r[i - Len(q)]
    BY <1>1
  <2>1. i \in Len(q) + 1 .. Len(q) + Len(r) /\ i - Len(q) \in 1 .. Len(r)
    BY <1>1
  <2> QED
    BY <1>1, <2>1
<1>3. \A i \in DOMAIN q : i \in DOMAIN t /\ t[i] = q[i]
  BY <1>1
<1>4. \A i \in DOMAIN r : i + Len(q) \in DOMAIN t /\ t[i + Len(q)] = r[i]
  <2> SUFFICES ASSUME NEW i \in 1 .. Len(r)
               PROVE  i + Len(q) \in 1 .. Len(q) + Len(r) /\ t[i + Len(q)] = r[i]
    BY <1>1
  <2>1. i + Len(q) \in Len(q) + 1 .. Len(q) + Len(r) /\ (i + Len(q)) - Len(q) = i
    BY <1>1
  <2> QED
    BY <1>1, <2>1
<1>5. ToSet(t) = ToSet(q) \cup ToSet(r)
  BY <1>2, <1>3, <1>4 DEF ToSet
<1>6. ASSUME IsInjective(q), IsInjective(r), ToSet(q) \cap ToSet(r) = {}
      PROVE  IsInjective(t)
  <2> SUFFICES ASSUME NEW i \in DOMAIN t, NEW j \in DOMAIN t, t[i] = t[j]
               PROVE  i = j
    BY DEF IsInjective
  <2>1. \A k \in DOMAIN q, l \in DOMAIN r : q[k] # r[l]
    BY <1>6 DEF ToSet
  <2>2. CASE i \in DOMAIN q /\ t[i] = q[i] /\ j \in DOMAIN q /\ t[j] = q[j]
    BY <1>6, <2>2 DEF IsInjective
  <2>3. CASE /\ i - Len(q) \in DOMAIN r /\ t[i] = r[i - Len(q)]
             /\ j - Len(q) \in DOMAIN r /\ t[j] = r[j - Len(q)]
    <3>1. i - Len(q) = j - Len(q)
      BY <1>6, <2>3 DEF IsInjective
    <3> QED
      BY <1>1, <3>1
  <2> QED
    BY <1>2, <2>1, <2>2, <2>3
<1> QED
  BY <1>1, <1>5, <1>6 DEF t

\* The first of a queue and the others.
LEMMA PopElements ==
  ASSUME NEW q \in Seq(Nat), q # <<>>
  PROVE  /\ Head(q) \in ToSet(q) /\ Tail(q) \in Seq(Nat) /\ ToSet(Tail(q)) \subseteq ToSet(q)
         /\ IsInjective(q) => IsInjective(Tail(q)) /\ Head(q) \notin ToSet(Tail(q))
<1>1. /\ Len(q) \in Nat /\ Len(q) > 0 /\ DOMAIN q = 1 .. Len(q)
      /\ Head(q) = q[1] /\ Tail(q) \in Seq(Nat)
      /\ Len(Tail(q)) = Len(q) - 1 /\ \A i \in 1 .. Len(Tail(q)) : Tail(q)[i] = q[i + 1]
  BY LenProperties, HeadTailProperties, EmptySeq
<1>2. DOMAIN Tail(q) = 1 .. Len(Tail(q))
  BY <1>1, LenProperties
<1>3. 1 \in DOMAIN q
  BY <1>1
<1>4. \A i \in DOMAIN Tail(q) : i + 1 \in DOMAIN q /\ i + 1 # 1 /\ Tail(q)[i] = q[i + 1]
  BY <1>1, <1>2
<1>5. Head(q) \in ToSet(q) /\ ToSet(Tail(q)) \subseteq ToSet(q)
  BY <1>1, <1>3, <1>4 DEF ToSet
<1>6. ASSUME IsInjective(q)
      PROVE  IsInjective(Tail(q)) /\ Head(q) \notin ToSet(Tail(q))
  <2>1. ASSUME NEW i \in DOMAIN Tail(q), NEW j \in DOMAIN Tail(q), Tail(q)[i] = Tail(q)[j]
        PROVE  i = j
    <3>1. q[i + 1] = q[j + 1] /\ i + 1 \in DOMAIN q /\ j + 1 \in DOMAIN q
      BY <1>4, <2>1
    <3>2. i + 1 = j + 1
      BY <1>6, <3>1 DEF IsInjective
    <3> QED
      BY <1>2, <3>2
  <2>2. \A i \in DOMAIN Tail(q) : Tail(q)[i] # Head(q)
    BY <1>1, <1>3, <1>4, <1>6 DEF IsInjective
  <2> QED
    BY <2>1, <2>2 DEF IsInjective, ToSet
<1> QED
  BY <1>1, <1>5, <1>6

-----------------------------------------------------------------------------
\* Queues of actions stay queues of actions.
LEMMA ShapeStep ==
  ASSUME ShapeInv, HoldInv, [Next]_vars
  PROVE  ShapeInv'
<1> USE DEF guiVars, channelVars, netVars, workerVars, clientVars
<1>a. UNCHANGED <<issued, waiting, queue, pressed>> => ShapeInv'
  BY DEF ShapeInv
<1>1. CASE FrameTick \/ PollControl \/ User
  <2>1. CASE FrameTick
    BY <2>1, <1>a DEF FrameTick, GuiIdle
  <2>2. CASE PollControl
    BY <2>2, <1>a DEF PollControl, GuiIdle
  <2>3. CASE Release
    BY <2>3, <1>a DEF Release, GuiIdle
  <2>4. CASE HoldTick
    BY <2>4, <1>a DEF HoldTick, GuiIdle
  <2>5. CASE Fire
    <3>1. issued' = issued \/ (issued' = issued + 1 /\ issued < MaxActions)
      BY <2>5 DEF Fire, HoldInv
    <3>2. issued' \in 0 .. MaxActions
      BY <3>1, PowerAssumption DEF ShapeInv
    <3>3. waiting' = waiting \/ waiting' = Append(waiting, issued + 1)
      BY <2>5 DEF Fire
    <3>4. waiting' \in Seq(Nat)
      <4>1. issued + 1 \in Nat
        BY PowerAssumption DEF ShapeInv
      <4> QED
        BY <3>3, <4>1, AppendElements DEF ShapeInv
    <3> QED
      BY <2>5, <3>2, <3>4 DEF Fire, GuiIdle, ShapeInv, workerVars, clientVars
  <2>6. CASE \E kind \in Kinds : Press(kind)
    BY <2>6, <1>a DEF Press, GuiIdle
  <2> QED
    BY <1>1, <2>1, <2>2, <2>3, <2>4, <2>5, <2>6 DEF User
<1>2. CASE GuiSubmit
  <2>1. CASE LockWorker
    BY <2>1, <1>a DEF LockWorker
  <2>2. CASE Submit
    <3>1. queue' = queue \/ queue' = Append(queue, issued)
      BY <2>2 DEF Submit
    <3>2. queue' \in Seq(Nat)
      <4>1. issued \in Nat
        BY PowerAssumption DEF ShapeInv
      <4> QED
        BY <3>1, <4>1, AppendElements DEF ShapeInv
    <3> QED
      BY <2>2, <3>2 DEF Submit, ShapeInv, channelVars, clientVars
  <2>3. CASE GuiRelease
    BY <2>3, <1>a DEF GuiRelease
  <2>4. CASE GuiJoin
    BY <2>4, <1>a DEF GuiJoin
  <2> QED
    BY <1>2, <2>1, <2>2, <2>3, <2>4 DEF GuiSubmit
<1>3. CASE NetWaits \/ NetNext \/ Session
  <2>1. CASE MakeWorker
    BY <2>1, <1>a DEF MakeWorker
  <2>2. CASE Install
    BY <2>2, <1>a DEF Install, NetStep
  <2>3. CASE Flush
    <3>1. queue' \in Seq(Nat)
      BY <2>3, ConcatElements DEF Flush, ShapeInv
    <3> QED
      BY <2>3, <3>1, EmptyElements DEF Flush, NetStep, ShapeInv, guiVars, clientVars
  <2>4. CASE ClearPower
    BY <2>4, <1>a, EmptyElements DEF ShapeInv, ClearPower, NetStep
  <2>5. CASE ReleaseWorker
    BY <2>5, <1>a DEF ReleaseWorker, NetStep
  <2>6. CASE JoinWorker
    BY <2>6, <1>a DEF JoinWorker, NetStep
  <2>7. CASE LogoutDone
    BY <2>7, <1>a, EmptyElements DEF ShapeInv, LogoutDone, NetStep
  <2>8. CASE EndChannels
    BY <2>8, <1>a DEF EndChannels, NetStep
  <2>9. CASE PublishState
    BY <2>9, <1>a DEF PublishState
  <2>10. CASE Retry
    BY <2>10, <1>a, EmptyElements DEF ShapeInv, Retry
  <2> QED
    BY <1>3, <2>1, <2>2, <2>3, <2>4, <2>5, <2>6, <2>7, <2>8, <2>9, <2>10 DEF NetWaits, NetNext,
         Session
<1>4. CASE WorkerNext \/ Send \/ PressButton \/ ExchangeEnds
  <2>1. CASE TakeAction
    <3>1. queue' \in Seq(Nat)
      BY <2>1, PopElements DEF TakeAction, ShapeInv
    <3> QED
      BY <2>1, <3>1 DEF TakeAction, WorkStep, ShapeInv, guiVars
  <2>2. CASE StopWaiting
    BY <2>2, <1>a DEF StopWaiting, WorkStep
  <2>3. CASE Threw
    BY <2>3, <1>a, EmptyElements DEF ShapeInv, Threw, WorkStep
  <2>4. CASE Report
    BY <2>4, <1>a DEF Report, WorkStep
  <2>5. CASE Send
    BY <2>5, <1>a DEF Send, WorkStep
  <2>6. CASE PressButton
    <3>1. pressed' \in [Ids -> Nat]
      <4>1. pressed' = [pressed EXCEPT ![current] = pressed[current] + 1]
        BY <2>6 DEF PressButton
      <4>2. current \in Ids => pressed[current] + 1 \in Nat
        BY DEF ShapeInv
      <4> QED
        BY <4>1, <4>2 DEF ShapeInv
    <3> QED
      BY <2>6, <3>1 DEF PressButton, WorkStep, ShapeInv, guiVars
  <2>7. CASE Answer
    BY <2>7, <1>a DEF Answer, WorkStep
  <2>8. CASE ExchangeFails
    BY <2>8, <1>a DEF ExchangeFails, WorkStep
  <2> QED
    BY <1>4, <2>1, <2>2, <2>3, <2>4, <2>5, <2>6, <2>7, <2>8 DEF WorkerNext, ExchangeEnds
<1>5. CASE AtRest \/ UNCHANGED vars
  BY <1>5, <1>a DEF AtRest, vars
<1> QED
  BY <1>1, <1>2, <1>3, <1>4, <1>5 DEF Next

\* press() looks for an action left, and a hold that fires is over.
LEMMA HoldStep ==
  ASSUME HoldInv, [Next]_vars
  PROVE  HoldInv'
<1> USE DEF HoldInv, guiVars, channelVars, netVars, workerVars, clientVars
<1>1. CASE FrameTick \/ PollControl \/ User
  <2>1. CASE FrameTick
    BY <2>1 DEF FrameTick, GuiIdle
  <2>2. CASE PollControl
    BY <2>2 DEF PollControl, GuiIdle
  <2>3. CASE Release
    BY <2>3 DEF Release, GuiIdle
  <2>4. CASE HoldTick
    BY <2>4 DEF HoldTick, GuiIdle
  <2>5. CASE Fire
    BY <2>5 DEF Fire, GuiIdle
  <2>6. CASE \E kind \in Kinds : Press(kind)
    BY <2>6 DEF Press, GuiIdle
  <2> QED
    BY <1>1, <2>1, <2>2, <2>3, <2>4, <2>5, <2>6 DEF User
<1>2. CASE GuiSubmit
  <2>1. CASE LockWorker
    BY <2>1 DEF LockWorker
  <2>2. CASE Submit
    BY <2>2 DEF Submit
  <2>3. CASE GuiRelease
    BY <2>3 DEF GuiRelease
  <2>4. CASE GuiJoin
    BY <2>4 DEF GuiJoin
  <2> QED
    BY <1>2, <2>1, <2>2, <2>3, <2>4 DEF GuiSubmit
<1>3. CASE NetWaits \/ NetNext \/ Session
  <2>1. CASE MakeWorker
    BY <2>1 DEF MakeWorker
  <2>2. CASE Install
    BY <2>2 DEF Install, NetStep
  <2>3. CASE Flush
    BY <2>3 DEF Flush, NetStep
  <2>4. CASE ClearPower
    BY <2>4 DEF ClearPower, NetStep
  <2>5. CASE ReleaseWorker
    BY <2>5 DEF ReleaseWorker, NetStep
  <2>6. CASE JoinWorker
    BY <2>6 DEF JoinWorker, NetStep
  <2>7. CASE LogoutDone
    BY <2>7 DEF LogoutDone, NetStep
  <2>8. CASE EndChannels
    BY <2>8 DEF EndChannels, NetStep
  <2>9. CASE PublishState
    BY <2>9 DEF PublishState
  <2>10. CASE Retry
    BY <2>10 DEF Retry
  <2> QED
    BY <1>3, <2>1, <2>2, <2>3, <2>4, <2>5, <2>6, <2>7, <2>8, <2>9, <2>10 DEF NetWaits, NetNext,
         Session
<1>4. CASE WorkerNext \/ Send \/ PressButton \/ ExchangeEnds
  <2>1. CASE TakeAction
    BY <2>1 DEF TakeAction, WorkStep
  <2>2. CASE StopWaiting
    BY <2>2 DEF StopWaiting, WorkStep
  <2>3. CASE Threw
    BY <2>3 DEF Threw, WorkStep
  <2>4. CASE Report
    BY <2>4 DEF Report, WorkStep
  <2>5. CASE Send
    BY <2>5 DEF Send, WorkStep
  <2>6. CASE PressButton
    BY <2>6 DEF PressButton, WorkStep
  <2>7. CASE Answer
    BY <2>7 DEF Answer, WorkStep
  <2>8. CASE ExchangeFails
    BY <2>8 DEF ExchangeFails, WorkStep
  <2> QED
    BY <1>4, <2>1, <2>2, <2>3, <2>4, <2>5, <2>6, <2>7, <2>8 DEF WorkerNext, ExchangeEnds
<1>5. CASE AtRest \/ UNCHANGED vars
  BY <1>5 DEF AtRest, vars
<1> QED
  BY <1>1, <1>2, <1>3, <1>4, <1>5 DEF Next

\* The run function and the sink give back what they hold, and the last one stops the worker.
LEMMA HolderStep ==
  ASSUME HolderInv, [Next]_vars
  PROVE  HolderInv'
<1> USE DEF HolderInv, Exchange, guiVars, channelVars, netVars, workerVars, clientVars
<1>a. UNCHANGED <<holders, net, gui, sink, worker, borrowed>> => HolderInv'
  OBVIOUS
<1>1. CASE FrameTick \/ PollControl \/ User
  <2>1. CASE FrameTick
    BY <2>1 DEF FrameTick, GuiIdle
  <2>2. CASE PollControl
    BY <2>2 DEF PollControl, GuiIdle
  <2>3. CASE Release
    BY <2>3 DEF Release, GuiIdle
  <2>4. CASE HoldTick
    BY <2>4 DEF HoldTick, GuiIdle
  <2>5. CASE Fire
    BY <2>5 DEF Fire, GuiIdle
  <2>6. CASE \E kind \in Kinds : Press(kind)
    BY <2>6 DEF Press, GuiIdle
  <2> QED
    BY <1>1, <2>1, <2>2, <2>3, <2>4, <2>5, <2>6 DEF User
<1>2. CASE GuiSubmit
  <2>1. CASE LockWorker
    BY <2>1 DEF LockWorker
  <2>2. CASE Submit
    BY <2>2 DEF Submit
  <2>3. CASE GuiRelease
    BY <2>3 DEF GuiRelease
  <2>4. CASE GuiJoin
    BY <2>4 DEF GuiJoin
  <2> QED
    BY <1>2, <2>1, <2>2, <2>3, <2>4 DEF GuiSubmit
<1>3. CASE NetWaits \/ NetNext \/ Session
  <2>1. CASE MakeWorker
    BY <2>1 DEF MakeWorker
  <2>2. CASE Install
    BY <2>2 DEF Install, NetStep
  <2>3. CASE Flush
    BY <2>3 DEF Flush, NetStep
  <2>4. CASE ClearPower
    BY <2>4 DEF ClearPower, NetStep
  <2>5. CASE ReleaseWorker
    BY <2>5 DEF ReleaseWorker, NetStep
  <2>6. CASE JoinWorker
    BY <2>6 DEF JoinWorker, NetStep
  <2>7. CASE LogoutDone
    BY <2>7 DEF LogoutDone, NetStep
  <2>8. CASE EndChannels
    BY <2>8 DEF EndChannels, NetStep
  <2>9. CASE PublishState
    BY <2>9 DEF PublishState
  <2>10. CASE Retry
    BY <2>10 DEF Retry
  <2> QED
    BY <1>3, <2>1, <2>2, <2>3, <2>4, <2>5, <2>6, <2>7, <2>8, <2>9, <2>10 DEF NetWaits, NetNext,
         Session
<1>4. CASE WorkerNext \/ Send \/ PressButton \/ ExchangeEnds
  <2>1. CASE TakeAction
    BY <2>1 DEF TakeAction, WorkStep
  <2>2. CASE StopWaiting
    BY <2>2 DEF StopWaiting, WorkStep
  <2>3. CASE Threw
    BY <2>3 DEF Threw, WorkStep
  <2>4. CASE Report
    BY <2>4 DEF Report, WorkStep
  <2>5. CASE Send
    BY <2>5 DEF Send, WorkStep
  <2>6. CASE PressButton
    BY <2>6 DEF PressButton, WorkStep
  <2>7. CASE Answer
    BY <2>7 DEF Answer, WorkStep
  <2>8. CASE ExchangeFails
    BY <2>8 DEF ExchangeFails, WorkStep
  <2> QED
    BY <1>4, <2>1, <2>2, <2>3, <2>4, <2>5, <2>6, <2>7, <2>8 DEF WorkerNext, ExchangeEnds
<1>5. CASE AtRest \/ UNCHANGED vars
  <2>1. UNCHANGED vars
    BY <1>5 DEF AtRest
  <2> QED
    BY <2>1, <1>a DEF vars
<1> QED
  BY <1>1, <1>2, <1>3, <1>4, <1>5 DEF Next

\* An action that moves is in its new place and no longer in the old one.
LEMMA TicketStep ==
  ASSUME ShapeInv, HoldInv, TicketInv, PressInv, [Next]_vars
  PROVE  TicketInv'
<1> USE DEF guiVars, channelVars, netVars, workerVars, clientVars
<1>a. /\ UNCHANGED <<issued, waiting, queue, current, pressed>>
      /\ gui' \in {"lock", "submit"} => gui \in {"lock", "submit"}
      => TicketInv'
  BY DEF TicketInv, Fresh
<1>b. /\ waiting' = waiting \/ waiting' = <<>>
      /\ queue' = queue \/ queue' = <<>>
      /\ current' = current \/ current' = 0
      /\ UNCHANGED <<gui, issued, pressed>>
      => TicketInv'
  <2> SUFFICES ASSUME /\ waiting' = waiting \/ waiting' = <<>>
                      /\ queue' = queue \/ queue' = <<>>
                      /\ current' = current \/ current' = 0
                      /\ UNCHANGED <<gui, issued, pressed>>
               PROVE  TicketInv'
    OBVIOUS
  <2>1. /\ ToSet(waiting') \subseteq ToSet(waiting) /\ IsInjective(waiting')
        /\ ToSet(queue') \subseteq ToSet(queue) /\ IsInjective(queue')
    BY EmptyElements DEF TicketInv
  <2>2. \A a : Fresh(a) => Fresh(a)'
    BY DEF Fresh
  <2>3. Fresh(issued) => (Fresh(issued))'
    BY DEF Fresh
  <2>4. current' \in 0 .. issued'
    BY DEF TicketInv, ShapeInv
  <2> QED
    BY <2>1, <2>2, <2>3, <2>4 DEF TicketInv
<1>1. CASE FrameTick \/ PollControl \/ User
  <2>1. CASE FrameTick
    BY <2>1, <1>a DEF FrameTick, GuiIdle
  <2>2. CASE PollControl
    BY <2>2, <1>a DEF PollControl, GuiIdle
  <2>3. CASE Release
    BY <2>3, <1>a DEF Release, GuiIdle
  <2>4. CASE HoldTick
    BY <2>4, <1>a DEF HoldTick, GuiIdle
  <2>5. CASE Fire
    <3>1. CASE issued' = issued /\ UNCHANGED <<gui, waiting>>
      BY <2>5, <3>1, <1>a DEF Fire, GuiIdle
    <3>2. CASE issued' # issued \/ gui' # gui \/ waiting' # waiting
      <4>1. /\ issued' = issued + 1 /\ issued < MaxActions
            /\ \/ gui' = "lock" /\ waiting' = waiting
               \/ gui' = "idle" /\ waiting' = Append(waiting, issued + 1)
            /\ UNCHANGED <<queue, current, pressed>>
        BY <2>5, <3>2 DEF Fire, GuiIdle, HoldInv
      <4>0. PICK n \in Nat : n = issued + 1
        BY PowerAssumption DEF ShapeInv
      <4>2. /\ issued \in Nat /\ n \in Ids /\ MaxActions \in Nat
            /\ current \in 0 .. issued /\ n \in Nat
        BY <4>0, <4>1, PowerAssumption DEF ShapeInv, TicketInv, Ids
      <4>3. pressed[n] = 0 /\ n # current
        BY <4>0, <4>2 DEF TicketInv
      <4>4. \A a \in ToSet(queue) \cup ToSet(waiting) : a \in 1 .. issued /\ Fresh(a)
        BY DEF TicketInv, Fresh
      <4>5. Fresh(n)'
        BY <4>0, <4>1, <4>2, <4>3 DEF Fresh
      <4>6. \A a \in ToSet(queue) \cup ToSet(waiting) : a # n /\ Fresh(a)'
        BY <4>0, <4>1, <4>2, <4>4 DEF Fresh
      <4>7. \A a \in Ids : a > issued' => pressed'[a] = 0
        BY <4>0, <4>1, <4>2 DEF TicketInv, Ids
      <4>8. current' \in 0 .. issued'
        BY <4>0, <4>1, <4>2
      <4>9. CASE gui' = "lock" /\ waiting' = waiting
        <5>1. (Fresh(issued))'
          BY <4>0, <4>1, <4>5 DEF Fresh
        <5> QED
          BY <4>0, <4>1, <4>6, <4>7, <4>8, <4>9, <5>1 DEF TicketInv
      <4>10. CASE gui' = "idle" /\ waiting' = Append(waiting, n)
        <5>1. ToSet(waiting') = ToSet(waiting) \cup {n} /\ IsInjective(waiting')
          BY <4>0, <4>1, <4>2, <4>6, <4>10, AppendElements DEF ShapeInv, TicketInv
        <5> QED
          BY <4>0, <4>1, <4>5, <4>6, <4>7, <4>8, <4>10, <5>1 DEF TicketInv
      <4> QED
        BY <4>0, <4>1, <4>9, <4>10
    <3> QED
      BY <3>1, <3>2
  <2>6. CASE \E kind \in Kinds : Press(kind)
    BY <2>6, <1>a DEF Press, GuiIdle
  <2> QED
    BY <1>1, <2>1, <2>2, <2>3, <2>4, <2>5, <2>6 DEF User
<1>2. CASE GuiSubmit
  <2>1. CASE LockWorker
    BY <2>1, <1>a DEF LockWorker
  <2>2. CASE Submit
    <3>1. /\ queue' = queue \/ queue' = Append(queue, issued)
          /\ gui' = "release" /\ Fresh(issued) /\ issued \notin ToSet(queue) \cup ToSet(waiting)
          /\ UNCHANGED <<issued, waiting, pressed, current>>
      BY <2>2 DEF Submit, TicketInv, guiVars, channelVars, clientVars
    <3>2. \A a : Fresh(a)' = Fresh(a)
      BY <3>1 DEF Fresh
    <3>3. ToSet(queue') \subseteq ToSet(queue) \cup {issued} /\ IsInjective(queue')
      <4>1. issued \in Nat
        BY PowerAssumption DEF ShapeInv
      <4> QED
        <5>1. /\ ToSet(Append(queue, issued)) = ToSet(queue) \cup {issued}
              /\ IsInjective(queue) /\ issued \notin ToSet(queue)
                   => IsInjective(Append(queue, issued))
          BY <4>1, AppendElements DEF ShapeInv
        <5>2. IsInjective(queue) /\ issued \notin ToSet(queue)
          BY <3>1 DEF TicketInv
        <5> QED
          BY <3>1, <5>1, <5>2
    <3> QED
      BY <3>1, <3>2, <3>3 DEF TicketInv
  <2>3. CASE GuiRelease
    BY <2>3, <1>a DEF GuiRelease
  <2>4. CASE GuiJoin
    BY <2>4, <1>a DEF GuiJoin
  <2> QED
    BY <1>2, <2>1, <2>2, <2>3, <2>4 DEF GuiSubmit
<1>3. CASE NetWaits \/ NetNext \/ Session
  <2>1. CASE MakeWorker
    BY <2>1, <1>a DEF MakeWorker
  <2>2. CASE Install
    BY <2>2, <1>a DEF Install, NetStep
  <2>3. CASE Flush
    <3>1. /\ queue' = queue \o waiting /\ waiting' = <<>>
          /\ UNCHANGED <<gui, issued, pressed, current>>
      BY <2>3 DEF Flush, NetStep, guiVars, clientVars
    <3>2. \A a : Fresh(a)' = Fresh(a)
      BY <3>1 DEF Fresh
    <3>3. ToSet(queue') = ToSet(queue) \cup ToSet(waiting) /\ IsInjective(queue')
      BY <3>1, ConcatElements DEF ShapeInv, TicketInv
    <3>4. ToSet(waiting') = {} /\ IsInjective(waiting')
      BY <3>1, EmptyElements
    <3>5. issued' = issued /\ (Fresh(issued))' = Fresh(issued)
      BY <3>1 DEF Fresh
    <3> QED
      BY <3>1, <3>2, <3>3, <3>4, <3>5 DEF TicketInv
  <2>4. CASE ClearPower
    <3>1. /\ waiting' = <<>>
          /\ UNCHANGED <<gui, issued, queue, pressed, current>>
      BY <2>4 DEF ClearPower, NetStep, guiVars, clientVars
    <3> QED
      BY <3>1, <1>b
  <2>5. CASE ReleaseWorker
    BY <2>5, <1>a DEF ReleaseWorker, NetStep
  <2>6. CASE JoinWorker
    BY <2>6, <1>a DEF JoinWorker, NetStep
  <2>7. CASE LogoutDone
    <3>1. /\ waiting' = <<>>
          /\ UNCHANGED <<gui, issued, queue, pressed, current>>
      BY <2>7 DEF LogoutDone, NetStep, guiVars, clientVars
    <3> QED
      BY <3>1, <1>b
  <2>8. CASE EndChannels
    BY <2>8, <1>a DEF EndChannels, NetStep
  <2>9. CASE PublishState
    BY <2>9, <1>a DEF PublishState
  <2>10. CASE Retry
    <3>1. /\ queue' = <<>>
          /\ UNCHANGED <<gui, issued, waiting, pressed, current>>
      BY <2>10 DEF Retry, guiVars, channelVars
    <3> QED
      BY <3>1, <1>b
  <2> QED
    BY <1>3, <2>1, <2>2, <2>3, <2>4, <2>5, <2>6, <2>7, <2>8, <2>9, <2>10 DEF NetWaits, NetNext,
         Session
<1>4. CASE WorkerNext \/ Send \/ PressButton \/ ExchangeEnds
  <2>1. CASE TakeAction
    <3>1. /\ queue # <<>> /\ current' = Head(queue) /\ queue' = Tail(queue)
          /\ UNCHANGED <<gui, issued, waiting, pressed>>
      BY <2>1 DEF TakeAction, WorkStep, guiVars
    <3>2. /\ Head(queue) \in ToSet(queue) /\ ToSet(Tail(queue)) \subseteq ToSet(queue)
          /\ IsInjective(Tail(queue)) /\ Head(queue) \notin ToSet(Tail(queue))
      BY <3>1, PopElements DEF ShapeInv, TicketInv
    <3>3. Head(queue) \in 1 .. issued
      BY <3>2 DEF TicketInv, Fresh
    <3>4. \A a : Fresh(a) /\ a # Head(queue) => Fresh(a)'
      BY <3>1 DEF Fresh
    <3>5. current' \in 0 .. issued'
      BY <3>1, <3>3 DEF ShapeInv
    <3>6. /\ Head(queue) \notin ToSet(waiting)
          /\ gui \in {"lock", "submit"} => issued # Head(queue)
      BY <3>2 DEF TicketInv
    <3>7. gui \in {"lock", "submit"} => (Fresh(issued))'
      BY <3>1, <3>4, <3>6 DEF TicketInv, Fresh
    <3> QED
      BY <3>1, <3>2, <3>4, <3>5, <3>6, <3>7 DEF TicketInv
  <2>2. CASE StopWaiting
    BY <2>2, <1>a DEF StopWaiting, WorkStep
  <2>3. CASE Threw
    <3>1. /\ queue' = queue \/ queue' = <<>>
          /\ current' = current \/ current' = 0
          /\ UNCHANGED <<gui, issued, waiting, pressed>>
      BY <2>3 DEF Threw, WorkStep, guiVars, clientVars
    <3> QED
      BY <3>1, <1>b
  <2>4. CASE Report
    <3>1. current' = 0 /\ UNCHANGED <<gui, issued, queue, waiting, pressed>>
      BY <2>4 DEF Report, WorkStep, guiVars
    <3> QED
      BY <3>1, <1>b
  <2>5. CASE Send
    BY <2>5, <1>a DEF Send, WorkStep
  <2>6. CASE PressButton
    <3>1. /\ worker = "sent" /\ pressed' = [pressed EXCEPT ![current] = pressed[current] + 1]
          /\ UNCHANGED <<gui, issued, waiting, queue, current>>
      BY <2>6 DEF PressButton, WorkStep, guiVars
    <3>2. current \in 1 .. issued
      BY <3>1 DEF PressInv, TicketInv, Exchange
    <3>3. \A a \in Ids : a # current => pressed'[a] = pressed[a]
      BY <3>1 DEF ShapeInv
    <3>4. \A a : a \in 1 .. issued => a \in Ids
      BY PowerAssumption DEF ShapeInv, Ids
    <3>5. \A a : Fresh(a) => Fresh(a)'
      BY <3>1, <3>3, <3>4 DEF Fresh
    <3>6. Fresh(issued) => (Fresh(issued))'
      BY <3>1, <3>3, <3>4 DEF Fresh
    <3>7. \A a \in Ids : a > issued' => pressed'[a] = 0
      BY <3>1, <3>2, <3>3 DEF TicketInv, Ids, ShapeInv
    <3> QED
      BY <3>1, <3>5, <3>6, <3>7 DEF TicketInv
  <2>7. CASE Answer
    BY <2>7, <1>a DEF Answer, WorkStep
  <2>8. CASE ExchangeFails
    BY <2>8, <1>a DEF ExchangeFails, WorkStep
  <2> QED
    BY <1>4, <2>1, <2>2, <2>3, <2>4, <2>5, <2>6, <2>7, <2>8 DEF WorkerNext, ExchangeEnds
<1>5. CASE AtRest \/ UNCHANGED vars
  BY <1>5, <1>a DEF AtRest, vars
<1> QED
  BY <1>1, <1>2, <1>3, <1>4, <1>5 DEF Next

\* A second press needs a retry, and a retry the one connection that was kept.
LEMMA PressStep ==
  ASSUME ShapeInv, TicketInv, PressInv, [Next]_vars
  PROVE  PressInv'
<1> USE DEF guiVars, channelVars, netVars, workerVars, clientVars, Exchange
<1>a. UNCHANGED <<worker, current, pressed, lost, reused>> => PressInv'
  BY DEF PressInv, Spent, PressedTwiceOnlyIfLost
<1>b. worker' \notin Exchange /\ UNCHANGED <<pressed, lost>> => PressInv'
  BY DEF PressInv, Exchange, PressedTwiceOnlyIfLost
<1>1. CASE FrameTick \/ PollControl \/ User
  <2>1. CASE FrameTick
    BY <2>1, <1>a, <1>b DEF FrameTick, GuiIdle
  <2>2. CASE PollControl
    BY <2>2, <1>a, <1>b DEF PollControl, GuiIdle
  <2>3. CASE Release
    BY <2>3, <1>a, <1>b DEF Release, GuiIdle
  <2>4. CASE HoldTick
    BY <2>4, <1>a, <1>b DEF HoldTick, GuiIdle
  <2>5. CASE Fire
    BY <2>5, <1>a, <1>b DEF Fire, GuiIdle
  <2>6. CASE \E kind \in Kinds : Press(kind)
    BY <2>6, <1>a, <1>b DEF Press, GuiIdle
  <2> QED
    BY <1>1, <2>1, <2>2, <2>3, <2>4, <2>5, <2>6 DEF User
<1>2. CASE GuiSubmit
  <2>1. CASE LockWorker
    BY <2>1, <1>a, <1>b DEF LockWorker
  <2>2. CASE Submit
    BY <2>2, <1>a, <1>b DEF Submit
  <2>3. CASE GuiRelease
    BY <2>3, <1>a, <1>b DEF GuiRelease
  <2>4. CASE GuiJoin
    BY <2>4, <1>a, <1>b DEF GuiJoin
  <2> QED
    BY <1>2, <2>1, <2>2, <2>3, <2>4 DEF GuiSubmit
<1>3. CASE NetWaits \/ NetNext \/ Session
  <2>1. CASE MakeWorker
    BY <2>1, <1>a, <1>b DEF MakeWorker
  <2>2. CASE Install
    BY <2>2, <1>a, <1>b DEF Install, NetStep
  <2>3. CASE Flush
    BY <2>3, <1>a, <1>b DEF Flush, NetStep
  <2>4. CASE ClearPower
    BY <2>4, <1>a, <1>b DEF ClearPower, NetStep
  <2>5. CASE ReleaseWorker
    BY <2>5, <1>a, <1>b DEF ReleaseWorker, NetStep
  <2>6. CASE JoinWorker
    BY <2>6, <1>a, <1>b DEF JoinWorker, NetStep
  <2>7. CASE LogoutDone
    BY <2>7, <1>a, <1>b DEF LogoutDone, NetStep
  <2>8. CASE EndChannels
    BY <2>8, <1>a, <1>b DEF EndChannels, NetStep
  <2>9. CASE PublishState
    BY <2>9, <1>a, <1>b DEF PublishState
  <2>10. CASE Retry
    BY <2>10, <1>a, <1>b DEF Retry
  <2> QED
    BY <1>3, <2>1, <2>2, <2>3, <2>4, <2>5, <2>6, <2>7, <2>8, <2>9, <2>10 DEF NetWaits, NetNext,
         Session
<1>4. CASE WorkerNext \/ Send \/ PressButton \/ ExchangeEnds
  <2>1. CASE TakeAction
    <3>1. /\ worker' = "send" /\ queue # <<>> /\ current' = Head(queue)
          /\ UNCHANGED <<pressed, lost>>
      BY <2>1 DEF TakeAction, WorkStep
    <3>2. Fresh(Head(queue))
      BY <3>1, PopElements DEF ShapeInv, TicketInv
    <3>3. pressed[Head(queue)] = 0 /\ Head(queue) # 0
      BY <3>2 DEF Fresh, ShapeInv
    <3> QED
      BY <3>1, <3>3 DEF PressInv, PressedTwiceOnlyIfLost
  <2>2. CASE StopWaiting
    BY <2>2, <1>a, <1>b DEF StopWaiting, WorkStep
  <2>3. CASE Threw
    <3>1. worker' \notin Exchange /\ UNCHANGED <<pressed, lost>>
      BY <2>3 DEF Threw, WorkStep, Exchange, clientVars
    <3> QED
      BY <3>1, <1>b
  <2>4. CASE Report
    <3>1. worker' \notin Exchange /\ UNCHANGED <<pressed, lost>>
      BY <2>4 DEF Report, WorkStep, Exchange, clientVars
    <3> QED
      BY <3>1, <1>b
  <2>5. CASE Send
    <3>1. /\ worker = "send" /\ worker' = "sent"
          /\ UNCHANGED <<current, pressed, lost, reused>>
      BY <2>5 DEF Send, WorkStep
    <3> QED
      BY <3>1 DEF PressInv, Spent, PressedTwiceOnlyIfLost, Exchange
  <2>6. CASE PressButton
    <3>1. /\ worker = "sent" /\ worker' = "pressed"
          /\ pressed' = [pressed EXCEPT ![current] = pressed[current] + 1]
          /\ UNCHANGED <<current, lost, reused>>
      BY <2>6 DEF PressButton, WorkStep
    <3>2. current \in Ids /\ current # 0
      BY <3>1, PowerAssumption DEF PressInv, Exchange, TicketInv, ShapeInv, Ids
    <3>3. pressed'[current] = pressed[current] + 1 /\ pressed[current] \in Nat
      BY <3>1, <3>2 DEF ShapeInv
    <3>4. \A a \in Ids : a # current => pressed'[a] = pressed[a]
      BY <3>1 DEF ShapeInv
    <3>5. Spent' = Spent /\ (Spent => current \in lost)
      BY <3>1 DEF Spent
    <3>6. pressed[current] = 0 \/ (pressed[current] = 1 /\ Spent)
      BY <3>1 DEF PressInv
    <3>7. pressed'[current] = 1 \/ (pressed'[current] = 2 /\ Spent)
      BY <3>3, <3>6
    <3>8. \A a \in Ids : pressed'[a] > 1 => pressed'[a] = 2 /\ a \in lost
      <4> SUFFICES ASSUME NEW a \in Ids, pressed'[a] > 1
                   PROVE  pressed'[a] = 2 /\ a \in lost
        OBVIOUS
      <4>1. CASE a = current
        BY <3>5, <3>7, <4>1
      <4>2. CASE a # current
        BY <3>4, <4>2 DEF PressInv, PressedTwiceOnlyIfLost
      <4> QED
        BY <4>1, <4>2
    <3> QED
      BY <3>1, <3>2, <3>5, <3>7, <3>8 DEF PressInv, PressedTwiceOnlyIfLost
  <2>7. CASE Answer
    BY <2>7, <1>a, <1>b DEF Answer, WorkStep
  <2>8. CASE ExchangeFails
    <3>1. PICK closed \in BOOLEAN :
            /\ \E from \in Exchange : WorkStep(from, IF MayRetry(closed) THEN "send" ELSE "threw")
            /\ lost' = IF closed /\ reused /\ worker = "pressed" THEN lost \cup {current} ELSE lost
      BY <2>8 DEF ExchangeFails
    <3>2. /\ worker \in Exchange
          /\ worker' = IF MayRetry(closed) THEN "send" ELSE "threw"
      BY <3>1 DEF WorkStep
    <3>3. reused' = FALSE /\ UNCHANGED <<current, pressed>> /\ lost \subseteq lost'
      BY <2>8, <3>1 DEF ExchangeFails
    <3>4. PressedTwiceOnlyIfLost'
      BY <3>3 DEF PressInv, PressedTwiceOnlyIfLost
    <3>5. CASE MayRetry(closed)
      <4>1. closed /\ reused /\ worker' = "send" /\ ~Spent
        BY <3>2, <3>5 DEF MayRetry, Spent
      <4>2. \/ pressed[current] = 0
            \/ pressed[current] = 1 /\ worker = "pressed"
        BY <3>2, <4>1 DEF PressInv, Exchange
      <4>3. worker = "pressed" => current \in lost'
        BY <3>1, <4>1
      <4>4. worker = "pressed" => Spent'
        BY <3>3, <4>3 DEF Spent
      <4>5. pressed'[current'] = 0 \/ (pressed'[current'] = 1 /\ Spent')
        BY <3>3, <4>2, <4>4
      <4>6. current' # 0
        BY <3>2, <3>3 DEF PressInv
      <4> QED
        BY <3>4, <4>1, <4>5, <4>6 DEF PressInv
    <3>6. CASE ~MayRetry(closed)
      <4>1. worker' = "threw"
        BY <3>2, <3>6
      <4> QED
        BY <3>4, <4>1 DEF PressInv, Exchange
    <3> QED
      BY <3>5, <3>6
  <2> QED
    BY <1>4, <2>1, <2>2, <2>3, <2>4, <2>5, <2>6, <2>7, <2>8 DEF WorkerNext, ExchangeEnds
<1>5. CASE AtRest \/ UNCHANGED vars
  BY <1>5, <1>a DEF AtRest, vars
<1> QED
  BY <1>1, <1>2, <1>3, <1>4, <1>5 DEF Next

-----------------------------------------------------------------------------
\* The invariant holds at the start.
LEMMA InvInit == Init => IInv
<1> SUFFICES ASSUME Init
             PROVE  IInv
  OBVIOUS
<1> USE PowerAssumption DEF Init
<1>1. ShapeInv /\ HoldInv
  BY EmptyElements DEF ShapeInv, HoldInv, Ids
<1>2. HolderInv
  BY DEF HolderInv
<1>3. TicketInv
  BY EmptyElements DEF TicketInv, Ids
<1>4. PressInv
  BY DEF PressInv, Exchange, PressedTwiceOnlyIfLost
<1> QED
  BY <1>1, <1>2, <1>3, <1>4 DEF IInv

\* Every step keeps it.
LEMMA InvStep == IInv /\ [Next]_vars => IInv'
BY ShapeStep, HoldStep, HolderStep, TicketStep, PressStep DEF IInv

\* So it holds in every state.
LEMMA Invariant == Spec => []IInv
BY InvInit, InvStep, PTL DEF Spec

-----------------------------------------------------------------------------
\* The worker's thread and the log-out are in the HttpsClient together in one case only,
\* the one in which the GUI thread held the worker, or had the last shared_ptr to it, when
\* the run function let go (run_pikvm_network_session(), the sink of PowerChannel).
THEOREM ClientCorrect == Spec => []ClientHasOneUser
<1>1. IInv => ClientHasOneUser
  BY DEF IInv, HolderInv, ClientHasOneUser, Undefined
<1> QED
  BY <1>1, Invariant, PTL

\* However actions, sessions, retries and failures follow each other, the BMC presses the
\* button for an action once, or twice if it closed a kept connection in between
\* (PowerRestWorker::run(), HttpsClient::request() and its retry).
THEOREM PressedCorrect == Spec => []PressedTwiceOnlyIfLost
<1>1. IInv => PressedTwiceOnlyIfLost
  BY DEF IInv, PressInv
<1> QED
  BY <1>1, Invariant, PTL

=============================================================================
