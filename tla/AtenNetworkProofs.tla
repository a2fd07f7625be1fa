-------------------------- MODULE AtenNetworkProofs --------------------------
(***************************************************************************)
(* Proofs about AtenNetwork, for any size of a drain, any number of        *)
(* reconnects and anything that the BMC sends: the pull loop never loses   *)
(* its request, and the two threads implement SessionLifecycle.            *)
(***************************************************************************)
EXTENDS AtenNetwork, SequenceTheorems, TLAPS

Stopping == {"stop", "snapshot", "forceClose", "join"}

\* What the two threads and the refinement mapping look at.
ViewShape ==
  /\ gui \in GuiSteps
  /\ reconnecting \in BOOLEAN
  /\ sessionEnded \in BOOLEAN
  /\ connected \in BOOLEAN

\* The window ends a session, or goes, only after the network thread has.
GuiInv ==
  /\ done => worker = "exited"
  /\ sessionEnded => done
  /\ gui = "closed" => worker = "exited"
  /\ gui \in Stopping /\ reconnecting => sessionEnded

\* ~ConnectionStatusGuard is on every way out of what kvm_connection(true) begins.
ConnectedInv ==
  connected => worker \in {"publishStop", "install", "run", "clear", "logout", "disconnect"}

ShapeInv ==
  /\ parser \in Seq(Messages)
  /\ writing \in Packets \cup {"none"}
  /\ writeQueue \in Seq(Packets)
  /\ asked \in Nat
  /\ wire \in Seq(Messages)

\* A session runs inside io.run() only.
RunInv == session = "running" => worker = "run"

\* The links of the chain, each by itself.  LoopIsAlive asks for an update under way only
\* where no timer runs, and would not be inductive: a request may be pending and the timer
\* active both, and then it is the request alone that goes on when the timer expires.
LoopInv ==
  session = "running" /\ ~stopRequested =>
    /\ timerActive \/ requestPending
    /\ requestPending => UnderWay
    /\ parser # <<>> => parsePosted
    /\ writeQueue # <<>> => writing # "none"

IInv == ViewShape /\ GuiInv /\ ConnectedInv /\ ShapeInv /\ RunInv /\ LoopInv

-----------------------------------------------------------------------------
\* What the queues carry of the request and of the answer to it.

Asks(q) == \E i \in DOMAIN q : q[i] = "request"
Carries(s) == \E i \in DOMAIN s : s[i] \in {"update", "blank"}

\* What is under way, place by place.
LEMMA UnderWaySplit ==
  UnderWay <=> \/ writing = "request" \/ Asks(writeQueue) \/ asked > 0
               \/ Carries(wire) \/ Carries(parser)
BY DEF UnderWay, Asks, Carries

\* A concatenation carries what either part carries.
LEMMA CarriesConcat ==
  ASSUME NEW s \in Seq(Messages), NEW t \in Seq(Messages), Carries(s) \/ Carries(t)
  PROVE  Carries(s \o t)
<1>1. /\ Len(s) \in Nat /\ Len(t) \in Nat /\ DOMAIN s = 1 .. Len(s)
      /\ DOMAIN t = 1 .. Len(t) /\ DOMAIN (s \o t) = 1 .. Len(s) + Len(t)
      /\ \A i \in 1 .. Len(s) : (s \o t)[i] = s[i]
      /\ \A i \in Len(s) + 1 .. Len(s) + Len(t) : (s \o t)[i] = t[i - Len(s)]
  BY LenProperties, ConcatProperties
<1>2. CASE Carries(s)
  <2>1. PICK i \in 1 .. Len(s) : s[i] \in {"update", "blank"}
    BY <1>1, <1>2 DEF Carries
  <2>2. i \in DOMAIN (s \o t)
    BY <1>1
  <2> QED
    BY <1>1, <2>1, <2>2 DEF Carries
<1>3. CASE Carries(t)
  <2>1. PICK i \in 1 .. Len(t) : t[i] \in {"update", "blank"}
    BY <1>1, <1>3 DEF Carries
  <2>2. i + Len(s) \in Len(s) + 1 .. Len(s) + Len(t) /\ (i + Len(s)) - Len(s) = i
    BY <1>1
  <2>3. i + Len(s) \in DOMAIN (s \o t) /\ (s \o t)[i + Len(s)] = t[i]
    BY <1>1, <2>2
  <2> QED
    BY <2>1, <2>3 DEF Carries
<1> QED
  BY <1>2, <1>3

\* Cut in two, one of the parts carries what the whole did.
LEMMA CarriesCut ==
  ASSUME NEW s \in Seq(Messages), NEW n \in 0 .. Len(s), Carries(s)
  PROVE  Carries(SubSeq(s, 1, n)) \/ Carries(SubSeq(s, n + 1, Len(s)))
<1>1. Len(s) \in Nat /\ n \in Nat /\ DOMAIN s = 1 .. Len(s)
  BY LenProperties
<1>2. PICK i \in 1 .. Len(s) : s[i] \in {"update", "blank"}
  BY <1>1 DEF Carries
<1>3. CASE i <= n
  <2>1. /\ DOMAIN SubSeq(s, 1, n) = 1 .. n
        /\ \A j \in 1 .. n : SubSeq(s, 1, n)[j] = s[j]
    BY <1>1
  <2>2. i \in 1 .. n
    BY <1>1, <1>3
  <2> QED
    BY <1>2, <2>1, <2>2 DEF Carries
<1>4. CASE i > n
  <2>1. /\ DOMAIN SubSeq(s, n + 1, Len(s)) = 1 .. Len(s) - n
        /\ \A j \in 1 .. Len(s) - n : SubSeq(s, n + 1, Len(s))[j] = s[n + j]
    BY <1>1
  <2>2. i - n \in 1 .. Len(s) - n /\ n + (i - n) = i
    BY <1>1, <1>4
  <2>3. SubSeq(s, n + 1, Len(s))[i - n] = s[i]
    BY <2>1, <2>2
  <2> QED
    BY <1>2, <2>1, <2>2, <2>3 DEF Carries
<1> QED
  BY <1>1, <1>3, <1>4

\* The parts of a sequence of messages are sequences of messages.
LEMMA CutTypes ==
  ASSUME NEW s \in Seq(Messages), NEW n \in 0 .. Len(s)
  PROVE  SubSeq(s, 1, n) \in Seq(Messages) /\ SubSeq(s, n + 1, Len(s)) \in Seq(Messages)
<1>1. Len(s) \in Nat /\ n \in Nat /\ \A i \in 1 .. Len(s) : s[i] \in Messages
  BY LenProperties, ElementOfSeq
<1> QED
  BY <1>1

\* A packet behind others.
LEMMA AsksConcat ==
  ASSUME NEW q \in Seq(Packets), NEW r \in Seq(Packets), Asks(q) \/ Asks(r)
  PROVE  Asks(q \o r)
<1>1. /\ Len(q) \in Nat /\ Len(r) \in Nat /\ DOMAIN q = 1 .. Len(q)
      /\ DOMAIN r = 1 .. Len(r) /\ DOMAIN (q \o r) = 1 .. Len(q) + Len(r)
      /\ \A i \in 1 .. Len(q) : (q \o r)[i] = q[i]
      /\ \A i \in Len(q) + 1 .. Len(q) + Len(r) : (q \o r)[i] = r[i - Len(q)]
  BY LenProperties, ConcatProperties
<1>2. CASE Asks(q)
  <2>1. PICK i \in 1 .. Len(q) : q[i] = "request"
    BY <1>1, <1>2 DEF Asks
  <2>2. i \in DOMAIN (q \o r)
    BY <1>1
  <2> QED
    BY <1>1, <2>1, <2>2 DEF Asks
<1>3. CASE Asks(r)
  <2>1. PICK i \in 1 .. Len(r) : r[i] = "request"
    BY <1>1, <1>3 DEF Asks
  <2>2. i + Len(q) \in Len(q) + 1 .. Len(q) + Len(r) /\ (i + Len(q)) - Len(q) = i
    BY <1>1
  <2>3. i + Len(q) \in DOMAIN (q \o r) /\ (q \o r)[i + Len(q)] = r[i]
    BY <1>1, <2>2
  <2> QED
    BY <2>1, <2>3 DEF Asks
<1> QED
  BY <1>2, <1>3

\* The first packet of a queue becomes the one that is being written.
LEMMA AsksPop ==
  ASSUME NEW q \in Seq(Packets), q # <<>>
  PROVE  /\ Head(q) \in Packets /\ Tail(q) \in Seq(Packets)
         /\ Asks(q) => Head(q) = "request" \/ Asks(Tail(q))
<1>1. /\ Len(q) \in Nat /\ Len(q) > 0 /\ DOMAIN q = 1 .. Len(q)
      /\ Head(q) = q[1] /\ Head(q) \in Packets /\ Tail(q) \in Seq(Packets)
      /\ Len(Tail(q)) = Len(q) - 1 /\ \A i \in 1 .. Len(Tail(q)) : Tail(q)[i] = q[i + 1]
  BY LenProperties, HeadTailProperties, EmptySeq
<1>2. DOMAIN Tail(q) = 1 .. Len(Tail(q))
  BY <1>1, LenProperties
<1>3. ASSUME Asks(q), Head(q) # "request"
      PROVE  Asks(Tail(q))
  <2>1. PICK i \in 1 .. Len(q) : q[i] = "request"
    BY <1>1, <1>3 DEF Asks
  <2>2. i # 1
    BY <1>1, <1>3, <2>1
  <2>3. i - 1 \in 1 .. Len(Tail(q)) /\ (i - 1) + 1 = i
    BY <1>1, <2>2
  <2>4. Tail(q)[i - 1] = q[i]
    BY <1>1, <2>3
  <2> QED
    BY <1>2, <2>1, <2>3, <2>4 DEF Asks
<1> QED
  BY <1>1, <1>3

\* queue_write() loses nothing, and leaves no packet waiting before an idle socket.
LEMMA QueueWritesKeeps ==
  ASSUME NEW packets \in Seq(Packets), packets # <<>>, ShapeInv, QueueWrites(packets)
  PROVE  /\ writing' \in Packets /\ writeQueue' \in Seq(Packets)
         /\ writing = "request" \/ Asks(writeQueue) \/ Asks(packets) =>
              writing' = "request" \/ Asks(writeQueue')
<1> USE DEF ShapeInv
<1> DEFINE waiting == writeQueue \o packets
<1>1. waiting \in Seq(Packets) /\ waiting # <<>>
  <2>1. /\ waiting \in Seq(Packets) /\ Len(waiting) = Len(writeQueue) + Len(packets)
        /\ Len(packets) \in Nat /\ Len(writeQueue) \in Nat
    BY LenProperties, ConcatProperties
  <2>2. Len(packets) # 0
    BY EmptySeq
  <2>3. Len(waiting) # 0
    BY <2>1, <2>2
  <2> QED
    BY <2>1, <2>3, EmptySeq
<1>2. Asks(writeQueue) \/ Asks(packets) => Asks(waiting)
  BY AsksConcat
<1>3. CASE writing = "none"
  <2>1. writing' = Head(waiting) /\ writeQueue' = Tail(waiting)
    BY <1>1, <1>3 DEF QueueWrites
  <2>2. /\ Head(waiting) \in Packets /\ Tail(waiting) \in Seq(Packets)
        /\ Asks(waiting) => Head(waiting) = "request" \/ Asks(Tail(waiting))
    BY <1>1, AsksPop
  <2> HIDE DEF waiting
  <2>3. writing # "request"
    BY <1>3
  <2> QED
    BY <1>2, <2>1, <2>2, <2>3
<1>4. CASE writing # "none"
  <2>1. writing' = writing /\ writeQueue' = waiting
    BY <1>4 DEF QueueWrites
  <2> HIDE DEF waiting
  <2> QED
    BY <1>1, <1>2, <1>4, <2>1
<1> QED
  BY <1>3, <1>4

\* The packets that the session queues are packets.
LEMMA PacketTypes ==
  /\ <<"other">> \in Seq(Packets) /\ <<"other">> # <<>>
  /\ <<"request">> \in Seq(Packets) /\ <<"request">> # <<>> /\ Asks(<<"request">>)
  /\ <<"request", "other">> \in Seq(Packets) /\ <<"request", "other">> # <<>>
  /\ Asks(<<"request", "other">>)
BY DEF Packets, Asks

\* What a drain takes and what it leaves.
LEMMA BatchCut ==
  ASSUME ShapeInv
  PROVE  /\ Len(Batch) \in 0 .. Len(parser) /\ Len(parser) \in Nat
         /\ Batch = SubSeq(parser, 1, Len(Batch))
         /\ Len(Batch) # MaxDrain => Len(Batch) = Len(parser)
<1> USE AtenAssumption DEF ShapeInv
<1> DEFINE n == IF Len(parser) < MaxDrain THEN Len(parser) ELSE MaxDrain
<1>1. Len(parser) \in Nat
  BY LenProperties
<1>2. n \in 0 .. Len(parser) /\ (n # MaxDrain => n = Len(parser))
  BY <1>1
<1>3. Batch = SubSeq(parser, 1, n)
  BY DEF Batch
<1> HIDE DEF n
<1>4. Len(SubSeq(parser, 1, n)) = n
  BY <1>1, <1>2
<1> QED
  BY <1>1, <1>2, <1>3, <1>4

\* Only a full drain leaves something behind.
LEMMA LeftOver ==
  ASSUME ShapeInv
  PROVE  Rest # <<>> => Len(Batch) = MaxDrain
<1> SUFFICES ASSUME Len(Batch) # MaxDrain
             PROVE  Rest = <<>>
  OBVIOUS
<1>1. Rest = SubSeq(parser, Len(parser) + 1, Len(parser)) /\ Len(parser) \in Nat
  BY BatchCut DEF Rest
<1> QED
  BY <1>1 DEF ShapeInv

\* An answer behind what is on the wire, or anything else.
LEMMA CarriesAppend ==
  ASSUME NEW s \in Seq(Messages), NEW m \in Messages, Carries(s) \/ m \in {"update", "blank"}
  PROVE  Carries(Append(s, m))
<1>1. <<m>> \in Seq(Messages) /\ (m \in {"update", "blank"} => Carries(<<m>>))
  BY DEF Carries
<1>2. Carries(s \o <<m>>)
  BY <1>1, CarriesConcat
<1> QED
  BY <1>2, AppendIsConcat

-----------------------------------------------------------------------------
\* The variables of the view that the lifecycle is made of keep their types.
LEMMA ViewShapeStep ==
  ASSUME ViewShape, [Next]_vars
  PROVE  ViewShape'
<1> USE DEF ViewShape, GuiSteps, Go, viewVars, netVars, sessionVars
<1>1. CASE (Gui \/ JoinAndClose) /\ UNCHANGED netVars
  <2>1. CASE Poll
    BY <1>1, <2>1 DEF Poll
  <2>2. CASE PressClose
    BY <1>1, <2>2 DEF PressClose
  <2>3. CASE PressRetry
    BY <1>1, <2>3 DEF PressRetry
  <2>4. CASE RequestStop
    BY <1>1, <2>4 DEF RequestStop
  <2>5. CASE SnapshotForceClose
    BY <1>1, <2>5 DEF SnapshotForceClose
  <2>6. CASE JoinAndClose
    BY <1>1, <2>6 DEF JoinAndClose
  <2> QED
    BY <1>1, <2>1, <2>2, <2>3, <2>4, <2>5, <2>6 DEF Gui
<1>2. CASE GuiForceClose \/ GuiRestart \/ RequestFullRefresh
  <2>1. CASE GuiForceClose
    BY <2>1 DEF GuiForceClose, CallForceClose
  <2>2. CASE GuiRestart
    BY <2>2 DEF GuiRestart, JoinAndRestart
  <2>3. CASE RequestFullRefresh
    BY <2>3 DEF RequestFullRefresh
  <2> QED
    BY <1>2, <2>1, <2>2, <2>3
<1>3. CASE WorkerNext
  <2>1. CASE Login
    BY <2>1 DEF Login, Fail
  <2>2. CASE Bootstrap
    BY <2>2 DEF Bootstrap, Fail
  <2>3. CASE OpenWebSocket
    BY <2>3 DEF OpenWebSocket, Fail
  <2>4. CASE PublishCloseRegistry
    BY <2>4 DEF PublishCloseRegistry
  <2>5. CASE CreateSession
    BY <2>5 DEF CreateSession
  <2>6. CASE PublishStopSession
    BY <2>6 DEF PublishStopSession
  <2>7. CASE InstallSinks
    BY <2>7 DEF InstallSinks
  <2>8. CASE RunStart
    BY <2>8 DEF RunStart, Handler
  <2>9. CASE IoReturns
    BY <2>9 DEF IoReturns
  <2>10. CASE RunStop
    BY <2>10 DEF RunStop, CloseNow
  <2>11. CASE Drain
    BY <2>11 DEF Drain, Handler
  <2>12. CASE DrainThrows
    BY <2>12 DEF DrainThrows, CloseNow
  <2>13. CASE ClearCallbacks
    BY <2>13 DEF ClearCallbacks
  <2>14. CASE Logout
    BY <2>14 DEF Logout
  <2>15. CASE Disconnect
    BY <2>15 DEF Disconnect
  <2>16. CASE CleanUp
    BY <2>16 DEF CleanUp
  <2>17. CASE DropForceClose /\ UNCHANGED netVars
    BY <2>17 DEF DropForceClose
  <2>18. CASE Finish /\ UNCHANGED netVars
    BY <2>18 DEF Finish
  <2> QED
    BY <1>3, <2>1, <2>2, <2>3, <2>4, <2>5, <2>6, <2>7, <2>8, <2>9, <2>10, <2>11, <2>12,
       <2>13, <2>14, <2>15, <2>16, <2>17, <2>18 DEF WorkerNext, WorkerRuns, BmcWaits
<1>4. CASE EventNext
  <2>1. CASE Handshake
    BY <2>1 DEF Handshake
  <2>2. CASE HandshakeFails
    BY <2>2 DEF HandshakeFails, Fail
  <2>3. CASE Read
    BY <2>3 DEF Read, Handler
  <2>4. CASE Written
    BY <2>4 DEF Written, Handler
  <2>5. CASE StreamEnds
    BY <2>5 DEF StreamEnds, CloseNow
  <2>6. CASE StreamFails
    BY <2>6 DEF StreamFails, CloseNow
  <2>7. CASE RunInput
    BY <2>7 DEF RunInput, Handler
  <2>8. CASE PowerPoll
    BY <2>8 DEF PowerPoll, Handler
  <2>9. CASE RequestTimer
    BY <2>9 DEF RequestTimer, Handler
  <2>10. CASE BmcAnswers
    BY <2>10 DEF BmcAnswers
  <2>11. CASE BmcSends
    BY <2>11 DEF BmcSends
  <2> QED
    BY <1>4, <2>1, <2>2, <2>3, <2>4, <2>5, <2>6, <2>7, <2>8, <2>9, <2>10, <2>11 DEF EventNext
<1>5. CASE Closed \/ UNCHANGED vars
  BY <1>5 DEF Closed, vars
<1> QED
  BY <1>1, <1>2, <1>3, <1>4, <1>5 DEF Next, GuiNext

\* done_ is the last thing the thread function sets, and a retry begins on the ended console.
LEMMA GuiStep ==
  ASSUME GuiInv, [Next]_vars
  PROVE  GuiInv'
<1> USE DEF GuiInv, Stopping, Go, viewVars, netVars, sessionVars
<1>1. CASE (Gui \/ JoinAndClose) /\ UNCHANGED netVars
  <2>1. CASE Poll
    BY <1>1, <2>1 DEF Poll
  <2>2. CASE PressClose
    BY <1>1, <2>2 DEF PressClose
  <2>3. CASE PressRetry
    BY <1>1, <2>3 DEF PressRetry
  <2>4. CASE RequestStop
    BY <1>1, <2>4 DEF RequestStop
  <2>5. CASE SnapshotForceClose
    BY <1>1, <2>5 DEF SnapshotForceClose
  <2>6. CASE JoinAndClose
    BY <1>1, <2>6 DEF JoinAndClose
  <2> QED
    BY <1>1, <2>1, <2>2, <2>3, <2>4, <2>5, <2>6 DEF Gui
<1>2. CASE GuiForceClose \/ GuiRestart \/ RequestFullRefresh
  <2>1. CASE GuiForceClose
    BY <2>1 DEF GuiForceClose, CallForceClose
  <2>2. CASE GuiRestart
    BY <2>2 DEF GuiRestart, JoinAndRestart
  <2>3. CASE RequestFullRefresh
    BY <2>3 DEF RequestFullRefresh
  <2> QED
    BY <1>2, <2>1, <2>2, <2>3
<1>3. CASE WorkerNext
  <2>1. CASE Login
    BY <2>1 DEF Login, Fail
  <2>2. CASE Bootstrap
    BY <2>2 DEF Bootstrap, Fail
  <2>3. CASE OpenWebSocket
    BY <2>3 DEF OpenWebSocket, Fail
  <2>4. CASE PublishCloseRegistry
    BY <2>4 DEF PublishCloseRegistry
  <2>5. CASE CreateSession
    BY <2>5 DEF CreateSession
  <2>6. CASE PublishStopSession
    BY <2>6 DEF PublishStopSession
  <2>7. CASE InstallSinks
    BY <2>7 DEF InstallSinks
  <2>8. CASE RunStart
    BY <2>8 DEF RunStart, Handler
  <2>9. CASE IoReturns
    BY <2>9 DEF IoReturns
  <2>10. CASE RunStop
    BY <2>10 DEF RunStop, CloseNow
  <2>11. CASE Drain
    BY <2>11 DEF Drain, Handler
  <2>12. CASE DrainThrows
    BY <2>12 DEF DrainThrows, CloseNow
  <2>13. CASE ClearCallbacks
    BY <2>13 DEF ClearCallbacks
  <2>14. CASE Logout
    BY <2>14 DEF Logout
  <2>15. CASE Disconnect
    BY <2>15 DEF Disconnect
  <2>16. CASE CleanUp
    BY <2>16 DEF CleanUp
  <2>17. CASE DropForceClose /\ UNCHANGED netVars
    BY <2>17 DEF DropForceClose
  <2>18. CASE Finish /\ UNCHANGED netVars
    BY <2>18 DEF Finish
  <2> QED
    BY <1>3, <2>1, <2>2, <2>3, <2>4, <2>5, <2>6, <2>7, <2>8, <2>9, <2>10, <2>11, <2>12,
       <2>13, <2>14, <2>15, <2>16, <2>17, <2>18 DEF WorkerNext, WorkerRuns, BmcWaits
<1>4. CASE EventNext
  <2>1. CASE Handshake
    BY <2>1 DEF Handshake
  <2>2. CASE HandshakeFails
    BY <2>2 DEF HandshakeFails, Fail
  <2>3. CASE Read
    BY <2>3 DEF Read, Handler
  <2>4. CASE Written
    BY <2>4 DEF Written, Handler
  <2>5. CASE StreamEnds
    BY <2>5 DEF StreamEnds, CloseNow
  <2>6. CASE StreamFails
    BY <2>6 DEF StreamFails, CloseNow
  <2>7. CASE RunInput
    BY <2>7 DEF RunInput, Handler
  <2>8. CASE PowerPoll
    BY <2>8 DEF PowerPoll, Handler
  <2>9. CASE RequestTimer
    BY <2>9 DEF RequestTimer, Handler
  <2>10. CASE BmcAnswers
    BY <2>10 DEF BmcAnswers
  <2>11. CASE BmcSends
    BY <2>11 DEF BmcSends
  <2> QED
    BY <1>4, <2>1, <2>2, <2>3, <2>4, <2>5, <2>6, <2>7, <2>8, <2>9, <2>10, <2>11 DEF EventNext
<1>5. CASE Closed \/ UNCHANGED vars
  BY <1>5 DEF Closed, vars
<1> QED
  BY <1>1, <1>2, <1>3, <1>4, <1>5 DEF Next, GuiNext

\* The connection status is dropped before the thread is cleaned up.
LEMMA ConnectedStep ==
  ASSUME ConnectedInv, [Next]_vars
  PROVE  ConnectedInv'
<1> USE DEF ConnectedInv, Go, viewVars, netVars, sessionVars
<1>1. CASE (Gui \/ JoinAndClose) /\ UNCHANGED netVars
  <2>1. CASE Poll
    BY <1>1, <2>1 DEF Poll
  <2>2. CASE PressClose
    BY <1>1, <2>2 DEF PressClose
  <2>3. CASE PressRetry
    BY <1>1, <2>3 DEF PressRetry
  <2>4. CASE RequestStop
    BY <1>1, <2>4 DEF RequestStop
  <2>5. CASE SnapshotForceClose
    BY <1>1, <2>5 DEF SnapshotForceClose
  <2>6. CASE JoinAndClose
    BY <1>1, <2>6 DEF JoinAndClose
  <2> QED
    BY <1>1, <2>1, <2>2, <2>3, <2>4, <2>5, <2>6 DEF Gui
<1>2. CASE GuiForceClose \/ GuiRestart \/ RequestFullRefresh
  <2>1. CASE GuiForceClose
    BY <2>1 DEF GuiForceClose, CallForceClose
  <2>2. CASE GuiRestart
    BY <2>2 DEF GuiRestart, JoinAndRestart
  <2>3. CASE RequestFullRefresh
    BY <2>3 DEF RequestFullRefresh
  <2> QED
    BY <1>2, <2>1, <2>2, <2>3
<1>3. CASE WorkerNext
  <2>1. CASE Login
    BY <2>1 DEF Login, Fail
  <2>2. CASE Bootstrap
    BY <2>2 DEF Bootstrap, Fail
  <2>3. CASE OpenWebSocket
    BY <2>3 DEF OpenWebSocket, Fail
  <2>4. CASE PublishCloseRegistry
    BY <2>4 DEF PublishCloseRegistry
  <2>5. CASE CreateSession
    BY <2>5 DEF CreateSession
  <2>6. CASE PublishStopSession
    BY <2>6 DEF PublishStopSession
  <2>7. CASE InstallSinks
    BY <2>7 DEF InstallSinks
  <2>8. CASE RunStart
    BY <2>8 DEF RunStart, Handler
  <2>9. CASE IoReturns
    BY <2>9 DEF IoReturns
  <2>10. CASE RunStop
    BY <2>10 DEF RunStop, CloseNow
  <2>11. CASE Drain
    BY <2>11 DEF Drain, Handler
  <2>12. CASE DrainThrows
    BY <2>12 DEF DrainThrows, CloseNow
  <2>13. CASE ClearCallbacks
    BY <2>13 DEF ClearCallbacks
  <2>14. CASE Logout
    BY <2>14 DEF Logout
  <2>15. CASE Disconnect
    BY <2>15 DEF Disconnect
  <2>16. CASE CleanUp
    BY <2>16 DEF CleanUp
  <2>17. CASE DropForceClose /\ UNCHANGED netVars
    BY <2>17 DEF DropForceClose
  <2>18. CASE Finish /\ UNCHANGED netVars
    BY <2>18 DEF Finish
  <2> QED
    BY <1>3, <2>1, <2>2, <2>3, <2>4, <2>5, <2>6, <2>7, <2>8, <2>9, <2>10, <2>11, <2>12,
       <2>13, <2>14, <2>15, <2>16, <2>17, <2>18 DEF WorkerNext, WorkerRuns, BmcWaits
<1>4. CASE EventNext
  <2>1. CASE Handshake
    BY <2>1 DEF Handshake
  <2>2. CASE HandshakeFails
    BY <2>2 DEF HandshakeFails, Fail
  <2>3. CASE Read
    BY <2>3 DEF Read, Handler
  <2>4. CASE Written
    BY <2>4 DEF Written, Handler
  <2>5. CASE StreamEnds
    BY <2>5 DEF StreamEnds, CloseNow
  <2>6. CASE StreamFails
    BY <2>6 DEF StreamFails, CloseNow
  <2>7. CASE RunInput
    BY <2>7 DEF RunInput, Handler
  <2>8. CASE PowerPoll
    BY <2>8 DEF PowerPoll, Handler
  <2>9. CASE RequestTimer
    BY <2>9 DEF RequestTimer, Handler
  <2>10. CASE BmcAnswers
    BY <2>10 DEF BmcAnswers
  <2>11. CASE BmcSends
    BY <2>11 DEF BmcSends
  <2> QED
    BY <1>4, <2>1, <2>2, <2>3, <2>4, <2>5, <2>6, <2>7, <2>8, <2>9, <2>10, <2>11 DEF EventNext
<1>5. CASE Closed \/ UNCHANGED vars
  BY <1>5 DEF Closed, vars
<1> QED
  BY <1>1, <1>2, <1>3, <1>4, <1>5 DEF Next, GuiNext

\* What is queued, parsed and on its way keeps its type.
LEMMA ShapeStep ==
  ASSUME ShapeInv, [Next]_vars
  PROVE  ShapeInv'
<1> USE DEF Go, viewVars, netVars, sessionVars
<1>a. UNCHANGED <<parser, writing, writeQueue, asked, wire>> => ShapeInv'
  BY DEF ShapeInv
<1>b. /\ parser' = <<>> /\ writing' = "none" /\ writeQueue' = <<>> /\ asked' = 0
      /\ wire' = <<>>
      => ShapeInv'
  BY DEF ShapeInv
<1>1. CASE (Gui \/ JoinAndClose) /\ UNCHANGED netVars
  <2>1. CASE Poll
    BY <1>1, <2>1, <1>a, <1>b DEF Poll
  <2>2. CASE PressClose
    BY <1>1, <2>2, <1>a, <1>b DEF PressClose
  <2>3. CASE PressRetry
    BY <1>1, <2>3, <1>a, <1>b DEF PressRetry
  <2>4. CASE RequestStop
    BY <1>1, <2>4, <1>a, <1>b DEF RequestStop
  <2>5. CASE SnapshotForceClose
    BY <1>1, <2>5, <1>a, <1>b DEF SnapshotForceClose
  <2>6. CASE JoinAndClose
    BY <1>1, <2>6, <1>a, <1>b DEF JoinAndClose
  <2> QED
    BY <1>1, <2>1, <2>2, <2>3, <2>4, <2>5, <2>6 DEF Gui
<1>2. CASE GuiForceClose \/ GuiRestart \/ RequestFullRefresh
  <2>1. CASE GuiForceClose
    BY <2>1, <1>a, <1>b DEF GuiForceClose, CallForceClose
  <2>2. CASE GuiRestart
    BY <2>2, <1>a, <1>b DEF GuiRestart, JoinAndRestart
  <2>3. CASE RequestFullRefresh
    BY <2>3, <1>a, <1>b DEF RequestFullRefresh
  <2> QED
    BY <1>2, <2>1, <2>2, <2>3
<1>3. CASE WorkerNext
  <2>1. CASE Login
    BY <2>1, <1>a, <1>b DEF Login, Fail
  <2>2. CASE Bootstrap
    BY <2>2, <1>a, <1>b DEF Bootstrap, Fail
  <2>3. CASE OpenWebSocket
    BY <2>3, <1>a, <1>b DEF OpenWebSocket, Fail
  <2>4. CASE PublishCloseRegistry
    BY <2>4, <1>a, <1>b DEF PublishCloseRegistry
  <2>5. CASE CreateSession
    BY <2>5, <1>a, <1>b DEF CreateSession
  <2>6. CASE PublishStopSession
    BY <2>6, <1>a, <1>b DEF PublishStopSession
  <2>7. CASE InstallSinks
    BY <2>7, <1>a, <1>b DEF InstallSinks
  <2>8. CASE RunStart
    <3>1. /\ \/ QueueWrites(<<"request", "other">>)
             \/ UNCHANGED <<writing, writeQueue>>
          /\ parser' = parser \/ parser' \in {<<>>, <<"other">>}
          /\ UNCHANGED <<asked, wire>>
      BY <2>8 DEF RunStart
    <3>2. <<>> \in Seq(Messages) /\ <<"other">> \in Seq(Messages)
      BY DEF Messages
    <3> QED
      BY <3>1, <3>2, QueueWritesKeeps, PacketTypes DEF ShapeInv
  <2>9. CASE IoReturns
    BY <2>9, <1>a, <1>b DEF IoReturns
  <2>10. CASE RunStop
    BY <2>10, <1>a, <1>b DEF RunStop, CloseNow
  <2>11. CASE Drain
    <3>1. /\ parser' = parser \/ parser' = SubSeq(parser, Len(Batch) + 1, Len(parser))
          /\ UNCHANGED <<writing, writeQueue, asked, wire>>
      BY <2>11 DEF Drain, Rest
    <3>2. SubSeq(parser, Len(Batch) + 1, Len(parser)) \in Seq(Messages)
      BY BatchCut, CutTypes DEF ShapeInv
    <3> QED
      BY <3>1, <3>2 DEF ShapeInv
  <2>12. CASE DrainThrows
    BY <2>12, <1>a, <1>b DEF DrainThrows, CloseNow
  <2>13. CASE ClearCallbacks
    BY <2>13, <1>a, <1>b DEF ClearCallbacks
  <2>14. CASE Logout
    BY <2>14, <1>a, <1>b DEF Logout
  <2>15. CASE Disconnect
    BY <2>15, <1>a, <1>b DEF Disconnect
  <2>16. CASE CleanUp
    BY <2>16, <1>a, <1>b DEF CleanUp
  <2>17. CASE DropForceClose /\ UNCHANGED netVars
    BY <2>17, <1>a, <1>b DEF DropForceClose
  <2>18. CASE Finish /\ UNCHANGED netVars
    BY <2>18, <1>a, <1>b DEF Finish
  <2> QED
    BY <1>3, <2>1, <2>2, <2>3, <2>4, <2>5, <2>6, <2>7, <2>8, <2>9, <2>10, <2>11, <2>12,
       <2>13, <2>14, <2>15, <2>16, <2>17, <2>18 DEF WorkerNext, WorkerRuns, BmcWaits
<1>4. CASE EventNext
  <2>1. CASE Handshake
    BY <2>1, <1>a, <1>b DEF Handshake
  <2>2. CASE HandshakeFails
    BY <2>2, <1>a, <1>b DEF HandshakeFails, Fail
  <2>3. CASE Read
    <3>1. PICK n \in 1 .. Len(wire) :
            /\ parser' = parser \o SubSeq(wire, 1, n)
            /\ wire' = SubSeq(wire, n + 1, Len(wire))
      BY <2>3 DEF Read
    <3>2. n \in 0 .. Len(wire)
      BY LenProperties DEF ShapeInv
    <3>3. SubSeq(wire, 1, n) \in Seq(Messages) /\ SubSeq(wire, n + 1, Len(wire)) \in Seq(Messages)
      BY <3>2, CutTypes DEF ShapeInv
    <3>4. parser \o SubSeq(wire, 1, n) \in Seq(Messages)
      BY <3>3, ConcatProperties DEF ShapeInv
    <3> QED
      BY <2>3, <3>1, <3>3, <3>4 DEF Read, ShapeInv
  <2>4. CASE Written
    <3>1. /\ asked' \in Nat
          /\ UNCHANGED <<parser, wire>>
      BY <2>4 DEF Written, ShapeInv
    <3>2. \/ writing' = "none" /\ writeQueue' = writeQueue
          \/ writeQueue # <<>> /\ writing' = Head(writeQueue) /\ writeQueue' = Tail(writeQueue)
      BY <2>4 DEF Written
    <3> QED
      BY <3>1, <3>2, AsksPop DEF ShapeInv
  <2>5. CASE StreamEnds
    BY <2>5, <1>a, <1>b DEF StreamEnds, CloseNow
  <2>6. CASE StreamFails
    BY <2>6, <1>a, <1>b DEF StreamFails, CloseNow
  <2>7. CASE RunInput
    <3>1. QueueWrites(<<"other">>) /\ UNCHANGED <<parser, asked, wire>>
      BY <2>7 DEF RunInput
    <3> QED
      BY <3>1, QueueWritesKeeps, PacketTypes DEF ShapeInv
  <2>8. CASE PowerPoll
    <3>1. QueueWrites(<<"other">>) /\ UNCHANGED <<parser, asked, wire>>
      BY <2>8 DEF PowerPoll
    <3> QED
      BY <3>1, QueueWritesKeeps, PacketTypes DEF ShapeInv
  <2>9. CASE RequestTimer
    <3>1. /\ \/ QueueWrites(<<"request">>)
             \/ UNCHANGED <<writing, writeQueue>>
          /\ UNCHANGED <<parser, asked, wire>>
      BY <2>9 DEF RequestTimer
    <3> QED
      BY <3>1, QueueWritesKeeps, PacketTypes DEF ShapeInv
  <2>10. CASE BmcAnswers
    <3>1. PICK message \in Messages : wire' = Append(wire, message)
      BY <2>10 DEF BmcAnswers, Messages
    <3>2. wire' \in Seq(Messages)
      BY <3>1, AppendProperties DEF ShapeInv
    <3>3. asked' \in Nat /\ UNCHANGED <<parser, writing, writeQueue>>
      BY <2>10 DEF BmcAnswers, ShapeInv
    <3> QED
      BY <3>2, <3>3 DEF ShapeInv
  <2>11. CASE BmcSends
    <3>1. PICK message \in Messages : wire' = Append(wire, message)
      BY <2>11 DEF BmcSends, Messages
    <3>2. wire' \in Seq(Messages)
      BY <3>1, AppendProperties DEF ShapeInv
    <3>3. asked' \in Nat /\ UNCHANGED <<parser, writing, writeQueue>>
      BY <2>11 DEF BmcSends, ShapeInv
    <3> QED
      BY <3>2, <3>3 DEF ShapeInv
  <2> QED
    BY <1>4, <2>1, <2>2, <2>3, <2>4, <2>5, <2>6, <2>7, <2>8, <2>9, <2>10, <2>11 DEF EventNext
<1>5. CASE Closed \/ UNCHANGED vars
  BY <1>5, <1>a DEF Closed, vars
<1> QED
  BY <1>1, <1>2, <1>3, <1>4, <1>5 DEF Next, GuiNext

\* Only the dispatched handler of start() makes a session run, and io.run() returns without one.
LEMMA RunStep ==
  ASSUME RunInv, [Next]_vars
  PROVE  RunInv'
<1> USE DEF RunInv, Go, viewVars, netVars, sessionVars
<1>1. CASE (Gui \/ JoinAndClose) /\ UNCHANGED netVars
  <2>1. CASE Poll
    BY <1>1, <2>1 DEF Poll
  <2>2. CASE PressClose
    BY <1>1, <2>2 DEF PressClose
  <2>3. CASE PressRetry
    BY <1>1, <2>3 DEF PressRetry
  <2>4. CASE RequestStop
    BY <1>1, <2>4 DEF RequestStop
  <2>5. CASE SnapshotForceClose
    BY <1>1, <2>5 DEF SnapshotForceClose
  <2>6. CASE JoinAndClose
    BY <1>1, <2>6 DEF JoinAndClose
  <2> QED
    BY <1>1, <2>1, <2>2, <2>3, <2>4, <2>5, <2>6 DEF Gui
<1>2. CASE GuiForceClose \/ GuiRestart \/ RequestFullRefresh
  <2>1. CASE GuiForceClose
    BY <2>1 DEF GuiForceClose, CallForceClose
  <2>2. CASE GuiRestart
    BY <2>2 DEF GuiRestart, JoinAndRestart
  <2>3. CASE RequestFullRefresh
    BY <2>3 DEF RequestFullRefresh
  <2> QED
    BY <1>2, <2>1, <2>2, <2>3
<1>3. CASE WorkerNext
  <2>1. CASE Login
    BY <2>1 DEF Login, Fail
  <2>2. CASE Bootstrap
    BY <2>2 DEF Bootstrap, Fail
  <2>3. CASE OpenWebSocket
    BY <2>3 DEF OpenWebSocket, Fail
  <2>4. CASE PublishCloseRegistry
    BY <2>4 DEF PublishCloseRegistry
  <2>5. CASE CreateSession
    BY <2>5 DEF CreateSession
  <2>6. CASE PublishStopSession
    BY <2>6 DEF PublishStopSession
  <2>7. CASE InstallSinks
    BY <2>7 DEF InstallSinks
  <2>8. CASE RunStart
    BY <2>8 DEF RunStart, Handler
  <2>9. CASE IoReturns
    BY <2>9 DEF IoReturns
  <2>10. CASE RunStop
    BY <2>10 DEF RunStop, CloseNow
  <2>11. CASE Drain
    BY <2>11 DEF Drain, Handler
  <2>12. CASE DrainThrows
    BY <2>12 DEF DrainThrows, CloseNow
  <2>13. CASE ClearCallbacks
    BY <2>13 DEF ClearCallbacks
  <2>14. CASE Logout
    BY <2>14 DEF Logout
  <2>15. CASE Disconnect
    BY <2>15 DEF Disconnect
  <2>16. CASE CleanUp
    BY <2>16 DEF CleanUp
  <2>17. CASE DropForceClose /\ UNCHANGED netVars
    BY <2>17 DEF DropForceClose
  <2>18. CASE Finish /\ UNCHANGED netVars
    BY <2>18 DEF Finish
  <2> QED
    BY <1>3, <2>1, <2>2, <2>3, <2>4, <2>5, <2>6, <2>7, <2>8, <2>9, <2>10, <2>11, <2>12,
       <2>13, <2>14, <2>15, <2>16, <2>17, <2>18 DEF WorkerNext, WorkerRuns, BmcWaits
<1>4. CASE EventNext
  <2>1. CASE Handshake
    BY <2>1 DEF Handshake
  <2>2. CASE HandshakeFails
    BY <2>2 DEF HandshakeFails, Fail
  <2>3. CASE Read
    BY <2>3 DEF Read, Handler
  <2>4. CASE Written
    BY <2>4 DEF Written, Handler
  <2>5. CASE StreamEnds
    BY <2>5 DEF StreamEnds, CloseNow
  <2>6. CASE StreamFails
    BY <2>6 DEF StreamFails, CloseNow
  <2>7. CASE RunInput
    BY <2>7 DEF RunInput, Handler
  <2>8. CASE PowerPoll
    BY <2>8 DEF PowerPoll, Handler
  <2>9. CASE RequestTimer
    BY <2>9 DEF RequestTimer, Handler
  <2>10. CASE BmcAnswers
    BY <2>10 DEF BmcAnswers
  <2>11. CASE BmcSends
    BY <2>11 DEF BmcSends
  <2> QED
    BY <1>4, <2>1, <2>2, <2>3, <2>4, <2>5, <2>6, <2>7, <2>8, <2>9, <2>10, <2>11 DEF EventNext
<1>5. CASE Closed \/ UNCHANGED vars
  BY <1>5 DEF Closed, vars
<1> QED
  BY <1>1, <1>2, <1>3, <1>4, <1>5 DEF Next, GuiNext

\* Every handler that takes a link of the chain away puts the next one in its place.
LEMMA LoopStep ==
  ASSUME LoopInv, ShapeInv, RunInv, [Next]_vars
  PROVE  LoopInv'
<1> USE DEF Go, viewVars, netVars, sessionVars
<1>a. UNCHANGED <<session, stopRequested, requestPending, timerActive, parsePosted, parser,
                  writing, writeQueue, asked, wire>> => LoopInv'
  BY DEF LoopInv, UnderWay
<1>b. session' # "running" \/ stopRequested' => LoopInv'
  BY DEF LoopInv
<1>1. CASE (Gui \/ JoinAndClose) /\ UNCHANGED netVars
  <2>1. CASE Poll
    BY <1>1, <2>1, <1>a, <1>b DEF Poll, RunInv
  <2>2. CASE PressClose
    BY <1>1, <2>2, <1>a, <1>b DEF PressClose, RunInv
  <2>3. CASE PressRetry
    BY <1>1, <2>3, <1>a, <1>b DEF PressRetry, RunInv
  <2>4. CASE RequestStop
    BY <1>1, <2>4, <1>a, <1>b DEF RequestStop, RunInv
  <2>5. CASE SnapshotForceClose
    BY <1>1, <2>5, <1>a, <1>b DEF SnapshotForceClose, RunInv
  <2>6. CASE JoinAndClose
    BY <1>1, <2>6, <1>a, <1>b DEF JoinAndClose, RunInv
  <2> QED
    BY <1>1, <2>1, <2>2, <2>3, <2>4, <2>5, <2>6 DEF Gui
<1>2. CASE GuiForceClose \/ GuiRestart \/ RequestFullRefresh
  <2>1. CASE GuiForceClose
    BY <2>1, <1>a, <1>b DEF GuiForceClose, CallForceClose, RunInv
  <2>2. CASE GuiRestart
    BY <2>2, <1>a, <1>b DEF GuiRestart, JoinAndRestart, RunInv
  <2>3. CASE RequestFullRefresh
    BY <2>3, <1>a, <1>b DEF RequestFullRefresh, RunInv
  <2> QED
    BY <1>2, <2>1, <2>2, <2>3
<1>3. CASE WorkerNext
  <2>1. CASE Login
    BY <2>1, <1>a, <1>b DEF Login, Fail, RunInv
  <2>2. CASE Bootstrap
    BY <2>2, <1>a, <1>b DEF Bootstrap, Fail, RunInv
  <2>3. CASE OpenWebSocket
    BY <2>3, <1>a, <1>b DEF OpenWebSocket, Fail, RunInv
  <2>4. CASE PublishCloseRegistry
    BY <2>4, <1>a, <1>b DEF PublishCloseRegistry, RunInv
  <2>5. CASE CreateSession
    BY <2>5, <1>a, <1>b DEF CreateSession, RunInv
  <2>6. CASE PublishStopSession
    BY <2>6, <1>a, <1>b DEF PublishStopSession, RunInv
  <2>7. CASE InstallSinks
    BY <2>7, <1>a, <1>b DEF InstallSinks, RunInv
  <2>8. CASE RunStart
    <3>1. CASE stopRequested
      BY <2>8, <3>1, <1>b DEF RunStart
    <3>2. CASE ~stopRequested
      <4>1. QueueWrites(<<"request", "other">>) /\ parsePosted' = TRUE /\ requestPending' = TRUE
        BY <2>8, <3>2 DEF RunStart
      <4>2. writing' \in Packets /\ (writing' = "request" \/ Asks(writeQueue'))
        BY <4>1, QueueWritesKeeps, PacketTypes
      <4>3. UnderWay'
        BY <4>2 DEF UnderWay, Asks
      <4>4. writing' # "none"
        BY <4>2 DEF Packets
      <4> QED
        BY <4>1, <4>3, <4>4 DEF LoopInv
    <3> QED
      BY <3>1, <3>2
  <2>9. CASE IoReturns
    BY <2>9, <1>a, <1>b DEF IoReturns, RunInv
  <2>10. CASE RunStop
    BY <2>10, <1>a, <1>b DEF RunStop, CloseNow, RunInv
  <2>11. CASE Drain
    <3>1. CASE stopRequested
      BY <2>11, <3>1 DEF Drain, Handler, viewVars, LoopInv
    <3>2. CASE ~stopRequested /\ Updates # {}
      <4>1. /\ parser' = Rest /\ parsePosted' = (Len(Batch) = MaxDrain)
            /\ requestPending' = FALSE /\ timerActive' = TRUE
            /\ session = "running" /\ UNCHANGED <<writing, writeQueue>>
        BY <2>11, <3>2 DEF Drain
      <4>2. Rest # <<>> => Len(Batch) = MaxDrain
        BY LeftOver
      <4> QED
        BY <3>2, <4>1, <4>2 DEF LoopInv
    <3>3. CASE ~stopRequested /\ Updates = {}
      <4>1. /\ parser' = Rest /\ parsePosted' = (Len(Batch) = MaxDrain)
            /\ session = "running" /\ Handled = DOMAIN Batch
            /\ UNCHANGED <<writing, writeQueue, asked, wire>>
        BY <2>11, <3>3 DEF Drain
      <4>2. Rest # <<>> => Len(Batch) = MaxDrain
        BY LeftOver
      <4>3. Carries(parser) => Carries(Rest)
        <5>1. ~Carries(Batch)
          BY <3>3, <4>1 DEF Updates, Carries
        <5>2. Carries(parser) => Carries(SubSeq(parser, 1, Len(Batch))) \/ Carries(Rest)
          BY BatchCut, CarriesCut DEF ShapeInv, Rest
        <5> QED
          BY <5>1, <5>2, BatchCut
      <4>4. Carries(parser) => Carries(parser')
        BY <4>1, <4>3
      <4>5. UnderWay => UnderWay'
        BY <4>1, <4>4 DEF UnderWay, Carries
      <4>6. /\ requestPending' => requestPending
            /\ timerActive \/ requestPending => timerActive' \/ requestPending'
        BY <2>11, <3>3 DEF Drain
      <4> QED
        BY <3>3, <4>1, <4>2, <4>5, <4>6 DEF LoopInv
    <3> QED
      BY <3>1, <3>2, <3>3
  <2>12. CASE DrainThrows
    BY <2>12, <1>a, <1>b DEF DrainThrows, CloseNow, RunInv
  <2>13. CASE ClearCallbacks
    BY <2>13, <1>a, <1>b DEF ClearCallbacks, RunInv
  <2>14. CASE Logout
    BY <2>14, <1>a, <1>b DEF Logout, RunInv
  <2>15. CASE Disconnect
    BY <2>15, <1>a, <1>b DEF Disconnect, RunInv
  <2>16. CASE CleanUp
    BY <2>16, <1>a, <1>b DEF CleanUp, RunInv
  <2>17. CASE DropForceClose /\ UNCHANGED netVars
    BY <2>17, <1>a, <1>b DEF DropForceClose, RunInv
  <2>18. CASE Finish /\ UNCHANGED netVars
    BY <2>18, <1>a, <1>b DEF Finish, RunInv
  <2> QED
    BY <1>3, <2>1, <2>2, <2>3, <2>4, <2>5, <2>6, <2>7, <2>8, <2>9, <2>10, <2>11, <2>12,
       <2>13, <2>14, <2>15, <2>16, <2>17, <2>18 DEF WorkerNext, WorkerRuns, BmcWaits
<1>4. CASE EventNext
  <2>1. CASE Handshake
    BY <2>1, <1>a, <1>b DEF Handshake, RunInv
  <2>2. CASE HandshakeFails
    BY <2>2, <1>a, <1>b DEF HandshakeFails, Fail, RunInv
  <2>3. CASE Read
    <3>1. PICK n \in 1 .. Len(wire) :
            /\ parser' = parser \o SubSeq(wire, 1, n)
            /\ wire' = SubSeq(wire, n + 1, Len(wire))
      BY <2>3 DEF Read
    <3>2. /\ parsePosted' = TRUE
          /\ UNCHANGED <<session, stopRequested, timerActive, requestPending, writing,
                         writeQueue, asked>>
      BY <2>3 DEF Read, Handler, viewVars
    <3>3. n \in 0 .. Len(wire)
      BY LenProperties DEF ShapeInv
    <3>4. SubSeq(wire, 1, n) \in Seq(Messages)
      BY <3>3, CutTypes DEF ShapeInv
    <3>5. Carries(wire) => Carries(SubSeq(wire, 1, n)) \/ Carries(SubSeq(wire, n + 1, Len(wire)))
      BY <3>3, CarriesCut DEF ShapeInv
    <3>6. Carries(parser) \/ Carries(SubSeq(wire, 1, n)) => Carries(parser \o SubSeq(wire, 1, n))
      BY <3>4, CarriesConcat DEF ShapeInv
    <3>7. Carries(wire) \/ Carries(parser) => Carries(parser') \/ Carries(wire')
      BY <3>1, <3>5, <3>6
    <3>8. UnderWay => UnderWay'
      BY <3>2, <3>7 DEF UnderWay, Carries
    <3> QED
      BY <3>2, <3>8 DEF LoopInv
  <2>4. CASE Written
    <3>1. /\ writing # "none"
          /\ UNCHANGED <<session, stopRequested, timerActive, requestPending, parsePosted,
                         parser, wire>>
          /\ asked' = IF writing = "request" THEN asked + 1 ELSE asked
      BY <2>4 DEF Written, Handler, viewVars
    <3>2. /\ writing = "request" \/ asked > 0 => asked' > 0
          /\ asked \in Nat
      BY <3>1 DEF ShapeInv
    <3>3. CASE writeQueue = <<>>
      <4>1. writeQueue' = <<>>
        BY <2>4, <3>3 DEF Written
      <4>2. ~Asks(writeQueue)
        BY <3>3 DEF Asks
      <4>3. UnderWay => UnderWay'
        BY <3>1, <3>2, <4>2 DEF UnderWay, Asks
      <4> QED
        BY <3>1, <4>1, <4>3 DEF LoopInv
    <3>4. CASE writeQueue # <<>>
      <4>1. writing' = Head(writeQueue) /\ writeQueue' = Tail(writeQueue)
        BY <2>4, <3>4 DEF Written
      <4>2. /\ Head(writeQueue) \in Packets
            /\ Asks(writeQueue) => Head(writeQueue) = "request" \/ Asks(Tail(writeQueue))
        BY <3>4, AsksPop DEF ShapeInv
      <4>3. Asks(writeQueue) => writing' = "request" \/ Asks(writeQueue')
        BY <4>1, <4>2
      <4>4. UnderWay => UnderWay'
        BY <3>1, <3>2, <4>3 DEF UnderWay, Asks
      <4>5. writing' # "none"
        BY <4>1, <4>2 DEF Packets
      <4> QED
        BY <3>1, <4>4, <4>5 DEF LoopInv
    <3> QED
      BY <3>3, <3>4
  <2>5. CASE StreamEnds
    BY <2>5, <1>a, <1>b DEF StreamEnds, CloseNow, RunInv
  <2>6. CASE StreamFails
    BY <2>6, <1>a, <1>b DEF StreamFails, CloseNow, RunInv
  <2>7. CASE RunInput
    <3>1. /\ QueueWrites(<<"other">>)
          /\ UNCHANGED <<session, stopRequested, timerActive, requestPending, parsePosted,
                         parser, asked, wire>>
      BY <2>7 DEF RunInput, Handler, viewVars
    <3>2. /\ writing' \in Packets
          /\ writing = "request" \/ Asks(writeQueue) => writing' = "request" \/ Asks(writeQueue')
      BY <3>1, QueueWritesKeeps, PacketTypes
    <3>3. UnderWay => UnderWay'
      BY <3>1, <3>2 DEF UnderWay, Asks
    <3>4. writing' # "none"
      BY <3>2 DEF Packets
    <3> QED
      BY <3>1, <3>3, <3>4 DEF LoopInv
  <2>8. CASE PowerPoll
    <3>1. /\ QueueWrites(<<"other">>)
          /\ UNCHANGED <<session, stopRequested, timerActive, requestPending, parsePosted,
                         parser, asked, wire>>
      BY <2>8 DEF PowerPoll, Handler, viewVars
    <3>2. /\ writing' \in Packets
          /\ writing = "request" \/ Asks(writeQueue) => writing' = "request" \/ Asks(writeQueue')
      BY <3>1, QueueWritesKeeps, PacketTypes
    <3>3. UnderWay => UnderWay'
      BY <3>1, <3>2 DEF UnderWay, Asks
    <3>4. writing' # "none"
      BY <3>2 DEF Packets
    <3> QED
      BY <3>1, <3>3, <3>4 DEF LoopInv
  <2>9. CASE RequestTimer
    <3>1. CASE stopRequested
      BY <2>9, <3>1 DEF RequestTimer, Handler, viewVars, LoopInv
    <3>2. CASE ~stopRequested /\ requestPending
      <4>1. UNCHANGED <<session, stopRequested, requestPending, parsePosted, parser, writing,
                        writeQueue, asked, wire>>
        BY <2>9, <3>2 DEF RequestTimer, Handler, viewVars
      <4>2. UnderWay' = UnderWay
        BY <4>1 DEF UnderWay
      <4>3. session = "running"
        BY <2>9 DEF RequestTimer
      <4> QED
        BY <3>2, <4>1, <4>2, <4>3 DEF LoopInv
    <3>3. CASE ~stopRequested /\ ~requestPending
      <4>1. /\ QueueWrites(<<"request">>) /\ requestPending' = TRUE
            /\ session = "running" /\ UNCHANGED <<parsePosted, parser>>
        BY <2>9, <3>3 DEF RequestTimer
      <4>2. writing' \in Packets /\ (writing' = "request" \/ Asks(writeQueue'))
        BY <4>1, QueueWritesKeeps, PacketTypes
      <4>3. UnderWay'
        BY <4>2 DEF UnderWay, Asks
      <4>4. writing' # "none"
        BY <4>2 DEF Packets
      <4> QED
        BY <3>3, <4>1, <4>3, <4>4 DEF LoopInv
    <3> QED
      BY <3>1, <3>2, <3>3
  <2>10. CASE BmcAnswers
    <3>1. PICK message \in {"update", "blank"} : wire' = Append(wire, message)
      BY <2>10 DEF BmcAnswers
    <3>2. UNCHANGED <<session, stopRequested, timerActive, requestPending, parsePosted, parser,
                     writing, writeQueue>>
      BY <2>10 DEF BmcAnswers, viewVars
    <3>3. Carries(wire')
      BY <3>1, CarriesAppend DEF ShapeInv, Messages
    <3>4. UnderWay'
      BY <3>3 DEF UnderWay, Carries
    <3> QED
      BY <3>2, <3>4 DEF LoopInv
  <2>11. CASE BmcSends
    <3>1. PICK message \in Messages : wire' = Append(wire, message)
      BY <2>11 DEF BmcSends
    <3>2. UNCHANGED <<session, stopRequested, timerActive, requestPending, parsePosted, parser,
                     writing, writeQueue, asked>>
      BY <2>11 DEF BmcSends, viewVars
    <3>3. Carries(wire) => Carries(wire')
      BY <3>1, CarriesAppend DEF ShapeInv
    <3>4. UnderWay => UnderWay'
      BY <3>2, <3>3 DEF UnderWay, Carries
    <3> QED
      BY <3>2, <3>4 DEF LoopInv
  <2> QED
    BY <1>4, <2>1, <2>2, <2>3, <2>4, <2>5, <2>6, <2>7, <2>8, <2>9, <2>10, <2>11 DEF EventNext
<1>5. CASE Closed \/ UNCHANGED vars
  BY <1>5, <1>a DEF Closed, vars
<1> QED
  BY <1>1, <1>2, <1>3, <1>4, <1>5 DEF Next, GuiNext

-----------------------------------------------------------------------------
\* The invariant holds at the start, and every step keeps it.
LEMMA InvInit == Init => IInv
<1> SUFFICES ASSUME Init
             PROVE  IInv
  OBVIOUS
<1> USE DEF Init, ViewInit
<1>1. ViewShape /\ GuiInv /\ ConnectedInv
  BY DEF ViewShape, GuiInv, ConnectedInv, GuiSteps, Stopping
<1>2. ShapeInv
  BY DEF ShapeInv
<1>3. RunInv /\ LoopInv
  BY DEF RunInv, LoopInv
<1> QED
  BY <1>1, <1>2, <1>3 DEF IInv

\* Every step keeps the whole of it.
LEMMA InvStep == IInv /\ [Next]_vars => IInv'
BY ViewShapeStep, GuiStep, ConnectedStep, ShapeStep, RunStep, LoopStep DEF IInv

\* So it holds in every state.
LEMMA Invariant == Spec => []IInv
BY InvInit, InvStep, PTL DEF Spec

-----------------------------------------------------------------------------
\* A session that nobody has stopped always has its next update coming, a drain for what
\* it has read and a write for what it has queued, in whatever order the reads, the
\* writes, the timer and the input come, and whatever the BMC sends unasked
\* (AtenNetworkRfbSession: do_parse_receive_buffer(), the request timer, start_write()).
THEOREM LoopCorrect == Spec => []LoopIsAlive
<1>1. IInv => LoopIsAlive
  BY DEF IInv, LoopInv, LoopIsAlive
<1> QED
  BY <1>1, Invariant, PTL

-----------------------------------------------------------------------------
\* The lifecycle looks at five variables of the view only.
LEMMA PhaseStutters ==
  ASSUME UNCHANGED <<gui, reconnecting, sessionEnded, error, connected>>
  PROVE  UNCHANGED Lifecycle!vars
BY DEF Lifecycle!vars, Phase

\* Before the network thread has exited, the window is running or closing.
LEMMA PhaseOfLiveThread ==
  ASSUME IInv, worker # "exited"
  PROVE  Phase \in {"running", "closing"}
BY DEF IInv, ViewShape, GuiSteps, GuiInv, Stopping, Phase

\* kvm_connection() and ~ConnectionStatusGuard are the link going up and down.
LEMMA LinkStep ==
  ASSUME IInv, worker # "exited", connected' \in BOOLEAN,
         UNCHANGED <<gui, reconnecting, sessionEnded, error>>
  PROVE  [Lifecycle!Next]_(Lifecycle!vars)
<1>1. Phase' = Phase /\ (error # 0)' = (error # 0)
  BY DEF Phase
<1>2. CASE connected' = connected
  BY <1>2, PhaseStutters
<1>3. CASE connected' # connected
  <2>1. connected' = ~connected
    BY <1>3, Zenon DEF IInv, ViewShape
  <2> QED
    BY <1>1, <2>1, PhaseOfLiveThread DEF Lifecycle!Next, Lifecycle!Link
<1> QED
  BY <1>2, <1>3

\* The lifecycle starts where the view does.
LEMMA LifecycleInit == Init => Lifecycle!Init
BY DEF Init, ViewInit, Lifecycle!Init, Phase

\* Every step of the two threads is one of the lifecycle or changes nothing of it.
LEMMA LifecycleStep ==
  ASSUME IInv, [Next]_vars
  PROVE  [Lifecycle!Next]_(Lifecycle!vars)
<1>1. CASE Poll
  <2>1. Phase = "running" /\ Phase' = "ended" /\ UNCHANGED connected
    BY <1>1 DEF Poll, Phase
  <2>2. ~connected
    BY <1>1 DEF Poll, IInv, GuiInv, ConnectedInv
  <2> QED
    BY <2>1, <2>2 DEF Lifecycle!Next, Lifecycle!End
<1>2. CASE PressClose
  BY <1>2 DEF PressClose, Phase, Lifecycle!Next, Lifecycle!Close
<1>3. CASE PressRetry
  BY <1>3 DEF PressRetry, Phase, Lifecycle!vars
<1>4. CASE RequestStop \/ SnapshotForceClose \/ GuiForceClose
  <2>1. /\ gui \in Stopping /\ gui' \in Stopping
        /\ UNCHANGED <<reconnecting, sessionEnded, error, connected>>
    BY <1>4 DEF RequestStop, SnapshotForceClose, GuiForceClose, CallForceClose, Stopping
  <2> QED
    BY <2>1 DEF Stopping, Phase, Lifecycle!vars
<1>5. CASE JoinAndClose
  <2>1. ~connected
    BY <1>5 DEF JoinAndClose, IInv, ConnectedInv
  <2> QED
    BY <1>5, <2>1 DEF JoinAndClose, Phase, Lifecycle!Next, Lifecycle!Closed
<1>6. CASE GuiRestart
  <2>1. connected = FALSE
    BY <1>6, Zenon DEF GuiRestart, JoinAndRestart, IInv, ConnectedInv, ViewShape
  <2>2. Phase = "ended" /\ Phase' = "running"
    BY <1>6 DEF GuiRestart, JoinAndRestart, Phase
  <2> QED
    BY <1>6, <2>1, <2>2 DEF GuiRestart, JoinAndRestart, Lifecycle!Next, Lifecycle!Retry
<1>7. CASE WorkerNext \/ Handshake \/ HandshakeFails \/ StreamEnds \/ StreamFails
  <2>1. worker # "exited" /\ UNCHANGED <<gui, reconnecting, sessionEnded, error>>
    BY <1>7 DEF WorkerNext, WorkerRuns, BmcWaits, Go, Fail, Login, Bootstrap, OpenWebSocket,
                PublishCloseRegistry, Handshake, HandshakeFails, CreateSession,
                PublishStopSession, InstallSinks, Handler, CloseNow, RunStart, IoReturns,
                RunStop, StreamEnds, StreamFails, Drain, DrainThrows, ClearCallbacks,
                Logout, Disconnect, CleanUp, DropForceClose, Finish, viewVars
  <2>2. connected' \in BOOLEAN
    BY ViewShapeStep DEF IInv, ViewShape
  <2> QED
    BY <2>1, <2>2, LinkStep
<1>8. CASE \/ Read \/ Written \/ RunInput \/ PowerPoll \/ RequestTimer
           \/ BmcAnswers \/ BmcSends \/ RequestFullRefresh \/ Closed \/ UNCHANGED vars
  <2>1. UNCHANGED viewVars
    BY <1>8 DEF Read, Written, RunInput, PowerPoll, RequestTimer, Handler, BmcAnswers,
                BmcSends, RequestFullRefresh, Closed, vars
  <2> QED
    BY <2>1, PhaseStutters DEF viewVars
<1> QED
  BY <1>1, <1>2, <1>3, <1>4, <1>5, <1>6, <1>7, <1>8 DEF Next, GuiNext, EventNext, Gui

\* Every behaviour of an ATEN viewer is a lifecycle of SessionLifecycle.
THEOREM Refinement == Spec => ImplementsLifecycle
<1>1. IInv /\ [Next]_vars => [Lifecycle!Next]_(Lifecycle!vars)
  BY LifecycleStep
<1> QED
  BY <1>1, LifecycleInit, Invariant, PTL DEF Spec, ImplementsLifecycle, Lifecycle!Spec

=============================================================================
