-------------------------- MODULE PikvmNetworkProofs --------------------------
(***************************************************************************)
(* Proofs about PikvmNetwork, for any number of runs and of input events.  *)
(* The four threads are followed by what their program counters imply of   *)
(* what each of them owns, and an input by its number through the strand,  *)
(* the write queue and the websocket.                                      *)
(*                                                                         *)
(* And, at the end, about PikvmVideo: a session leaves nothing behind in   *)
(* the five places where a frame can be, and what the decoder is fed has   *)
(* no gap but before a key frame.                                          *)
(***************************************************************************)
EXTENDS PikvmNetwork, PikvmVideo, SequenceTheorems, TLAPS

Ended(c) == thread[c] \in {"none", "ended"}

\* The way out of the network thread, after its last join.
Out == {"clear", "logout", "cleanup", "dropForceClose", "finish", "exited"}

\* What is a function of the channels, or of the callers of stop_all(), stays one.
ShapeInv ==
  /\ socket \in [Channels -> {"none", "open", "closed"}]
  /\ thread \in [Channels -> {"none", "start", "publish", "install", "running", "stopAll",
                              "ended"}]
  /\ handles \subseteq Channels
  /\ calls \in [Callers -> SUBSET Channels]

\* The network thread has not spawned a thread yet, waits for it, or has joined it.
ThreadInv ==
  /\ worker \in {"start", "probe", "check", "publish", "power", "checkControl", "openControl",
                 "setControl", "checkVideo", "openVideo", "setVideo", "spawnControl"} =>
       thread["control"] = "none"
  /\ worker \in {"start", "probe", "check", "publish", "power", "checkControl", "openControl",
                 "setControl", "checkVideo", "openVideo", "setVideo", "spawnControl",
                 "spawnVideo", "catch", "rethrow"} =>
       thread["video"] = "none"
  /\ worker \in Out \cup {"joinVideo"} => Ended("control")
  /\ worker \in Out => Ended("video")
  /\ thread["video"] \notin {"publish", "install"}

\* A thread calls handles on the last stretch of its way, and does not leave before it has.
CallsInv ==
  /\ \A c \in Channels : calls[c] # {} => thread[c] = "stopAll"
  /\ calls["net"] # {} => worker = "rethrow"

\* What is left of a session at each step of the network thread.
QuietInv ==
  /\ done => worker = "exited"
  /\ sessionEnded => done
  /\ connected => thread["control"] \in {"publish", "install", "running", "stopAll"}
  /\ worker \in {"start", "cleanup", "dropForceClose", "finish", "exited"} =>
       ~web /\ \A c \in Channels : socket[c] = "none"
  /\ worker \in {"probe", "check", "publish", "power", "checkControl", "openControl"} =>
       \A c \in Channels : socket[c] = "none"
  /\ worker \in {"dropForceClose", "finish", "exited"} => ~inputSink /\ ~powerSink
  /\ worker \in {"finish", "exited"} => forceClose = Empty

\* The event session lives while its thread runs the loop, and has nothing in it before and
\* after that.
SessionInv ==
  /\ session \in {"none", "started", "published", "closed", "drained"}
  /\ thread["control"] \in {"none", "start"} => session = "none"
  /\ thread["control"] = "publish" => session = "started"
  /\ thread["control"] \in {"install", "running"} => session = "published"
  /\ thread["control"] = "stopAll" => session \in {"closed", "drained"}
  /\ thread["control"] = "ended" => session \in {"none", "closed", "drained"}
  /\ session \in {"none", "started"} =>
       ~inputSink /\ inputs = 0 /\ promised = NotAsked /\ onWire = <<>>
  /\ session # "published" => posted = <<>> /\ writeQueue = <<>> /\ ~stopping

Events == 0 .. MaxInputs

\* The inputs that are to be written: those that came before the first stop.
Due == IF promised = NotAsked THEN inputs ELSE promised

\* How many of them are still on the strand.
OnStrand == Due - Len(onWire) - Len(writeQueue)

\* The inputs are on the wire, in the queue and on the strand, each once and in the order
\* they came in.  The first stop is behind those that came before it.
QueueInv ==
  /\ posted \in Seq(Events) /\ writeQueue \in Seq(Events) /\ onWire \in Seq(Events)
  /\ inputs \in Events
  /\ promised \in Events \cup {NotAsked}
  /\ \A i \in 1 .. Len(onWire) : onWire[i] = i
  /\ session = "published" =>
       /\ \A i \in 1 .. Len(writeQueue) : writeQueue[i] = Len(onWire) + i
       /\ stopping => OnStrand = 0 /\ writeQueue # <<>> /\ promised # NotAsked
       /\ ~stopping =>
            /\ OnStrand \in 0 .. Len(posted)
            /\ \A i \in 1 .. OnStrand : posted[i] = Len(onWire) + Len(writeQueue) + i
            /\ IF promised = NotAsked
               THEN OnStrand = Len(posted)
               ELSE OnStrand < Len(posted) /\ posted[OnStrand + 1] = StopHandler
  /\ session = "drained" => promised = Len(onWire)

IInv == ShapeInv /\ ThreadInv /\ CallsInv /\ QuietInv /\ SessionInv /\ QueueInv

-----------------------------------------------------------------------------
\* Nothing happens to the inputs in a step that leaves these variables alone.
LEMMA QueueFrame ==
  ASSUME QueueInv, UNCHANGED <<posted, writeQueue, onWire, inputs, promised, stopping, session>>
  PROVE  QueueInv'
BY DEF QueueInv, OnStrand, Due

\* The maps stay maps of the channels and of the callers.
LEMMA ShapeStep ==
  ASSUME ShapeInv, [Next]_vars
  PROVE  ShapeInv'
<1> USE DEF ShapeInv, Go, Thread, viewVars, netVars,
           channelVars, sinkVars, sessionVars
<1>1. CASE Gui /\ UNCHANGED netVars
  <2>1. CASE Poll
    BY <1>1, <2>1 DEF Poll
  <2>2. CASE PressClose
    BY <1>1, <2>2 DEF PressClose
  <2>3. CASE PressRetry
    BY <1>1, <2>3 DEF PressRetry
  <2>4. CASE RequestStop
    BY <1>1, <2>4 DEF RequestStop
  <2>5. CASE SnapshotForceClose
    BY <1>1, <2>5 DEF SnapshotForceClose
  <2> QED
    BY <1>1, <2>1, <2>2, <2>3, <2>4, <2>5 DEF Gui
<1>2. CASE GuiForceClose \/ GuiClose \/ GuiRestart \/ Input
  <2>1. CASE GuiForceClose
    BY <2>1 DEF GuiForceClose, CallForceClose
  <2>2. CASE GuiClose
    BY <2>2 DEF GuiClose, JoinAndClose
  <2>3. CASE GuiRestart
    BY <2>3 DEF GuiRestart, JoinAndRestart
  <2>4. CASE Input
    BY <2>4 DEF Input
  <2> QED
    BY <1>2, <2>1, <2>2, <2>3, <2>4
<1>3. CASE WorkerNext
  <2>1. CASE Login
    BY <2>1 DEF Login
  <2>2. CASE Probe
    BY <2>2 DEF Probe
  <2>3. CASE CheckStops
    BY <2>3 DEF CheckStops, CheckStop
  <2>4. CASE PublishRequestStop
    BY <2>4 DEF PublishRequestStop
  <2>5. CASE InstallPower
    BY <2>5 DEF InstallPower
  <2>6. CASE OpenWebsockets \/ StartChannels
    <3>1. CASE OpenWebsocket("control", "openControl", "setControl")
      BY <3>1 DEF OpenWebsocket, Channels
    <3>2. CASE SetHandle("control", "setControl", "checkVideo")
      BY <3>2 DEF SetHandle, Channels
    <3>3. CASE OpenWebsocket("video", "openVideo", "setVideo")
      BY <3>3 DEF OpenWebsocket, Channels
    <3>4. CASE SetHandle("video", "setVideo", "spawnControl")
      BY <3>4 DEF SetHandle, Channels
    <3>5. CASE Spawn("control", "spawnControl", "spawnVideo")
      BY <3>5 DEF Spawn, Channels
    <3>6. CASE Spawn("video", "spawnVideo", "joinControl")
      BY <3>6 DEF Spawn, Channels
    <3>7. CASE SpawnFails
      BY <3>7 DEF SpawnFails
    <3> QED
      BY <2>6, <3>1, <3>2, <3>3, <3>4, <3>5, <3>6, <3>7 DEF OpenWebsockets, StartChannels
  <2>7. CASE Join("control", "joinControl", "joinVideo")
    BY <2>7 DEF Join
  <2>8. CASE Join("video", "joinVideo", "clear")
    BY <2>8 DEF Join
  <2>9. CASE CatchStop
    BY <2>9 DEF CatchStop
  <2>10. CASE CatchJoin
    BY <2>10 DEF CatchJoin, Join
  <2>11. CASE ClearCallbacks
    BY <2>11 DEF ClearCallbacks
  <2>12. CASE Logout
    BY <2>12 DEF Logout
  <2>13. CASE CleanUp
    BY <2>13 DEF CleanUp
  <2>14. CASE DropForceClose /\ UNCHANGED netVars
    BY <2>14 DEF DropForceClose
  <2>15. CASE Finish /\ UNCHANGED netVars
    BY <2>15 DEF Finish
  <2> QED
    BY <1>3, <2>1, <2>2, <2>3, <2>4, <2>5, <2>6, <2>7, <2>8, <2>9, <2>10, <2>11, <2>12,
       <2>13, <2>14, <2>15 DEF WorkerNext, WorkerRuns, BmcAnswers
<1>4. CASE ControlNext
  <2>1. CASE StartControl
    BY <2>1 DEF StartControl, Closed
  <2>2. CASE PublishSession
    BY <2>2 DEF PublishSession
  <2>3. CASE InstallInput
    BY <2>3 DEF InstallInput
  <2>4. CASE EnqueueInput
    BY <2>4 DEF EnqueueInput, Handler
  <2>5. CASE StopPosted
    BY <2>5 DEF StopPosted, Handler, ForceCloseNow, Closed
  <2>6. CASE ControlReturns
    BY <2>6 DEF ControlReturns
  <2> QED
    BY <1>4, <2>1, <2>2, <2>3, <2>4, <2>5, <2>6 DEF ControlNext
<1>5. CASE VideoNext
  <2>1. CASE StartVideo
    BY <2>1 DEF StartVideo, Closed
  <2>2. CASE VideoReturns
    BY <2>2 DEF VideoReturns
  <2> QED
    BY <1>5, <2>1, <2>2 DEF VideoNext
<1>6. CASE SocketNext \/ GraceOver
  <2>1. CASE Written
    BY <2>1 DEF Written, Handler, ForceCloseNow, Closed
  <2>2. CASE ControlFails
    BY <2>2 DEF ControlFails, Report, OnError, ForceCloseNow, Closed
  <2>3. CASE VideoEnds
    BY <2>3 DEF VideoEnds, Report, OnError
  <2>4. CASE GraceOver
    BY <2>4 DEF GraceOver, ForceCloseNow, Closed
  <2> QED
    BY <1>6, <2>1, <2>2, <2>3, <2>4 DEF SocketNext
<1>7. CASE \E t \in Callers : CallHandle(t)
  BY <1>7 DEF CallHandle, Closed
<1>8. CASE WindowClosed \/ UNCHANGED vars
  BY <1>8 DEF WindowClosed, vars
<1> QED
  BY <1>1, <1>2, <1>3, <1>4, <1>5, <1>6, <1>7, <1>8 DEF Next, GuiNext

\* The network thread joins what it has spawned.
LEMMA ThreadStep ==
  ASSUME ThreadInv, ShapeInv, [Next]_vars
  PROVE  ThreadInv'
<1> USE DEF ThreadInv, ShapeInv, Ended, Out, Channels, Go, Thread, viewVars, netVars,
           channelVars, sinkVars, sessionVars
<1>1. CASE Gui /\ UNCHANGED netVars
  <2>1. CASE Poll
    BY <1>1, <2>1 DEF Poll
  <2>2. CASE PressClose
    BY <1>1, <2>2 DEF PressClose
  <2>3. CASE PressRetry
    BY <1>1, <2>3 DEF PressRetry
  <2>4. CASE RequestStop
    BY <1>1, <2>4 DEF RequestStop
  <2>5. CASE SnapshotForceClose
    BY <1>1, <2>5 DEF SnapshotForceClose
  <2> QED
    BY <1>1, <2>1, <2>2, <2>3, <2>4, <2>5 DEF Gui
<1>2. CASE GuiForceClose \/ GuiClose \/ GuiRestart \/ Input
  <2>1. CASE GuiForceClose
    BY <2>1 DEF GuiForceClose, CallForceClose
  <2>2. CASE GuiClose
    BY <2>2 DEF GuiClose, JoinAndClose
  <2>3. CASE GuiRestart
    BY <2>3 DEF GuiRestart, JoinAndRestart
  <2>4. CASE Input
    BY <2>4 DEF Input
  <2> QED
    BY <1>2, <2>1, <2>2, <2>3, <2>4
<1>3. CASE WorkerNext
  <2>1. CASE Login
    BY <2>1 DEF Login
  <2>2. CASE Probe
    BY <2>2 DEF Probe
  <2>3. CASE CheckStops
    BY <2>3 DEF CheckStops, CheckStop
  <2>4. CASE PublishRequestStop
    BY <2>4 DEF PublishRequestStop
  <2>5. CASE InstallPower
    BY <2>5 DEF InstallPower
  <2>6. CASE OpenWebsockets \/ StartChannels
    BY <2>6 DEF OpenWebsockets, StartChannels, OpenWebsocket, SetHandle, Spawn,
          SpawnFails
  <2>7. CASE Join("control", "joinControl", "joinVideo")
    BY <2>7 DEF Join
  <2>8. CASE Join("video", "joinVideo", "clear")
    BY <2>8 DEF Join
  <2>9. CASE CatchStop
    BY <2>9 DEF CatchStop
  <2>10. CASE CatchJoin
    BY <2>10 DEF CatchJoin, Join
  <2>11. CASE ClearCallbacks
    BY <2>11 DEF ClearCallbacks
  <2>12. CASE Logout
    BY <2>12 DEF Logout
  <2>13. CASE CleanUp
    BY <2>13 DEF CleanUp
  <2>14. CASE DropForceClose /\ UNCHANGED netVars
    BY <2>14 DEF DropForceClose
  <2>15. CASE Finish /\ UNCHANGED netVars
    BY <2>15 DEF Finish
  <2> QED
    BY <1>3, <2>1, <2>2, <2>3, <2>4, <2>5, <2>6, <2>7, <2>8, <2>9, <2>10, <2>11, <2>12,
       <2>13, <2>14, <2>15 DEF WorkerNext, WorkerRuns, BmcAnswers
<1>4. CASE ControlNext
  <2>1. CASE StartControl
    BY <2>1 DEF StartControl, Closed
  <2>2. CASE PublishSession
    BY <2>2 DEF PublishSession
  <2>3. CASE InstallInput
    BY <2>3 DEF InstallInput
  <2>4. CASE EnqueueInput
    BY <2>4 DEF EnqueueInput, Handler
  <2>5. CASE StopPosted
    BY <2>5 DEF StopPosted, Handler, ForceCloseNow, Closed
  <2>6. CASE ControlReturns
    BY <2>6 DEF ControlReturns
  <2> QED
    BY <1>4, <2>1, <2>2, <2>3, <2>4, <2>5, <2>6 DEF ControlNext
<1>5. CASE VideoNext
  <2>1. CASE StartVideo
    BY <2>1 DEF StartVideo, Closed
  <2>2. CASE VideoReturns
    BY <2>2 DEF VideoReturns
  <2> QED
    BY <1>5, <2>1, <2>2 DEF VideoNext
<1>6. CASE SocketNext \/ GraceOver
  <2>1. CASE Written
    BY <2>1 DEF Written, Handler, ForceCloseNow, Closed
  <2>2. CASE ControlFails
    BY <2>2 DEF ControlFails, Report, OnError, ForceCloseNow, Closed
  <2>3. CASE VideoEnds
    BY <2>3 DEF VideoEnds, Report, OnError
  <2>4. CASE GraceOver
    BY <2>4 DEF GraceOver, ForceCloseNow, Closed
  <2> QED
    BY <1>6, <2>1, <2>2, <2>3, <2>4 DEF SocketNext
<1>7. CASE \E t \in Callers : CallHandle(t)
  BY <1>7 DEF CallHandle, Closed
<1>8. CASE WindowClosed \/ UNCHANGED vars
  BY <1>8 DEF WindowClosed, vars
<1> QED
  BY <1>1, <1>2, <1>3, <1>4, <1>5, <1>6, <1>7, <1>8 DEF Next, GuiNext

\* A thread that has handles to call is on its way out, and stays until it has called them.
LEMMA CallsStep ==
  ASSUME CallsInv, ThreadInv, ShapeInv, [Next]_vars
  PROVE  CallsInv'
<1> USE DEF CallsInv, ThreadInv, ShapeInv, Ended, Out, Channels, Callers, Go, Thread, viewVars,
        netVars,
           channelVars, sinkVars, sessionVars
<1>1. CASE Gui /\ UNCHANGED netVars
  <2>1. CASE Poll
    BY <1>1, <2>1 DEF Poll
  <2>2. CASE PressClose
    BY <1>1, <2>2 DEF PressClose
  <2>3. CASE PressRetry
    BY <1>1, <2>3 DEF PressRetry
  <2>4. CASE RequestStop
    BY <1>1, <2>4 DEF RequestStop
  <2>5. CASE SnapshotForceClose
    BY <1>1, <2>5 DEF SnapshotForceClose
  <2> QED
    BY <1>1, <2>1, <2>2, <2>3, <2>4, <2>5 DEF Gui
<1>2. CASE GuiForceClose \/ GuiClose \/ GuiRestart \/ Input
  <2>1. CASE GuiForceClose
    BY <2>1 DEF GuiForceClose, CallForceClose
  <2>2. CASE GuiClose
    BY <2>2 DEF GuiClose, JoinAndClose
  <2>3. CASE GuiRestart
    BY <2>3 DEF GuiRestart, JoinAndRestart
  <2>4. CASE Input
    BY <2>4 DEF Input
  <2> QED
    BY <1>2, <2>1, <2>2, <2>3, <2>4
<1>3. CASE WorkerNext
  <2>1. CASE Login
    BY <2>1 DEF Login
  <2>2. CASE Probe
    BY <2>2 DEF Probe
  <2>3. CASE CheckStops
    BY <2>3 DEF CheckStops, CheckStop
  <2>4. CASE PublishRequestStop
    BY <2>4 DEF PublishRequestStop
  <2>5. CASE InstallPower
    BY <2>5 DEF InstallPower
  <2>6. CASE OpenWebsockets \/ StartChannels
    BY <2>6 DEF OpenWebsockets, StartChannels, OpenWebsocket, SetHandle, Spawn,
          SpawnFails
  <2>7. CASE Join("control", "joinControl", "joinVideo")
    BY <2>7 DEF Join
  <2>8. CASE Join("video", "joinVideo", "clear")
    BY <2>8 DEF Join
  <2>9. CASE CatchStop
    BY <2>9 DEF CatchStop
  <2>10. CASE CatchJoin
    BY <2>10 DEF CatchJoin, Join
  <2>11. CASE ClearCallbacks
    BY <2>11 DEF ClearCallbacks
  <2>12. CASE Logout
    BY <2>12 DEF Logout
  <2>13. CASE CleanUp
    BY <2>13 DEF CleanUp
  <2>14. CASE DropForceClose /\ UNCHANGED netVars
    BY <2>14 DEF DropForceClose
  <2>15. CASE Finish /\ UNCHANGED netVars
    BY <2>15 DEF Finish
  <2> QED
    BY <1>3, <2>1, <2>2, <2>3, <2>4, <2>5, <2>6, <2>7, <2>8, <2>9, <2>10, <2>11, <2>12,
       <2>13, <2>14, <2>15 DEF WorkerNext, WorkerRuns, BmcAnswers
<1>4. CASE ControlNext
  <2>1. CASE StartControl
    BY <2>1 DEF StartControl, Closed
  <2>2. CASE PublishSession
    BY <2>2 DEF PublishSession
  <2>3. CASE InstallInput
    BY <2>3 DEF InstallInput
  <2>4. CASE EnqueueInput
    BY <2>4 DEF EnqueueInput, Handler
  <2>5. CASE StopPosted
    BY <2>5 DEF StopPosted, Handler, ForceCloseNow, Closed
  <2>6. CASE ControlReturns
    BY <2>6 DEF ControlReturns
  <2> QED
    BY <1>4, <2>1, <2>2, <2>3, <2>4, <2>5, <2>6 DEF ControlNext
<1>5. CASE VideoNext
  <2>1. CASE StartVideo
    BY <2>1 DEF StartVideo, Closed
  <2>2. CASE VideoReturns
    BY <2>2 DEF VideoReturns
  <2> QED
    BY <1>5, <2>1, <2>2 DEF VideoNext
<1>6. CASE SocketNext \/ GraceOver
  <2>1. CASE Written
    BY <2>1 DEF Written, Handler, ForceCloseNow, Closed
  <2>2. CASE ControlFails
    BY <2>2 DEF ControlFails, Report, OnError, ForceCloseNow, Closed
  <2>3. CASE VideoEnds
    BY <2>3 DEF VideoEnds, Report, OnError
  <2>4. CASE GraceOver
    BY <2>4 DEF GraceOver, ForceCloseNow, Closed
  <2> QED
    BY <1>6, <2>1, <2>2, <2>3, <2>4 DEF SocketNext
<1>7. CASE \E t \in Callers : CallHandle(t)
  BY <1>7 DEF CallHandle, Closed
<1>8. CASE WindowClosed \/ UNCHANGED vars
  BY <1>8 DEF WindowClosed, vars
<1> QED
  BY <1>1, <1>2, <1>3, <1>4, <1>5, <1>6, <1>7, <1>8 DEF Next, GuiNext

\* What the network thread has given back nobody takes again: the thread that could, has ended.
LEMMA QuietStep ==
  ASSUME QuietInv, ThreadInv, ShapeInv, [Next]_vars
  PROVE  QuietInv'
<1> USE DEF QuietInv, ThreadInv, ShapeInv, Ended, Out, Channels, Go, Thread, viewVars, netVars,
           channelVars, sinkVars, sessionVars
<1>1. CASE Gui /\ UNCHANGED netVars
  <2>1. CASE Poll
    BY <1>1, <2>1 DEF Poll
  <2>2. CASE PressClose
    BY <1>1, <2>2 DEF PressClose
  <2>3. CASE PressRetry
    BY <1>1, <2>3 DEF PressRetry
  <2>4. CASE RequestStop
    BY <1>1, <2>4 DEF RequestStop
  <2>5. CASE SnapshotForceClose
    BY <1>1, <2>5 DEF SnapshotForceClose
  <2> QED
    BY <1>1, <2>1, <2>2, <2>3, <2>4, <2>5 DEF Gui
<1>2. CASE GuiForceClose \/ GuiClose \/ GuiRestart \/ Input
  <2>1. CASE GuiForceClose
    BY <2>1 DEF GuiForceClose, CallForceClose
  <2>2. CASE GuiClose
    BY <2>2 DEF GuiClose, JoinAndClose
  <2>3. CASE GuiRestart
    BY <2>3 DEF GuiRestart, JoinAndRestart
  <2>4. CASE Input
    BY <2>4 DEF Input
  <2> QED
    BY <1>2, <2>1, <2>2, <2>3, <2>4
<1>3. CASE WorkerNext
  <2>1. CASE Login
    BY <2>1 DEF Login
  <2>2. CASE Probe
    BY <2>2 DEF Probe
  <2>3. CASE CheckStops
    BY <2>3 DEF CheckStops, CheckStop
  <2>4. CASE PublishRequestStop
    BY <2>4 DEF PublishRequestStop
  <2>5. CASE InstallPower
    BY <2>5 DEF InstallPower
  <2>6. CASE OpenWebsockets \/ StartChannels
    BY <2>6 DEF OpenWebsockets, StartChannels, OpenWebsocket, SetHandle, Spawn,
          SpawnFails
  <2>7. CASE Join("control", "joinControl", "joinVideo")
    BY <2>7 DEF Join
  <2>8. CASE Join("video", "joinVideo", "clear")
    BY <2>8 DEF Join
  <2>9. CASE CatchStop
    BY <2>9 DEF CatchStop
  <2>10. CASE CatchJoin
    BY <2>10 DEF CatchJoin, Join
  <2>11. CASE ClearCallbacks
    BY <2>11 DEF ClearCallbacks
  <2>12. CASE Logout
    BY <2>12 DEF Logout
  <2>13. CASE CleanUp
    BY <2>13 DEF CleanUp
  <2>14. CASE DropForceClose /\ UNCHANGED netVars
    BY <2>14 DEF DropForceClose
  <2>15. CASE Finish /\ UNCHANGED netVars
    BY <2>15 DEF Finish
  <2> QED
    BY <1>3, <2>1, <2>2, <2>3, <2>4, <2>5, <2>6, <2>7, <2>8, <2>9, <2>10, <2>11, <2>12,
       <2>13, <2>14, <2>15 DEF WorkerNext, WorkerRuns, BmcAnswers
<1>4. CASE ControlNext
  <2>1. CASE StartControl
    BY <2>1 DEF StartControl, Closed
  <2>2. CASE PublishSession
    BY <2>2 DEF PublishSession
  <2>3. CASE InstallInput
    BY <2>3 DEF InstallInput
  <2>4. CASE EnqueueInput
    BY <2>4 DEF EnqueueInput, Handler
  <2>5. CASE StopPosted
    BY <2>5 DEF StopPosted, Handler, ForceCloseNow, Closed
  <2>6. CASE ControlReturns
    BY <2>6 DEF ControlReturns
  <2> QED
    BY <1>4, <2>1, <2>2, <2>3, <2>4, <2>5, <2>6 DEF ControlNext
<1>5. CASE VideoNext
  <2>1. CASE StartVideo
    BY <2>1 DEF StartVideo, Closed
  <2>2. CASE VideoReturns
    BY <2>2 DEF VideoReturns
  <2> QED
    BY <1>5, <2>1, <2>2 DEF VideoNext
<1>6. CASE SocketNext \/ GraceOver
  <2>1. CASE Written
    BY <2>1 DEF Written, Handler, ForceCloseNow, Closed
  <2>2. CASE ControlFails
    BY <2>2 DEF ControlFails, Report, OnError, ForceCloseNow, Closed
  <2>3. CASE VideoEnds
    BY <2>3 DEF VideoEnds, Report, OnError
  <2>4. CASE GraceOver
    BY <2>4 DEF GraceOver, ForceCloseNow, Closed
  <2> QED
    BY <1>6, <2>1, <2>2, <2>3, <2>4 DEF SocketNext
<1>7. CASE \E t \in Callers : CallHandle(t)
  BY <1>7 DEF CallHandle, Closed
<1>8. CASE WindowClosed \/ UNCHANGED vars
  BY <1>8 DEF WindowClosed, vars
<1> QED
  BY <1>1, <1>2, <1>3, <1>4, <1>5, <1>6, <1>7, <1>8 DEF Next, GuiNext

\* The event session is made, published and closed by the control thread.
LEMMA SessionStep ==
  ASSUME SessionInv, ThreadInv, ShapeInv, [Next]_vars
  PROVE  SessionInv'
<1> USE DEF SessionInv, ThreadInv, ShapeInv, Ended, Out, Channels, Go, Thread, viewVars, netVars,
           channelVars, sinkVars, sessionVars
<1>1. CASE Gui /\ UNCHANGED netVars
  <2>1. CASE Poll
    BY <1>1, <2>1 DEF Poll
  <2>2. CASE PressClose
    BY <1>1, <2>2 DEF PressClose
  <2>3. CASE PressRetry
    BY <1>1, <2>3 DEF PressRetry
  <2>4. CASE RequestStop
    BY <1>1, <2>4 DEF RequestStop
  <2>5. CASE SnapshotForceClose
    BY <1>1, <2>5 DEF SnapshotForceClose
  <2> QED
    BY <1>1, <2>1, <2>2, <2>3, <2>4, <2>5 DEF Gui
<1>2. CASE GuiForceClose \/ GuiClose \/ GuiRestart \/ Input
  <2>1. CASE GuiForceClose
    BY <2>1 DEF GuiForceClose, CallForceClose
  <2>2. CASE GuiClose
    BY <2>2 DEF GuiClose, JoinAndClose
  <2>3. CASE GuiRestart
    BY <2>3 DEF GuiRestart, JoinAndRestart
  <2>4. CASE Input
    BY <2>4 DEF Input
  <2> QED
    BY <1>2, <2>1, <2>2, <2>3, <2>4
<1>3. CASE WorkerNext
  <2>1. CASE Login
    BY <2>1 DEF Login
  <2>2. CASE Probe
    BY <2>2 DEF Probe
  <2>3. CASE CheckStops
    BY <2>3 DEF CheckStops, CheckStop
  <2>4. CASE PublishRequestStop
    BY <2>4 DEF PublishRequestStop
  <2>5. CASE InstallPower
    BY <2>5 DEF InstallPower
  <2>6. CASE OpenWebsockets \/ StartChannels
    BY <2>6 DEF OpenWebsockets, StartChannels, OpenWebsocket, SetHandle, Spawn,
          SpawnFails
  <2>7. CASE Join("control", "joinControl", "joinVideo")
    BY <2>7 DEF Join
  <2>8. CASE Join("video", "joinVideo", "clear")
    BY <2>8 DEF Join
  <2>9. CASE CatchStop
    BY <2>9 DEF CatchStop
  <2>10. CASE CatchJoin
    BY <2>10 DEF CatchJoin, Join
  <2>11. CASE ClearCallbacks
    BY <2>11 DEF ClearCallbacks
  <2>12. CASE Logout
    BY <2>12 DEF Logout
  <2>13. CASE CleanUp
    BY <2>13 DEF CleanUp
  <2>14. CASE DropForceClose /\ UNCHANGED netVars
    BY <2>14 DEF DropForceClose
  <2>15. CASE Finish /\ UNCHANGED netVars
    BY <2>15 DEF Finish
  <2> QED
    BY <1>3, <2>1, <2>2, <2>3, <2>4, <2>5, <2>6, <2>7, <2>8, <2>9, <2>10, <2>11, <2>12,
       <2>13, <2>14, <2>15 DEF WorkerNext, WorkerRuns, BmcAnswers
<1>4. CASE ControlNext
  <2>1. CASE StartControl
    BY <2>1 DEF StartControl, Closed
  <2>2. CASE PublishSession
    BY <2>2 DEF PublishSession
  <2>3. CASE InstallInput
    BY <2>3 DEF InstallInput
  <2>4. CASE EnqueueInput
    BY <2>4 DEF EnqueueInput, Handler
  <2>5. CASE StopPosted
    BY <2>5 DEF StopPosted, Handler, ForceCloseNow, Closed
  <2>6. CASE ControlReturns
    BY <2>6 DEF ControlReturns
  <2> QED
    BY <1>4, <2>1, <2>2, <2>3, <2>4, <2>5, <2>6 DEF ControlNext
<1>5. CASE VideoNext
  <2>1. CASE StartVideo
    BY <2>1 DEF StartVideo, Closed
  <2>2. CASE VideoReturns
    BY <2>2 DEF VideoReturns
  <2> QED
    BY <1>5, <2>1, <2>2 DEF VideoNext
<1>6. CASE SocketNext \/ GraceOver
  <2>1. CASE Written
    BY <2>1 DEF Written, Handler, ForceCloseNow, Closed
  <2>2. CASE ControlFails
    BY <2>2 DEF ControlFails, Report, OnError, ForceCloseNow, Closed
  <2>3. CASE VideoEnds
    BY <2>3 DEF VideoEnds, Report, OnError
  <2>4. CASE GraceOver
    BY <2>4 DEF GraceOver, ForceCloseNow, Closed
  <2> QED
    BY <1>6, <2>1, <2>2, <2>3, <2>4 DEF SocketNext
<1>7. CASE \E t \in Callers : CallHandle(t)
  BY <1>7 DEF CallHandle, Closed
<1>8. CASE WindowClosed \/ UNCHANGED vars
  BY <1>8 DEF WindowClosed, vars
<1> QED
  BY <1>1, <1>2, <1>3, <1>4, <1>5, <1>6, <1>7, <1>8 DEF Next, GuiNext

\* Each input moves from the strand to the queue and from the queue to the wire, in order.
LEMMA QueueStep ==
  ASSUME QueueInv, SessionInv, ThreadInv, [Next]_vars
  PROVE  QueueInv'
<1> USE DEF Ended, Out, Go, Thread, viewVars, netVars,
           channelVars, sinkVars, sessionVars
<1>1. CASE Gui /\ UNCHANGED netVars
  <2>1. CASE Poll
    BY <1>1, <2>1, QueueFrame DEF Poll
  <2>2. CASE PressClose
    BY <1>1, <2>2, QueueFrame DEF PressClose
  <2>3. CASE PressRetry
    BY <1>1, <2>3, QueueFrame DEF PressRetry
  <2>4. CASE RequestStop
    BY <1>1, <2>4, QueueFrame DEF RequestStop
  <2>5. CASE SnapshotForceClose
    BY <1>1, <2>5, QueueFrame DEF SnapshotForceClose
  <2> QED
    BY <1>1, <2>1, <2>2, <2>3, <2>4, <2>5 DEF Gui
<1>2. CASE GuiForceClose \/ GuiClose \/ GuiRestart \/ Input
  <2>1. CASE GuiForceClose
    BY <2>1, QueueFrame DEF GuiForceClose, CallForceClose
  <2>2. CASE GuiClose
    BY <2>2, QueueFrame DEF GuiClose, JoinAndClose
  <2>3. CASE GuiRestart
    <3>1. /\ session' = "none" /\ posted' = <<>> /\ onWire' = <<>> /\ inputs' = 0
          /\ promised' = NotAsked /\ writeQueue' = writeQueue
      BY <2>3 DEF GuiRestart
    <3>2. writeQueue \in Seq(Events) /\ inputs' \in Events
      BY <3>1, PikvmAssumption DEF QueueInv, Events
    <3>3. onWire' \in Seq(Events) /\ Len(onWire') = 0 /\ posted' \in Seq(Events)
      BY <3>1, EmptySeq
    <3> QED
      BY <3>1, <3>2, <3>3 DEF QueueInv
  <2>4. CASE Input
    <3>1. /\ inputs' = inputs + 1 /\ inputs < MaxInputs /\ promised' = promised
          /\ writeQueue' = writeQueue /\ onWire' = onWire /\ session' = session
          /\ stopping' = stopping
          /\ posted' = IF session = "published" THEN Append(posted, inputs + 1) ELSE posted
      BY <2>4 DEF Input
    <3>2. /\ inputs + 1 \in Events /\ inputs \in Nat /\ promised \in Nat /\ NotAsked \in Nat
          /\ Len(onWire) \in Nat /\ Len(writeQueue) \in Nat /\ Len(posted) \in Nat
      BY <3>1, PikvmAssumption, LenProperties DEF QueueInv, Events, NotAsked
    <3>3. posted' \in Seq(Events)
      BY <3>1, <3>2 DEF QueueInv
    <3>4. CASE session # "published"
      BY <3>1, <3>2, <3>3, <3>4 DEF QueueInv
    <3>5. CASE session = "published"
      <4>1. /\ Len(posted') = Len(posted) + 1 /\ posted'[Len(posted) + 1] = inputs + 1
            /\ \A i \in 1 .. Len(posted) : posted'[i] = posted[i]
        BY <3>1, <3>2, <3>5 DEF QueueInv
      <4>2. CASE promised = NotAsked
        <5>1. ~stopping /\ OnStrand = Len(posted)
          BY <3>5, <4>2 DEF QueueInv
        <5>3. OnStrand' = OnStrand + 1
          BY <3>1, <3>2, <4>2 DEF OnStrand, Due
        <5>2. Len(onWire) + Len(writeQueue) + (Len(posted) + 1) = inputs + 1
          BY <3>2, <4>2, <5>1 DEF OnStrand, Due
        <5> QED
          <6>1. \A i \in 1 .. OnStrand' : posted'[i] = Len(onWire) + Len(writeQueue) + i
            <7>1. \A i \in 1 .. Len(posted) : posted[i] = Len(onWire) + Len(writeQueue) + i
              BY <3>5, <5>1 DEF QueueInv
            <7> QED
              BY <3>2, <4>1, <5>1, <5>2, <5>3, <7>1
          <6>2. OnStrand' = Len(posted') /\ OnStrand' \in 0 .. Len(posted')
            BY <3>2, <4>1, <5>1, <5>3
          <6> QED
            BY <3>1, <3>2, <3>3, <3>5, <4>2, <5>1, <6>1, <6>2 DEF QueueInv
      <4>3. CASE promised # NotAsked
        <5>1. OnStrand' = OnStrand
          BY <3>1, <4>3 DEF OnStrand, Due
        <5> QED
          BY <3>1, <3>2, <3>3, <3>5, <4>1, <4>3, <5>1 DEF QueueInv
      <4> QED
        BY <4>2, <4>3
    <3> QED
      BY <3>4, <3>5
  <2> QED
    BY <1>2, <2>1, <2>2, <2>3, <2>4
<1>3. CASE WorkerNext
  <2>1. CASE Login
    BY <2>1, QueueFrame DEF Login
  <2>2. CASE Probe
    BY <2>2, QueueFrame DEF Probe
  <2>3. CASE CheckStops
    BY <2>3, QueueFrame DEF CheckStops, CheckStop
  <2>4. CASE PublishRequestStop
    BY <2>4, QueueFrame DEF PublishRequestStop
  <2>5. CASE InstallPower
    BY <2>5, QueueFrame DEF InstallPower
  <2>6. CASE OpenWebsockets \/ StartChannels
    BY <2>6, QueueFrame DEF OpenWebsockets, StartChannels, OpenWebsocket, SetHandle, Spawn,
          SpawnFails
  <2>7. CASE Join("control", "joinControl", "joinVideo")
    BY <2>7, QueueFrame DEF Join
  <2>8. CASE Join("video", "joinVideo", "clear")
    BY <2>8, QueueFrame DEF Join
  <2>9. CASE CatchStop
    BY <2>9, QueueFrame DEF CatchStop
  <2>10. CASE CatchJoin
    BY <2>10, QueueFrame DEF CatchJoin, Join
  <2>11. CASE ClearCallbacks
    BY <2>11, QueueFrame DEF ClearCallbacks
  <2>12. CASE Logout
    BY <2>12, QueueFrame DEF Logout
  <2>13. CASE CleanUp
    BY <2>13, QueueFrame DEF CleanUp
  <2>14. CASE DropForceClose /\ UNCHANGED netVars
    BY <2>14, QueueFrame DEF DropForceClose
  <2>15. CASE Finish /\ UNCHANGED netVars
    BY <2>15, QueueFrame DEF Finish
  <2> QED
    BY <1>3, <2>1, <2>2, <2>3, <2>4, <2>5, <2>6, <2>7, <2>8, <2>9, <2>10, <2>11, <2>12,
       <2>13, <2>14, <2>15 DEF WorkerNext, WorkerRuns, BmcAnswers
<1>4. CASE ControlNext
  <2>1. CASE StartControl
    <3>1. /\ session = "none" /\ session' \in {"none", "started"}
          /\ UNCHANGED <<posted, writeQueue, onWire, inputs, promised, stopping>>
      BY <2>1 DEF StartControl, SessionInv
    <3> QED
      BY <3>1 DEF QueueInv
  <2>2. CASE PublishSession
    <3>1. /\ session = "started" /\ session' = "published"
          /\ UNCHANGED <<posted, writeQueue, onWire, inputs, promised, stopping>>
      BY <2>2 DEF PublishSession, SessionInv
    <3>2. /\ inputs = 0 /\ promised = NotAsked /\ onWire = <<>> /\ posted = <<>>
          /\ writeQueue = <<>> /\ ~stopping
      BY <3>1 DEF SessionInv
    <3>3. Len(onWire') = 0 /\ Len(writeQueue') = 0 /\ Len(posted') = 0
      BY <3>1, <3>2, EmptySeq
    <3>4. OnStrand' = 0
      <4>1. inputs' = 0 /\ promised' = NotAsked
        BY <3>1, <3>2
      <4> QED
        BY <3>3, <4>1 DEF OnStrand, Due
    <3> QED
      BY <3>1, <3>2, <3>3, <3>4 DEF QueueInv
  <2>3. CASE InstallInput
    BY <2>3, QueueFrame DEF InstallInput
  <2>4. CASE EnqueueInput
    <3>1. /\ session = "published" /\ posted # <<>> /\ posted[1] # StopHandler
          /\ posted' = Tail(posted) /\ Head(posted) = posted[1]
          /\ UNCHANGED <<onWire, inputs, promised, stopping, session>>
      BY <2>4 DEF EnqueueInput, Handler, QueueInv
    <3>2. /\ posted' \in Seq(Events) /\ Len(posted') = Len(posted) - 1 /\ Len(posted) \in Nat
          /\ \A i \in 1 .. Len(posted') : posted'[i] = posted[i + 1]
          /\ 1 \in 1 .. Len(posted) /\ posted[1] \in Events
      BY <3>1, HeadTailProperties, LenProperties DEF QueueInv
    <3>3. Len(onWire) \in Nat /\ Len(writeQueue) \in Nat /\ OnStrand \in Int
      BY LenProperties, PikvmAssumption DEF QueueInv, OnStrand, Due, Events, NotAsked
    <3>4. CASE stopping
      <4>1. writeQueue' = writeQueue
        BY <2>4, <3>4 DEF EnqueueInput
      <4>2. OnStrand' = OnStrand
        BY <3>1, <4>1 DEF OnStrand, Due
      <4> QED
        BY <3>1, <3>2, <3>4, <4>1, <4>2 DEF QueueInv
    <3>5. CASE ~stopping
      <4>1. writeQueue' = Append(writeQueue, posted[1])
        BY <2>4, <3>1, <3>5 DEF EnqueueInput
      <4>2. /\ OnStrand \in 0 .. Len(posted)
            /\ \A i \in 1 .. OnStrand : posted[i] = Len(onWire) + Len(writeQueue) + i
            /\ promised = NotAsked => OnStrand = Len(posted)
            /\ promised # NotAsked =>
                 OnStrand < Len(posted) /\ posted[OnStrand + 1] = StopHandler
        BY <3>1, <3>5 DEF QueueInv
      <4>3. \A i \in 1 .. Len(writeQueue) : writeQueue[i] = Len(onWire) + i
        BY <3>1 DEF QueueInv
      <4>4. OnStrand >= 1 /\ posted[1] = Len(onWire) + Len(writeQueue) + 1
        <5>1. OnStrand # 0
          <6> SUFFICES ASSUME OnStrand = 0
                       PROVE  FALSE
            OBVIOUS
          <6>1. promised # NotAsked
            BY <3>2, <4>2
          <6>2. OnStrand + 1 = 1
            OBVIOUS
          <6> QED
            BY <3>1, <4>2, <6>1, <6>2
        <5> QED
          BY <3>2, <3>3, <4>2, <5>1
      <4>5. /\ writeQueue' \in Seq(Events) /\ Len(writeQueue') = Len(writeQueue) + 1
            /\ \A i \in 1 .. Len(writeQueue) : writeQueue'[i] = writeQueue[i]
            /\ writeQueue'[Len(writeQueue) + 1] = posted[1]
        BY <3>2, <3>3, <4>1 DEF QueueInv
      <4>6. OnStrand' = OnStrand - 1
        BY <3>1, <3>3, <4>5, PikvmAssumption DEF OnStrand, Due, QueueInv, Events, NotAsked
      <4>7. \A i \in 1 .. Len(writeQueue') : writeQueue'[i] = Len(onWire) + i
        BY <3>3, <4>4, <4>5, <4>3
      <4>8. \A i \in 1 .. OnStrand' :
              posted'[i] = Len(onWire) + Len(writeQueue') + i
        <5> SUFFICES ASSUME NEW i \in 1 .. OnStrand'
                     PROVE  posted'[i] = Len(onWire) + Len(writeQueue') + i
          OBVIOUS
        <5>1. i \in Nat /\ i + 1 \in 1 .. OnStrand /\ i \in 1 .. Len(posted')
          BY <3>2, <3>3, <4>2, <4>6
        <5>2. posted'[i] = posted[i + 1]
          BY <3>2, <5>1
        <5>3. posted[i + 1] = Len(onWire) + Len(writeQueue) + (i + 1)
          BY <4>2, <5>1
        <5> QED
          BY <3>3, <4>5, <5>1, <5>2, <5>3
      <4>9. CASE promised = NotAsked
        <5>1. OnStrand' = Len(posted') /\ OnStrand' \in 0 .. Len(posted')
          BY <3>2, <4>2, <4>4, <4>6, <4>9
        <5> QED
          BY <3>1, <3>2, <3>5, <4>5, <4>7, <4>8, <4>9, <5>1 DEF QueueInv
      <4>10. CASE promised # NotAsked
        <5>1. OnStrand < Len(posted) /\ posted[OnStrand + 1] = StopHandler
          BY <4>2, <4>10
        <5>2. /\ OnStrand' \in 0 .. Len(posted') /\ OnStrand' < Len(posted')
              /\ OnStrand \in 1 .. Len(posted') /\ OnStrand' + 1 = OnStrand
          BY <3>2, <3>3, <4>4, <4>6, <5>1
        <5>3. posted'[OnStrand' + 1] = StopHandler
          BY <3>2, <5>1, <5>2
        <5> QED
          BY <3>1, <3>2, <3>5, <4>5, <4>7, <4>8, <4>10, <5>2, <5>3 DEF QueueInv
      <4> QED
        BY <4>9, <4>10
    <3> QED
      BY <3>4, <3>5
  <2>5. CASE StopPosted
    <3>1. /\ session = "published" /\ posted # <<>> /\ posted[1] = StopHandler
          /\ UNCHANGED <<onWire, inputs, promised>>
      BY <2>5 DEF StopPosted, Handler, ForceCloseNow, Thread, QueueInv
    <3>2. /\ posted \in Seq(Events) /\ Len(posted) \in Nat /\ 1 \in 1 .. Len(posted)
          /\ Len(onWire) \in Nat /\ Len(writeQueue) \in Nat /\ OnStrand \in Int
      BY <3>1, EmptySeq, LenProperties, PikvmAssumption
      DEF QueueInv, OnStrand, Due, Events, NotAsked
    <3>3. CASE ~stopping
      <4>1. OnStrand = 0 /\ promised # NotAsked
        <5>1. OnStrand \in 0 .. Len(posted)
              /\ \A i \in 1 .. OnStrand : posted[i] = Len(onWire) + Len(writeQueue) + i
          BY <3>1, <3>3 DEF QueueInv
        <5>2. posted[1] # Len(onWire) + Len(writeQueue) + 1
          BY <3>1, <3>2 DEF StopHandler
        <5>3. OnStrand = 0
          BY <3>2, <5>1, <5>2
        <5> QED
          BY <3>1, <3>2, <3>3, <5>3 DEF QueueInv
      <4>2. CASE writeQueue = <<>>
        <5>1. Len(writeQueue) = 0 /\ promised = Len(onWire)
          BY <3>2, <4>1, <4>2, EmptySeq, PikvmAssumption DEF OnStrand, Due, QueueInv, Events
        <5>2. session' = "drained" /\ posted' = <<>> /\ writeQueue' = <<>>
          BY <2>5, <4>2 DEF StopPosted, ForceCloseNow
        <5> QED
          BY <3>1, <5>1, <5>2, EmptySeq DEF QueueInv
      <4>3. CASE writeQueue # <<>>
        <5>1. /\ posted' = Tail(posted) /\ stopping' /\ session' = "published"
              /\ writeQueue' = writeQueue
          BY <2>5, <4>3 DEF StopPosted, Handler
        <5>2. posted' \in Seq(Events) /\ OnStrand' = OnStrand
          BY <3>1, <3>2, <5>1, HeadTailProperties DEF OnStrand, Due
        <5> QED
          BY <3>1, <4>1, <4>3, <5>1, <5>2 DEF QueueInv
      <4> QED
        BY <4>2, <4>3
    <3>4. CASE stopping
      <4>1. writeQueue # <<>>
        BY <3>1, <3>4 DEF QueueInv
      <4>2. /\ posted' = Tail(posted) /\ stopping' /\ session' = "published"
            /\ writeQueue' = writeQueue
        BY <2>5, <4>1 DEF StopPosted, Handler
      <4>3. posted' \in Seq(Events) /\ OnStrand' = OnStrand
        BY <3>1, <3>2, <4>2, HeadTailProperties DEF OnStrand, Due
      <4> QED
        BY <3>1, <3>4, <4>2, <4>3 DEF QueueInv
    <3> QED
      BY <3>3, <3>4
  <2>6. CASE ControlReturns
    BY <2>6, QueueFrame DEF ControlReturns
  <2> QED
    BY <1>4, <2>1, <2>2, <2>3, <2>4, <2>5, <2>6 DEF ControlNext
<1>5. CASE VideoNext
  <2>1. CASE StartVideo
    BY <2>1, QueueFrame DEF StartVideo, Closed
  <2>2. CASE VideoReturns
    BY <2>2, QueueFrame DEF VideoReturns
  <2> QED
    BY <1>5, <2>1, <2>2 DEF VideoNext
<1>6. CASE SocketNext \/ GraceOver
  <2>1. CASE Written
    <3>1. /\ session = "published" /\ writeQueue # <<>>
          /\ onWire' = Append(onWire, writeQueue[1]) /\ Head(writeQueue) = writeQueue[1]
          /\ UNCHANGED <<inputs, promised>>
      BY <2>1 DEF Written, Handler, ForceCloseNow, Thread, QueueInv
    <3>2. /\ Len(writeQueue) \in Nat \ {0} /\ Len(posted) \in Nat /\ Len(onWire) \in Nat
          /\ OnStrand \in Int
      BY <3>1, EmptySeq, LenProperties, PikvmAssumption
      DEF QueueInv, OnStrand, Due, Events, NotAsked
    <3>3. writeQueue[1] = Len(onWire) + 1 /\ writeQueue[1] \in Events
      BY <3>1, <3>2, ElementOfSeq DEF QueueInv
    <3>4. /\ onWire' \in Seq(Events) /\ Len(onWire') = Len(onWire) + 1
          /\ \A i \in 1 .. Len(onWire) : onWire'[i] = onWire[i]
          /\ onWire'[Len(onWire) + 1] = Len(onWire) + 1
      BY <3>1, <3>2, <3>3 DEF QueueInv
    <3>5. \A i \in 1 .. Len(onWire') : onWire'[i] = i
      BY <3>2, <3>4 DEF QueueInv
    <3>6. CASE stopping /\ Len(writeQueue) = 1
      <4>1. session' = "drained" /\ posted' = <<>> /\ writeQueue' = <<>>
        BY <2>1, <3>6 DEF Written, ForceCloseNow
      <4>2. OnStrand = 0 /\ promised # NotAsked
        BY <3>1, <3>6 DEF QueueInv
      <4>3. promised = Len(onWire) + 1
        BY <3>2, <3>6, <4>2, PikvmAssumption DEF OnStrand, Due, QueueInv, Events
      <4> QED
        BY <3>1, <3>4, <3>5, <4>1, <4>3, EmptySeq DEF QueueInv
    <3>7. CASE ~(stopping /\ Len(writeQueue) = 1)
      <4>1. writeQueue' = Tail(writeQueue) /\ UNCHANGED <<posted, stopping, session>>
        BY <2>1, <3>7 DEF Written, Handler
      <4>2. /\ writeQueue' \in Seq(Events) /\ Len(writeQueue') = Len(writeQueue) - 1
            /\ \A i \in 1 .. Len(writeQueue') : writeQueue'[i] = writeQueue[i + 1]
        BY <3>1, <4>1, HeadTailProperties DEF QueueInv
      <4>3. Len(onWire') + Len(writeQueue') = Len(onWire) + Len(writeQueue)
        BY <3>2, <3>4, <4>2
      <4>4. OnStrand' = OnStrand
        BY <3>1, <3>2, <3>4, <4>2, PikvmAssumption DEF OnStrand, Due, QueueInv, Events, NotAsked
      <4>5. \A i \in 1 .. Len(writeQueue') : writeQueue'[i] = Len(onWire') + i
        BY <3>1, <3>2, <3>4, <4>2 DEF QueueInv
      <4>6. stopping => writeQueue' # <<>>
        BY <3>2, <3>7, <4>2, EmptySeq
      <4>7. ~stopping =>
              \A i \in 1 .. OnStrand' : posted'[i] = Len(onWire') + Len(writeQueue') + i
        BY <3>1, <3>2, <4>1, <4>3, <4>4 DEF QueueInv
      <4> QED
        BY <3>1, <3>4, <3>5, <4>1, <4>2, <4>4, <4>5, <4>6, <4>7 DEF QueueInv
    <3> QED
      BY <3>6, <3>7
  <2>2. CASE ControlFails
    <3>1. /\ session' = "closed" /\ posted' = <<>> /\ writeQueue' = <<>>
          /\ UNCHANGED <<onWire, inputs, promised>>
      BY <2>2 DEF ControlFails, ForceCloseNow, Thread
    <3> QED
      BY <3>1, EmptySeq DEF QueueInv
  <2>3. CASE VideoEnds
    BY <2>3, QueueFrame DEF VideoEnds, Report, OnError
  <2>4. CASE GraceOver
    <3>1. /\ session' = "closed" /\ posted' = <<>> /\ writeQueue' = <<>>
          /\ UNCHANGED <<onWire, inputs, promised>>
      BY <2>4 DEF GraceOver, ForceCloseNow, Thread
    <3> QED
      BY <3>1, EmptySeq DEF QueueInv
  <2> QED
    BY <1>6, <2>1, <2>2, <2>3, <2>4 DEF SocketNext
<1>7. CASE \E t \in Callers : CallHandle(t)
  <2>1. /\ UNCHANGED <<writeQueue, onWire, inputs, stopping, session>>
        /\ \/ UNCHANGED <<posted, promised>>
           \/ /\ session = "published" /\ posted' = Append(posted, StopHandler)
              /\ promised' = IF promised = NotAsked THEN inputs ELSE promised
    BY <1>7 DEF CallHandle, SessionInv
  <2>2. CASE UNCHANGED <<posted, promised>>
    BY <2>1, <2>2, QueueFrame
  <2>3. CASE /\ session = "published" /\ posted' = Append(posted, StopHandler)
             /\ promised' = IF promised = NotAsked THEN inputs ELSE promised
    <3>1. /\ inputs \in Nat /\ inputs # NotAsked /\ promised' \in Events /\ promised' # NotAsked
          /\ StopHandler \in Events /\ Len(posted) \in Nat /\ OnStrand \in Int
      BY <2>3, PikvmAssumption, LenProperties
      DEF QueueInv, Events, NotAsked, StopHandler, OnStrand, Due
    <3>2. OnStrand' = OnStrand
      BY <2>1, <2>3, <3>1 DEF OnStrand, Due
    <3>3. /\ posted' \in Seq(Events) /\ Len(posted') = Len(posted) + 1
          /\ posted'[Len(posted) + 1] = StopHandler
          /\ \A i \in 1 .. Len(posted) : posted'[i] = posted[i]
      BY <2>3, <3>1 DEF QueueInv
    <3>4. ~stopping =>
            OnStrand' \in 0 .. Len(posted') /\ OnStrand' < Len(posted')
            /\ posted'[OnStrand' + 1] = StopHandler
      BY <2>1, <2>3, <3>1, <3>2, <3>3 DEF QueueInv
    <3>5. ~stopping =>
            \A i \in 1 .. OnStrand' : posted'[i] = Len(onWire') + Len(writeQueue') + i
      BY <2>1, <2>3, <3>1, <3>2, <3>3 DEF QueueInv
    <3> QED
      BY <2>1, <2>3, <3>1, <3>2, <3>3, <3>4, <3>5 DEF QueueInv
  <2> QED
    BY <2>1, <2>2, <2>3
<1>8. CASE WindowClosed \/ UNCHANGED vars
  BY <1>8, QueueFrame DEF WindowClosed, vars
<1> QED
  BY <1>1, <1>2, <1>3, <1>4, <1>5, <1>6, <1>7, <1>8 DEF Next, GuiNext

-----------------------------------------------------------------------------
\* The invariant holds at the start, and every step keeps it.
LEMMA InvInit == Init => IInv
<1> SUFFICES ASSUME Init
             PROVE  IInv
  OBVIOUS
<1> USE DEF Init, ViewInit
<1>1. ShapeInv
  BY DEF ShapeInv
<1>2. ThreadInv /\ CallsInv /\ QuietInv /\ SessionInv
  BY DEF ThreadInv, CallsInv, QuietInv, SessionInv, Ended, Out, Channels, Callers
<1>3. QueueInv
  <2>1. <<>> \in Seq(Events) /\ Len(<<>>) = 0
    BY EmptySeq
  <2>2. 0 \in Events
    BY PikvmAssumption DEF Events
  <2> QED
    BY <2>1, <2>2 DEF QueueInv
<1> QED
  BY <1>1, <1>2, <1>3 DEF IInv

\* Every step keeps the whole of it.
LEMMA InvStep == IInv /\ [Next]_vars => IInv'
BY ShapeStep, ThreadStep, CallsStep, QuietStep, SessionStep, QueueStep DEF IInv

\* So it holds in every state.
LEMMA Invariant == Spec => []IInv
BY InvInit, InvStep, PTL DEF Spec

-----------------------------------------------------------------------------
\* Whatever ends a session, the user, the BMC or an error on either channel, and however
\* far its four threads had got, the ended console comes up over nothing that still runs
\* (run_pikvm_network_session() and its catch, the joins, the clean-up of PikvmView).
THEOREM QuietCorrect == Spec => []EndedMeansQuiet
<1>1. IInv => EndedMeansQuiet
  <2> SUFFICES ASSUME IInv, sessionEnded
               PROVE  /\ worker = "exited" /\ ~connected /\ ~web
                      /\ \A c \in Channels : thread[c] \in {"none", "ended"} /\ socket[c] = "none"
                      /\ \A t \in Callers \ {"gui"} : calls[t] = {}
                      /\ forceClose = Empty /\ ~inputSink /\ ~powerSink
    BY DEF EndedMeansQuiet
  <2>1. worker = "exited"
    BY DEF IInv, QuietInv
  <2>2. Ended("control") /\ Ended("video")
    BY <2>1 DEF IInv, ThreadInv, Out
  <2>3. ~connected /\ ~web /\ forceClose = Empty /\ ~inputSink /\ ~powerSink
    BY <2>1, <2>2 DEF IInv, QuietInv, Ended
  <2>4. \A c \in Channels : thread[c] \in {"none", "ended"} /\ socket[c] = "none"
    BY <2>1, <2>2 DEF IInv, QuietInv, Ended, Channels
  <2>5. \A t \in Callers \ {"gui"} : calls[t] = {}
    BY <2>1, <2>4 DEF IInv, CallsInv, Callers, Channels
  <2> QED
    BY <2>1, <2>3, <2>4, <2>5
<1> QED
  BY <1>1, Invariant, PTL

\* A session that has drained its queue has written the inputs that came before the first
\* stop, all of them, in order and once, and nothing after them, whoever asked for the stop
\* and however often (PikvmEventSession::request_stop(), do_enqueue_input(), on_write()).
THEOREM DrainCorrect == Spec => []NothingLeftUnwritten
<1>1. IInv => NothingLeftUnwritten
  <2> SUFFICES ASSUME IInv, session = "drained"
               PROVE  onWire = [i \in 1 .. promised |-> i]
    BY DEF NothingLeftUnwritten
  <2>1. /\ onWire \in Seq(Events) /\ promised = Len(onWire)
        /\ \A i \in 1 .. Len(onWire) : onWire[i] = i
    BY DEF IInv, QueueInv
  <2>2. onWire = [i \in 1 .. Len(onWire) |-> onWire[i]]
    BY <2>1, LenProperties
  <2> QED
    BY <2>1, <2>2
<1> QED
  BY <1>1, Invariant, PTL

-----------------------------------------------------------------------------
\* The picture (PikvmVideo), for any delay of the decoder, any number of messages on their
\* way and of returns of the user.

Kinds == {"media", "noMedia", "other", "video"}
VideoMessages == [kind : Kinds, key : BOOLEAN, epoch : Nat]
Units == [epoch : Nat, broken : BOOLEAN]

\* What the stream, the parser and the counters are made of.
VideoShape ==
  /\ since \in Nat /\ epoch \in Nat /\ 1 <= since /\ since <= epoch
  /\ wire \in Seq(VideoMessages)
  /\ pipe \in Seq(Units)
  /\ gap \in BOOLEAN /\ waiting \in BOOLEAN /\ serverKeyed \in BOOLEAN

\* A frame that is there was sent in this session.
OfSession(some) == some = None \/ (some.epoch \in Nat /\ since <= some.epoch)

\* All of them are: on their way, in the decoder, with the view and on the screen.
EpochInv ==
  /\ \A i \in 1 .. Len(wire) : since <= wire[i].epoch
  /\ \A i \in 1 .. Len(pipe) : since <= pipe[i].epoch
  /\ OfSession(frame) /\ OfSession(mailbox) /\ OfSession(hosted) /\ OfSession(hostedHw)
  /\ OfSession(screen)

\* The first of the frames that are on their way is a key frame.
IsVideo(i) == wire[i].kind = "video"
KeyComesFirst ==
  \E i \in 1 .. Len(wire) :
    IsVideo(i) /\ wire[i].key /\ \A j \in 1 .. i - 1 : ~IsVideo(j)

\* A decoder that lacks a frame either waits for the next key frame, or has seen nothing of
\* a stream that begins with one.
GapInv ==
  gap /\ ~waiting =>
    IF serverKeyed THEN KeyComesFirst ELSE \A i \in 1 .. Len(wire) : ~IsVideo(i)

\* What has gone into the decoder could be decoded.
PipeInv == \A i \in 1 .. Len(pipe) : ~pipe[i].broken

VideoInv == VideoShape /\ EpochInv /\ GapInv /\ PipeInv

\* The first state.
LEMMA PictureBegins == PictureInit => VideoInv
<1> SUFFICES ASSUME PictureInit
             PROVE  VideoInv
  OBVIOUS
<1> USE DEF PictureInit
<1>1. VideoShape
  <2>1. wire \in Seq(VideoMessages) /\ pipe \in Seq(Units)
    OBVIOUS
  <2>2. gap \in BOOLEAN /\ waiting \in BOOLEAN /\ serverKeyed \in BOOLEAN
    OBVIOUS
  <2>3. since \in Nat /\ epoch \in Nat /\ 1 <= since /\ since <= epoch
    OBVIOUS
  <2> QED
    BY <2>1, <2>2, <2>3 DEF VideoShape
<1>2. EpochInv
  BY DEF EpochInv, OfSession
<1>3. GapInv
  BY DEF GapInv
<1>4. PipeInv
  BY DEF PipeInv
<1> QED
  BY <1>1, <1>2, <1>3, <1>4 DEF VideoInv

\* What a message of the server adds to those on their way.
LEMMA Sent ==
  ASSUME VideoInv, NEW kind \in Kinds, NEW key \in BOOLEAN,
         wire' = Append(wire, Message(kind, key)),
         UNCHANGED <<since, epoch, pipe, gap, waiting>>,
         \/ kind # "video" /\ serverKeyed' = serverKeyed
         \/ kind = "video" /\ (key \/ serverKeyed) /\ serverKeyed' = TRUE
  PROVE  VideoShape' /\ GapInv' /\ \A i \in 1 .. Len(wire') : since <= wire'[i].epoch
<1>1. /\ Message(kind, key) \in VideoMessages
      /\ Message(kind, key).kind = kind /\ Message(kind, key).key = key
      /\ Message(kind, key).epoch = epoch
  BY DEF Message, VideoMessages, VideoInv, VideoShape
<1> DEFINE m == Message(kind, key)
<1> HIDE DEF m
<1>2. /\ wire' \in Seq(VideoMessages)
      /\ Len(wire') = Len(wire) + 1 /\ Len(wire) \in Nat
      /\ \A i \in 1 .. Len(wire) : wire'[i] = wire[i]
      /\ wire'[Len(wire) + 1] = m
  BY <1>1, AppendProperties, LenProperties DEF VideoInv, VideoShape, m
<1>3. VideoShape'
  BY <1>2 DEF VideoInv, VideoShape
<1>4. m.kind = kind /\ m.key = key /\ m.epoch = epoch
  BY <1>1 DEF m
<1>5. \A i \in 1 .. Len(wire') : since <= wire'[i].epoch
  <2> SUFFICES ASSUME NEW i \in 1 .. Len(wire')
               PROVE  since <= wire'[i].epoch
    OBVIOUS
  <2>1. CASE i = Len(wire) + 1
    BY <1>2, <1>4, <2>1 DEF VideoInv, VideoShape
  <2>2. CASE i \in 1 .. Len(wire)
    BY <1>2, <2>2 DEF VideoInv, EpochInv
  <2> QED
    BY <1>2, <2>1, <2>2
<1>6. GapInv'
  <2> SUFFICES ASSUME gap, ~waiting
               PROVE  IF serverKeyed' THEN KeyComesFirst'
                      ELSE \A i \in 1 .. Len(wire') : wire'[i].kind # "video"
    BY DEF GapInv, IsVideo
  <2>1. IF serverKeyed THEN KeyComesFirst ELSE \A i \in 1 .. Len(wire) : ~IsVideo(i)
    BY DEF VideoInv, GapInv
  <2>2. CASE serverKeyed
    <3>1. PICK i \in 1 .. Len(wire) :
            wire[i].kind = "video" /\ wire[i].key /\ \A j \in 1 .. i - 1 : wire[j].kind # "video"
      BY <2>1, <2>2 DEF KeyComesFirst, IsVideo
    <3>2. i \in 1 .. Len(wire') /\ wire'[i] = wire[i] /\ \A j \in 1 .. i - 1 : wire'[j] = wire[j]
      BY <1>2
    <3>3. KeyComesFirst'
      BY <3>1, <3>2 DEF KeyComesFirst, IsVideo
    <3> QED
      BY <2>2, <3>3 DEF VideoInv, VideoShape
  <2>3. CASE ~serverKeyed /\ kind # "video" /\ serverKeyed' = serverKeyed
    BY <1>2, <1>4, <2>1, <2>3 DEF IsVideo
  <2>4. CASE ~serverKeyed /\ kind = "video" /\ key /\ serverKeyed'
    <3>1. KeyComesFirst'
      <4>1. Len(wire) + 1 \in 1 .. Len(wire')
        BY <1>2
      <4>2. wire'[Len(wire) + 1].kind = "video" /\ wire'[Len(wire) + 1].key
        BY <1>2, <1>4, <2>4
      <4>3. \A j \in 1 .. (Len(wire) + 1) - 1 : wire'[j].kind # "video"
        BY <1>2, <2>1, <2>4 DEF IsVideo
      <4> QED
        BY <4>1, <4>2, <4>3 DEF KeyComesFirst, IsVideo
    <3> QED
      BY <2>4, <3>1
  <2>5. serverKeyed \in BOOLEAN
    BY DEF VideoInv, VideoShape
  <2> QED
    BY <2>2, <2>3, <2>4, <2>5
<1> QED
  BY <1>3, <1>5, <1>6

\* What is left on its way when a message has been read.
LEMMA ReadIs ==
  ASSUME VideoInv, wire # <<>>, wire' = Tail(wire)
  PROVE  /\ wire' \in Seq(VideoMessages) /\ Len(wire) \in Nat
         /\ Len(wire') = Len(wire) - 1 /\ Len(wire) >= 1
         /\ \A i \in 1 .. Len(wire') : wire'[i] = wire[i + 1]
         /\ Head(wire) \in VideoMessages /\ Head(wire) = wire[1]
         /\ since <= Head(wire).epoch
<1>1. wire \in Seq(VideoMessages)
  BY DEF VideoInv, VideoShape
<1>2. /\ wire' \in Seq(VideoMessages) /\ Len(wire) \in Nat
      /\ Len(wire') = Len(wire) - 1 /\ Len(wire) >= 1
      /\ \A i \in 1 .. Len(wire') : wire'[i] = wire[i + 1]
      /\ Head(wire) \in VideoMessages /\ Head(wire) = wire[1]
  BY <1>1, HeadTailProperties, LenProperties, EmptySeq
<1>3. since <= wire[1].epoch
  BY <1>2 DEF VideoInv, EpochInv
<1> QED
  BY <1>2, <1>3

\* An access unit that goes into the decoder, and the frame that may come out.
LEMMA Ingested ==
  ASSUME VideoInv, NEW m \in VideoMessages, since <= m.epoch, Ingest(m),
         gap => m.key, since' = since
  PROVE  /\ pipe' \in Seq(Units) /\ PipeInv' /\ OfSession(frame)'
         /\ \A i \in 1 .. Len(pipe') : since <= pipe'[i].epoch
         /\ ~gap'
<1> DEFINE unit == [epoch |-> m.epoch, broken |-> gap /\ ~m.key]
           fed == Append(pipe, unit)
<1>1. unit \in Units /\ ~unit.broken /\ unit.epoch = m.epoch
  BY DEF Units, VideoMessages, VideoInv, VideoShape
<1>2. pipe \in Seq(Units)
  BY DEF VideoInv, VideoShape
<1>3. PICK format :
        /\ pipe' = IF Len(fed) > Delay THEN Tail(fed) ELSE fed
        /\ frame' = IF Len(fed) > Delay THEN OutputFrame(Head(fed), format) ELSE None
        /\ gap' = (gap /\ ~m.key)
  BY DEF Ingest
<1> HIDE DEF unit
<1>4. /\ fed \in Seq(Units) /\ Len(fed) = Len(pipe) + 1 /\ Len(pipe) \in Nat
      /\ \A i \in 1 .. Len(pipe) : fed[i] = pipe[i]
      /\ fed[Len(pipe) + 1] = unit
  BY <1>1, <1>2, AppendProperties, LenProperties
<1> HIDE DEF fed
<1>5. \A i \in 1 .. Len(fed) : ~fed[i].broken /\ since <= fed[i].epoch
  BY <1>1, <1>4 DEF VideoInv, PipeInv, EpochInv
<1>6. fed # <<>> /\ Head(fed) = fed[1] /\ Tail(fed) \in Seq(Units)
      /\ Len(Tail(fed)) = Len(fed) - 1
      /\ \A i \in 1 .. Len(Tail(fed)) : Tail(fed)[i] = fed[i + 1]
  BY <1>4, HeadTailProperties, EmptySeq
<1>7. fed[1] \in Units /\ since <= fed[1].epoch
  BY <1>4, <1>5
<1>8. OfSession(frame)'
  <2>1. CASE ~(Len(fed) > Delay)
    BY <1>3, <2>1 DEF OfSession, None
  <2>2. CASE Len(fed) > Delay
    <3>1. frame' = OutputFrame(fed[1], format)
      BY <1>3, <1>6, <2>2
    <3>2. frame'.epoch = fed[1].epoch
      BY <3>1 DEF OutputFrame
    <3> QED
      BY <1>7, <3>2 DEF OfSession, Units
  <2> QED
    BY <2>1, <2>2
<1>9. /\ pipe' \in Seq(Units)
      /\ \A i \in 1 .. Len(pipe') : ~pipe'[i].broken /\ since <= pipe'[i].epoch
  BY <1>3, <1>4, <1>5, <1>6
<1> QED
  BY <1>3, <1>8, <1>9 DEF PipeInv

\* A message that is read.
LEMMA OnReadStep == VideoInv /\ OnRead => VideoInv'
<1> SUFFICES ASSUME VideoInv, OnRead
             PROVE  VideoInv'
  OBVIOUS
<1> DEFINE m == Head(wire)
<1>1. /\ wire # <<>> /\ wire' = Tail(wire)
      /\ UNCHANGED <<serverKeyed, opened, cleared, shownVars, screen, epoch, since>>
      /\ IF m.kind = "video" THEN HandleVideo(m) ELSE HandleText(m)
  BY DEF OnRead
<1>2. /\ wire' \in Seq(VideoMessages) /\ Len(wire) \in Nat
      /\ Len(wire') = Len(wire) - 1 /\ Len(wire) >= 1
      /\ \A i \in 1 .. Len(wire') : wire'[i] = wire[i + 1]
      /\ m \in VideoMessages /\ m = wire[1]
      /\ since <= m.epoch
  BY <1>1, ReadIs
<1> HIDE DEF m
<1>3. \A i \in 1 .. Len(wire') : since' <= wire'[i].epoch
  BY <1>1, <1>2 DEF VideoInv, EpochInv
<1>4. OfSession(mailbox)' /\ OfSession(hosted)' /\ OfSession(hostedHw)' /\ OfSession(screen)'
  BY <1>1 DEF VideoInv, EpochInv, OfSession, shownVars
<1>5. CASE m.kind # "video"
  <2>1. UNCHANGED <<waiting, pipe, frame, gap>>
    BY <1>1, <1>5 DEF HandleText
  <2>2. VideoShape'
    BY <1>1, <1>2, <2>1 DEF VideoInv, VideoShape
  <2>3. EpochInv'
    BY <1>1, <1>3, <1>4, <2>1 DEF VideoInv, EpochInv, OfSession
  <2>4. GapInv'
    <3> SUFFICES ASSUME gap, ~waiting
                 PROVE  IF serverKeyed THEN KeyComesFirst'
                        ELSE \A i \in 1 .. Len(wire') : wire'[i].kind # "video"
      BY <1>1, <2>1 DEF GapInv, IsVideo
    <3>1. IF serverKeyed THEN KeyComesFirst ELSE \A i \in 1 .. Len(wire) : ~IsVideo(i)
      BY DEF VideoInv, GapInv
    <3>2. CASE serverKeyed
      <4>1. PICK i \in 1 .. Len(wire) :
              wire[i].kind = "video" /\ wire[i].key /\ \A j \in 1 .. i - 1 : wire[j].kind # "video"
        BY <3>1, <3>2 DEF KeyComesFirst, IsVideo
      <4>2. i > 1
        BY <1>2, <1>5, <4>1
      <4>3. i - 1 \in 1 .. Len(wire') /\ wire'[i - 1] = wire[i]
        BY <1>2, <4>2
      <4>4. \A j \in 1 .. (i - 1) - 1 : wire'[j].kind # "video"
        <5> TAKE j \in 1 .. (i - 1) - 1
        <5>1. wire'[j] = wire[j + 1] /\ j + 1 \in 1 .. i - 1
          BY <1>2, <4>2
        <5> QED
          BY <4>1, <5>1
      <4> QED
        BY <3>2, <4>1, <4>3, <4>4 DEF KeyComesFirst, IsVideo
    <3>3. CASE ~serverKeyed
      <4> SUFFICES ASSUME NEW i \in 1 .. Len(wire')
                   PROVE  wire'[i].kind # "video"
        BY <3>3
      <4>1. wire'[i] = wire[i + 1] /\ i + 1 \in 1 .. Len(wire)
        BY <1>2
      <4> QED
        BY <3>1, <3>3, <4>1 DEF IsVideo
    <3> QED
      BY <3>2, <3>3
  <2>5. PipeInv'
    BY <2>1 DEF VideoInv, PipeInv
  <2> QED
    BY <2>2, <2>3, <2>4, <2>5 DEF VideoInv
<1>6. CASE m.kind = "video" /\ gap' = TRUE /\ waiting' = TRUE /\ UNCHANGED <<pipe, frame>>
  <2>1. VideoShape'
    BY <1>1, <1>2, <1>6 DEF VideoInv, VideoShape
  <2>2. EpochInv'
    BY <1>1, <1>3, <1>4, <1>6 DEF VideoInv, EpochInv, OfSession
  <2>3. GapInv' /\ PipeInv'
    BY <1>6 DEF VideoInv, GapInv, PipeInv
  <2> QED
    BY <2>1, <2>2, <2>3 DEF VideoInv
<1>7. CASE m.kind = "video" /\ waiting' = FALSE /\ Ingest(m) /\ (waiting => m.key)
  <2>1. gap => m.key
    <3> SUFFICES ASSUME gap, ~waiting
                 PROVE  m.key
      BY <1>7
    <3>1. IF serverKeyed THEN KeyComesFirst ELSE \A i \in 1 .. Len(wire) : ~IsVideo(i)
      BY DEF VideoInv, GapInv
    <3>2. 1 \in 1 .. Len(wire) /\ IsVideo(1)
      BY <1>2, <1>7 DEF IsVideo
    <3>3. PICK i \in 1 .. Len(wire) :
            wire[i].kind = "video" /\ wire[i].key /\ \A j \in 1 .. i - 1 : wire[j].kind # "video"
      BY <3>1, <3>2 DEF KeyComesFirst, IsVideo
    <3>4. i = 1
      BY <3>2, <3>3 DEF IsVideo
    <3> QED
      BY <1>2, <3>3, <3>4
  <2>2. /\ pipe' \in Seq(Units) /\ PipeInv' /\ OfSession(frame)'
        /\ \A i \in 1 .. Len(pipe') : since <= pipe'[i].epoch
        /\ ~gap'
    BY <1>1, <1>2, <1>7, <2>1, Ingested
  <2>3. gap' \in BOOLEAN
    BY <1>7 DEF Ingest
  <2>4. VideoShape'
    BY <1>1, <1>2, <1>7, <2>2, <2>3 DEF VideoInv, VideoShape
  <2>5. EpochInv'
    BY <1>1, <1>3, <1>4, <2>2 DEF EpochInv
  <2>6. GapInv'
    BY <2>2 DEF GapInv
  <2> QED
    BY <2>2, <2>4, <2>5, <2>6 DEF VideoInv
<1>8. m.kind = "video" => HandleVideo(m)
  BY <1>1
<1>9. waiting \in BOOLEAN
  BY DEF VideoInv, VideoShape
<1> QED
  BY <1>5, <1>6, <1>7, <1>8, <1>9 DEF HandleVideo, SkipPaused

\* Every step keeps it.
LEMMA VideoStep == VideoInv /\ [PictureNext]_pictureVars => VideoInv'
<1> SUFFICES ASSUME VideoInv, [PictureNext]_pictureVars
             PROVE  VideoInv'
  OBVIOUS
<1>a. ASSUME UNCHANGED <<wire, serverKeyed, waiting, pipe, gap, epoch, since>>,
             EpochInv'
      PROVE  VideoInv'
  <2>1. VideoShape'
    BY <1>a DEF VideoInv, VideoShape
  <2>2. GapInv' /\ PipeInv'
    BY <1>a DEF VideoInv, GapInv, KeyComesFirst, IsVideo, PipeInv
  <2> QED
    BY <1>a, <2>1, <2>2 DEF VideoInv
<1>b. ASSUME UNCHANGED <<wire, serverKeyed, waiting, pipe, gap, epoch, since>>,
             UNCHANGED <<frame, mailbox, hosted, hostedHw, screen>>
      PROVE  VideoInv'
  <2>1. EpochInv'
    BY <1>b DEF VideoInv, EpochInv, OfSession
  <2> QED
    BY <1>a, <1>b, <2>1
<1>c. ASSUME UNCHANGED <<since, frame, mailbox, hosted, hostedHw, screen>>
      PROVE  /\ OfSession(frame)' /\ OfSession(mailbox)' /\ OfSession(hosted)'
             /\ OfSession(hostedHw)' /\ OfSession(screen)'
  BY <1>c DEF VideoInv, EpochInv, OfSession
<1>1. ASSUME NEW kind \in {"media", "noMedia", "other"}, SendText(kind)
      PROVE  VideoInv'
  <2>1. /\ wire' = Append(wire, Message(kind, FALSE))
        /\ UNCHANGED <<serverKeyed, waiting, pipe, frame, gap, shownVars, screen, epoch, since>>
    BY <1>1 DEF SendText
  <2>2. VideoShape' /\ GapInv' /\ \A i \in 1 .. Len(wire') : since <= wire'[i].epoch
    <3>1. kind \in Kinds /\ kind # "video" /\ FALSE \in BOOLEAN
      BY <1>1 DEF Kinds
    <3>2. UNCHANGED <<since, epoch, pipe, gap, waiting>> /\ serverKeyed' = serverKeyed
      BY <2>1
    <3> QED
      BY <2>1, <3>1, <3>2, Sent
  <2>3. EpochInv' /\ PipeInv'
    BY <1>c, <2>1, <2>2 DEF VideoInv, EpochInv, PipeInv, shownVars
  <2> QED
    BY <2>2, <2>3 DEF VideoInv
<1>2. ASSUME NEW key \in BOOLEAN, SendVideo(key)
      PROVE  VideoInv'
  <2>1. /\ wire' = Append(wire, Message("video", key)) /\ (key \/ serverKeyed)
        /\ serverKeyed' = TRUE
        /\ UNCHANGED <<waiting, pipe, frame, gap, shownVars, screen, epoch, since>>
    BY <1>2 DEF SendVideo
  <2>2. VideoShape' /\ GapInv' /\ \A i \in 1 .. Len(wire') : since <= wire'[i].epoch
    <3>1. "video" \in Kinds /\ UNCHANGED <<since, epoch, pipe, gap, waiting>>
      BY <2>1 DEF Kinds
    <3> QED
      BY <1>2, <2>1, <3>1, Sent
  <2>3. EpochInv' /\ PipeInv'
    BY <1>c, <2>1, <2>2 DEF VideoInv, EpochInv, PipeInv, shownVars
  <2> QED
    BY <2>2, <2>3 DEF VideoInv
<1>3. CASE \/ Connect \/ SessionEnds \/ UNCHANGED pictureVars
           \/ \E online \in BOOLEAN : DisplayStatus(online)
  BY <1>3, <1>b DEF Connect, SessionEnds, DisplayStatus, pictureVars,
                    streamVars, shownVars
<1>4. CASE OnRead
  BY <1>4, OnReadStep
<1>5. CASE OnFrame
  <2>1. /\ UNCHANGED <<wire, serverKeyed, waiting, pipe, gap, shownVars, screen, epoch, since>>
        /\ frame' \in {None, frame}
    BY <1>5 DEF OnFrame
  <2>2. EpochInv'
    BY <2>1 DEF VideoInv, EpochInv, OfSession, None, shownVars
  <2> QED
    BY <1>a, <2>1, <2>2
<1>6. CASE StoreFrame
  <2>1. /\ UNCHANGED <<wire, serverKeyed, waiting, pipe, gap, hosted, hostedHw, screen, epoch,
                       since>>
        /\ mailbox' = frame /\ frame' = None
    BY <1>6 DEF StoreFrame
  <2>2. EpochInv'
    BY <2>1 DEF VideoInv, EpochInv, OfSession, None
  <2> QED
    BY <1>a, <2>1, <2>2
<1>7. CASE Tick
  <2>1. /\ UNCHANGED <<wire, serverKeyed, waiting, pipe, gap, frame, mailbox, epoch, since>>
        /\ hosted' \in {hosted, mailbox} /\ hostedHw' \in {hostedHw, mailbox}
        /\ screen' \in {None, screen, hosted, hostedHw, mailbox}
    <3>1. UNCHANGED <<mailbox, streamVars, epoch, since>>
      BY <1>7 DEF Tick
    <3>2. CASE videoSession = "over" \/ ~videoConnected \/ displayOff
      BY <1>7, <3>2 DEF Tick, streamVars
    <3>3. CASE ~(videoSession = "over" \/ ~videoConnected \/ displayOff)
      <4> DEFINE hw == LatestHardware
                 sw == IF hw = None THEN LatestSoftware ELSE hosted
      <4>1. hw \in {mailbox, hostedHw} /\ sw \in {mailbox, hosted}
        BY DEF LatestHardware, LatestSoftware
      <4>2. /\ hostedHw' = hw /\ hosted' = sw
            /\ screen' = IF hw # None THEN hw ELSE IF sw # None THEN sw ELSE screen
        BY <1>7, <3>3 DEF Tick
      <4> HIDE DEF hw, sw
      <4> QED
        BY <3>1, <4>1, <4>2 DEF streamVars
    <3> QED
      BY <3>2, <3>3
  <2>2. EpochInv'
    BY <2>1 DEF VideoInv, EpochInv, OfSession
  <2> QED
    BY <1>a, <2>1, <2>2
<1>8. CASE Minimize
  <2>1. /\ UNCHANGED <<streamVars, hosted, hostedHw, screen, epoch, since>>
        /\ mailbox' = None
    BY <1>8 DEF Minimize
  <2>2. EpochInv'
    BY <2>1 DEF VideoInv, EpochInv, OfSession, None, streamVars
  <2> QED
    BY <1>a, <2>1, <2>2 DEF streamVars
<1>9. CASE Restore
  <2>1. /\ UNCHANGED <<streamVars, mailbox, hosted, hostedHw, screen, since>>
        /\ epoch' = epoch + 1
    BY <1>9 DEF Restore
  <2>2. EpochInv'
    BY <2>1 DEF VideoInv, EpochInv, OfSession, None, streamVars
  <2>3. VideoShape'
    BY <2>1 DEF VideoInv, VideoShape, streamVars
  <2>4. GapInv' /\ PipeInv'
    BY <2>1 DEF VideoInv, GapInv, KeyComesFirst, IsVideo, PipeInv, streamVars
  <2> QED
    BY <2>2, <2>3, <2>4 DEF VideoInv
<1>10. CASE Retry
  <2>1. /\ epoch' = epoch + 1 /\ since' = epoch + 1
        /\ wire' = <<>> /\ pipe' = <<>> /\ gap' = TRUE /\ waiting' = FALSE
        /\ serverKeyed' = FALSE
        /\ frame' = None /\ mailbox' = None
        /\ hosted' = None /\ hostedHw' = None /\ screen' = None
    BY <1>10 DEF Retry, ResetView, StartStream
  <2>2. VideoShape'
    <3>1. wire' \in Seq(VideoMessages) /\ pipe' \in Seq(Units)
      BY <2>1
    <3>2. gap' \in BOOLEAN /\ waiting' \in BOOLEAN /\ serverKeyed' \in BOOLEAN
      BY <2>1
    <3>3. since' \in Nat /\ epoch' \in Nat /\ 1 <= since' /\ since' <= epoch'
      BY <2>1 DEF VideoInv, VideoShape
    <3> QED
      BY <3>1, <3>2, <3>3 DEF VideoShape
  <2>3. EpochInv' /\ GapInv' /\ PipeInv'
    BY <2>1 DEF EpochInv, OfSession, GapInv, PipeInv
  <2> QED
    BY <2>2, <2>3 DEF VideoInv
<1> QED
  BY <1>1, <1>2, <1>3, <1>4, <1>5, <1>6, <1>7, <1>8, <1>9, <1>10 DEF PictureNext, VideoThread

\* No picture is made of frames that are missing, or of an earlier session, in whatever
\* order the window is minimized and restored, sessions end and frames come
\* (handle_binary_message, store_pikvm_frame, reset_for_reconnect).
THEOREM PictureCorrect == PictureSpec => []PictureIsSound
<1>1. VideoInv => PictureIsSound
  <2> SUFFICES ASSUME VideoInv
               PROVE  PictureIsSound
    OBVIOUS
  <2>1. DOMAIN pipe = 1 .. Len(pipe)
    BY LenProperties DEF VideoInv, VideoShape
  <2>2. DecoderUnbroken
    BY <2>1 DEF DecoderUnbroken, VideoInv, PipeInv
  <2>3. OnlyThisSession
    BY DEF OnlyThisSession, VideoInv, VideoShape, EpochInv, OfSession
  <2> QED
    BY <2>2, <2>3 DEF PictureIsSound
<1> QED
  BY <1>1, PictureBegins, VideoStep, PTL DEF PictureSpec

=============================================================================
