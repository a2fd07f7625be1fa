----------------------------- MODULE PikvmNetwork -----------------------------
(***************************************************************************)
(* run_pikvm_network_session, the network thread of a PiKVM viewer, with   *)
(* the GUI thread of ViewBase.  It opens two websockets and gives each a   *)
(* thread of its own, control (input and events) and video, and joins both.*)
(*                                                                         *)
(* Whoever wants the session to end, the GUI thread by force_close_ or any *)
(* of the three others by an error, calls request_stop(): the flag, a copy *)
(* of the stop handles under their mutex, then one handle after the other. *)
(* The control handle asks the event session to write what is queued and   *)
(* close, if the thread has made one already, and closes the socket if not.*)
(* The power worker of the session is the subject of PowerPath.            *)
(***************************************************************************)
EXTENDS ViewBase, Sequences, SequencesExt

CONSTANT MaxInputs    \* bound of the model: input events per run

ASSUME PikvmAssumption == MaxInputs \in Nat

VARIABLES
  web,         \* the BmcWebSession exists
  throwing,    \* an exception is on its way out of the run function
  socket,      \* the websocket of each channel: "none", "open" or "closed"
  thread,      \* program counter of each channel's thread
  handles,     \* PikvmNetworkStopHandles: the channels whose handle is set
  calls,       \* for each thread, the handles that its stop_all() has yet to call
  inputSink,   \* InputQueue::sink_ is installed
  powerSink,   \* PowerChannel::sink_ is installed
  inputs,      \* input events so far
  session,     \* PikvmEventSession: "none", "started", "published", "closed" or "drained"
  posted,      \* handlers posted on its strand
  stopping,    \* stopping_
  writeQueue,  \* write_queue_, of which the head is being written
  graceTimer,  \* force_close_timer_ is armed
  onWire,      \* history: the inputs that were written
  promised     \* history: the inputs that came before the session was asked to stop

Channels == {"control", "video"}
Callers == {"gui", "net"} \cup Channels

sessionVars == <<session, posted, stopping, writeQueue, graceTimer, onWire, promised>>
sinkVars == <<inputSink, powerSink>>
channelVars == <<socket, thread, handles, calls>>
netVars == <<web, throwing, channelVars, sinkVars, inputs, sessionVars>>
vars == <<viewVars, netVars>>

RequestStopCallback == Callback("session", 0)
StopHandler == 0       \* request_stop() on the strand; an input event is its number
NotAsked == MaxInputs + 1

WorkerSteps == {"probe", "check", "publish", "power", "checkControl", "openControl",
                "setControl", "checkVideo", "openVideo", "setVideo", "spawnControl",
                "spawnVideo", "joinControl", "joinVideo", "catch", "rethrow", "clear",
                "logout"}

Init ==
  /\ ViewInit
  /\ web = FALSE
  /\ throwing = FALSE
  /\ socket = [c \in Channels |-> "none"]
  /\ thread = [c \in Channels |-> "none"]
  /\ handles = {}
  /\ calls = [t \in Callers |-> {}]
  /\ inputSink = FALSE
  /\ powerSink = FALSE
  /\ inputs = 0
  /\ session = "none"
  /\ posted = <<>>
  /\ stopping = FALSE
  /\ writeQueue = <<>>
  /\ graceTimer = FALSE
  /\ onWire = <<>>
  /\ promised = NotAsked

-----------------------------------------------------------------------------
\* The network thread moves from one step to another; the GUI's variables stay, and the
\* stop flag is what request_stop() makes of it.
Go(from, to) ==
  /\ worker = from
  /\ worker' = to
  /\ UNCHANGED <<gui, reconnecting, done, snapshot, sessionEnded, error, run>>

\* BmcWebSession::force_close_websocket(): the socket of a channel, if it is registered.
Closed(c) == [socket EXCEPT ![c] = IF @ = "open" THEN "closed" ELSE @]

\* login_pikvm, and the logout guard is armed.
Login ==
  /\ \/ /\ Go("start", "probe")
        /\ web' = TRUE
        /\ UNCHANGED throwing
     \/ /\ Go("start", "cleanup")
        /\ throwing' = TRUE
        /\ UNCHANGED web
  /\ UNCHANGED <<stopRequested, forceClose, exception, connected, channelVars, sinkVars,
                 inputs, sessionVars>>

\* GET /api/atx, whose errors are only logged.
Probe ==
  /\ Go("probe", "check")
  /\ UNCHANGED <<stopRequested, forceClose, exception, connected, netVars>>

\* The three looks at the stop flag: a return leaves everything as it is to
\* ~PikvmLogoutGuard and the worker's cleanup.
CheckStop(from, to) ==
  /\ Go(from, IF stopRequested THEN "logout" ELSE to)
  /\ UNCHANGED <<stopRequested, forceClose, exception, connected, netVars>>

CheckStops ==
  \/ CheckStop("check", "publish")
  \/ CheckStop("checkControl", "openControl")
  \/ CheckStop("checkVideo", "openVideo")

PublishRequestStop ==
  /\ Go("publish", "power")
  /\ forceClose' = RequestStopCallback
  /\ UNCHANGED <<stopRequested, exception, connected, netVars>>

InstallPower ==
  /\ Go("power", "checkControl")
  /\ powerSink' = TRUE
  /\ UNCHANGED <<stopRequested, forceClose, exception, connected, web, throwing,
                 channelVars, inputSink, inputs, sessionVars>>

\* open_websocket() registers the connection, or throws.
OpenWebsocket(c, from, to) ==
  /\ \/ Go(from, to) /\ socket' = [socket EXCEPT ![c] = "open"]
     \/ Go(from, "catch") /\ UNCHANGED socket
  /\ UNCHANGED <<stopRequested, forceClose, exception, connected, web, throwing, thread,
                 handles, calls, sinkVars, inputs, sessionVars>>

SetHandle(c, from, to) ==
  /\ Go(from, to)
  /\ handles' = handles \cup {c}
  /\ UNCHANGED <<stopRequested, forceClose, exception, connected, web, throwing, socket,
                 thread, calls, sinkVars, inputs, sessionVars>>

Spawn(c, from, to) ==
  /\ Go(from, to)
  /\ thread' = [thread EXCEPT ![c] = "start"]
  /\ UNCHANGED <<stopRequested, forceClose, exception, connected, web, throwing, socket,
                 handles, calls, sinkVars, inputs, sessionVars>>

\* The second thread cannot be created: std::system_error.
SpawnFails ==
  /\ Go("spawnVideo", "catch")
  /\ UNCHANGED <<stopRequested, forceClose, exception, connected, netVars>>

OpenWebsockets ==
  \/ OpenWebsocket("control", "openControl", "setControl")
  \/ OpenWebsocket("video", "openVideo", "setVideo")

StartChannels ==
  \/ SetHandle("control", "setControl", "checkVideo")
  \/ SetHandle("video", "setVideo", "spawnControl")
  \/ Spawn("control", "spawnControl", "spawnVideo")
  \/ Spawn("video", "spawnVideo", "joinControl")
  \/ SpawnFails

\* A mutant of Join: the video thread is detached.
JoinControl(c, from, to) ==
  /\ c = "video" \/ thread[c] \in {"none", "ended"}
  /\ Go(from, to)
  /\ UNCHANGED <<stopRequested, forceClose, exception, connected, netVars>>

\* thread::join() of a thread that was started.
Join(c, from, to) ==
  /\ thread[c] \in {"none", "ended"}
  /\ Go(from, to)
  /\ UNCHANGED <<stopRequested, forceClose, exception, connected, netVars>>

\* The catch (...): request_stop(), whose handles CallHandle calls before the joins.
CatchStop ==
  /\ Go("catch", "rethrow")
  /\ stopRequested' = TRUE
  /\ throwing' = TRUE
  /\ calls' = [calls EXCEPT !["net"] = handles]
  /\ UNCHANGED <<forceClose, exception, connected, web, socket, thread, handles, sinkVars,
                 inputs, sessionVars>>

CatchJoin ==
  /\ calls["net"] = {}
  /\ Join("control", "rethrow", "clear")

\* Both ways out forget the sinks and force_close_; the normal one the handles as well.
ClearCallbacks ==
  /\ Go("clear", "logout")
  /\ handles' = IF throwing THEN handles ELSE {}
  /\ inputSink' = FALSE
  /\ powerSink' = FALSE
  /\ forceClose' = Empty
  /\ UNCHANGED <<stopRequested, exception, connected, web, throwing, socket, thread, calls,
                 inputs, sessionVars>>

\* The locals go: ~PowerRestWorker, ~PikvmLogoutGuard with its request, the web session
\* and with it the websockets.  The handles live on in a copy of force_close_.
Logout ==
  /\ Go("logout", "cleanup")
  /\ web' = FALSE
  /\ socket' = [c \in Channels |-> "none"]
  /\ UNCHANGED <<stopRequested, forceClose, exception, connected, throwing, thread, handles,
                 calls, sinkVars, inputs, sessionVars>>

\* The catch (...) of KvmNetworkWorker::start, and the cleanup function of PikvmView.
CleanUp ==
  /\ Go("cleanup", "dropForceClose")
  /\ inputSink' = FALSE
  /\ powerSink' = FALSE
  /\ exception' = IF throwing THEN FirstException ELSE exception
  /\ throwing' = FALSE
  /\ UNCHANGED <<stopRequested, forceClose, connected, web, channelVars, inputs, sessionVars>>

-----------------------------------------------------------------------------
\* A thread of a channel moves; the view's variables that no thread of it writes stay.
Thread(c, from, to) ==
  /\ thread[c] = from
  /\ thread' = [thread EXCEPT ![c] = to]
  /\ UNCHANGED <<gui, reconnecting, done, forceClose, snapshot, sessionEnded, error, worker,
                 run, web, throwing, handles, powerSink, inputs>>

\* A mutant of OnError: the other channel is not told.
OnErrorAlone(c) ==
  /\ exception' = FirstException
  /\ stopRequested' = TRUE
  /\ UNCHANGED calls

\* on_error: set_exception() and request_stop(), as far as the copy of the handles.
OnError(c) ==
  /\ exception' = FirstException
  /\ stopRequested' = TRUE
  /\ calls' = [calls EXCEPT ![c] = handles]

\* The end of a thread's loop, by an error that is reported or by one that is expected.
Report(c) == OnError(c) \/ UNCHANGED <<exception, stopRequested, calls>>

\* run_pikvm_video_worker: the stop flag, and the stream starts to read.
StartVideo ==
  /\ Thread("video", "start", IF stopRequested THEN "ended" ELSE "running")
  /\ socket' = IF stopRequested THEN Closed("video") ELSE socket
  /\ UNCHANGED <<stopRequested, exception, connected, calls, inputSink, sessionVars>>

\* on_read() fails, which is reported unless it is expected, on_start_write() fails or a
\* message throws, which always is: the stream is closed and io.run() returns.
VideoEnds ==
  /\ Thread("video", "running", "stopAll")
  /\ Report("video")
  /\ UNCHANGED <<socket, connected, inputSink, sessionVars>>

VideoReturns ==
  /\ calls["video"] = {}
  /\ Thread("video", "stopAll", "ended")
  /\ UNCHANGED <<stopRequested, exception, connected, socket, calls, inputSink, sessionVars>>

\* run_pikvm_control_worker: the stop flag, then the link is up and the session made ...
StartControl ==
  /\ Thread("control", "start", IF stopRequested THEN "ended" ELSE "publish")
  /\ socket' = IF stopRequested THEN Closed("control") ELSE socket
  /\ connected' = (connected \/ ~stopRequested)
  /\ session' = IF stopRequested THEN session ELSE "started"
  /\ UNCHANGED <<stopRequested, exception, calls, inputSink, posted, stopping, writeQueue,
                 graceTimer, onWire, promised>>

\* ... stop_state->session is assigned: from now on a stop goes through the session ...
PublishSession ==
  /\ Thread("control", "publish", "install")
  /\ session' = "published"
  /\ UNCHANGED <<stopRequested, exception, connected, socket, calls, inputSink, posted,
                 stopping, writeQueue, graceTimer, onWire, promised>>

\* ... and the sink installed, before io.run().
InstallInput ==
  /\ Thread("control", "install", "running")
  /\ inputSink' = TRUE
  /\ UNCHANGED <<stopRequested, exception, connected, socket, calls, sessionVars>>

\* io.run() has returned: the session's handlers are gone, and the link is down.
ControlReturns ==
  /\ calls["control"] = {}
  /\ Thread("control", "stopAll", "ended")
  /\ connected' = FALSE
  /\ UNCHANGED <<stopRequested, exception, socket, calls, inputSink, sessionVars>>

-----------------------------------------------------------------------------
\* A handler of the event session on the control thread.
Handler ==
  /\ thread["control"] = "running"
  /\ session = "published"
  /\ UNCHANGED <<viewVars, web, throwing, thread, handles, calls, sinkVars, inputs, promised>>

\* force_close_now(): no handler has anything to do any more, and io.run() returns.
ForceCloseNow(how) ==
  /\ Thread("control", "running", "stopAll")
  /\ session = "published"
  /\ session' = how
  /\ socket' = Closed("control")
  /\ posted' = <<>>
  /\ writeQueue' = <<>>
  /\ graceTimer' = FALSE
  /\ stopping' = FALSE
  /\ UNCHANGED <<connected, inputSink, promised>>

\* do_enqueue_input(): ignored when stopping; the first in the queue is being written.
EnqueueInput ==
  /\ posted # <<>>
  /\ Head(posted) # StopHandler
  /\ Handler
  /\ posted' = Tail(posted)
  /\ writeQueue' = IF stopping THEN writeQueue ELSE Append(writeQueue, Head(posted))
  /\ UNCHANGED <<socket, session, stopping, graceTimer, onWire>>

\* A mutant of StopPosted: it does not wait for the queue.
StopPostedAtOnce ==
  /\ posted # <<>>
  /\ Head(posted) = StopHandler
  /\ ForceCloseNow("drained")
  /\ UNCHANGED <<exception, stopRequested, calls, onWire>>

\* The handler of request_stop(): what is queued is written first, within a grace period.
StopPosted ==
  /\ posted # <<>>
  /\ Head(posted) = StopHandler
  /\ IF writeQueue = <<>>
     THEN /\ ForceCloseNow("drained")
          /\ UNCHANGED <<exception, stopRequested, calls, onWire>>
     ELSE /\ Handler
          /\ posted' = Tail(posted)
          /\ stopping' = TRUE
          /\ graceTimer' = TRUE
          /\ UNCHANGED <<socket, session, writeQueue, onWire>>

\* on_write(): the next packet, or the end if there is none and a stop has been asked for.
Written ==
  /\ writeQueue # <<>>
  /\ socket["control"] = "open"
  /\ onWire' = Append(onWire, Head(writeQueue))
  /\ IF stopping /\ Len(writeQueue) = 1
     THEN /\ ForceCloseNow("drained")
          /\ UNCHANGED <<exception, stopRequested, calls>>
     ELSE /\ Handler
          /\ writeQueue' = Tail(writeQueue)
          /\ UNCHANGED <<socket, session, posted, stopping, graceTimer>>

\* on_read() or on_write() fails.  Nothing is reported when a stop was asked for or the
\* peer has closed the websocket.
ControlFails ==
  /\ IF socket["control"] = "closed" \/ stopRequested \/ stopping
     THEN UNCHANGED <<exception, stopRequested, calls>>
     ELSE Report("control")
  /\ ForceCloseNow("closed")
  /\ UNCHANGED onWire

\* A mutant of GraceOver: the timer is forgotten.
GraceIgnored == FALSE

GraceOver ==
  /\ graceTimer
  /\ ForceCloseNow("closed")
  /\ UNCHANGED <<exception, stopRequested, calls, onWire>>

-----------------------------------------------------------------------------
\* stop_all() calls the control handle and then the video handle.  The control handle asks
\* the session, once stop_state->session is set; the object is alive until its thread ends.
CallHandle(t) ==
  /\ calls[t] # {}
  /\ LET c == IF "control" \in calls[t] THEN "control" ELSE "video"
         alive == session \in {"published", "closed", "drained"}
                    /\ thread["control"] \in {"install", "running"}
     IN  /\ calls' = [calls EXCEPT ![t] = @ \ {c}]
         /\ IF c = "control" /\ alive
            THEN /\ posted' = Append(posted, StopHandler)
                 /\ promised' = IF promised = NotAsked THEN inputs ELSE promised
                 /\ UNCHANGED socket
            ELSE socket' = Closed(c) /\ UNCHANGED <<posted, promised>>
  /\ stopRequested' = TRUE
  /\ UNCHANGED <<gui, reconnecting, done, forceClose, snapshot, exception, sessionEnded,
                 error, connected, worker, run, web, throwing, thread, handles, sinkVars,
                 inputs, session, stopping, writeQueue, graceTimer, onWire>>

\* The GUI thread in stop(): the callback copies the handles.
GuiForceClose ==
  /\ CallForceClose
  /\ calls' = [calls EXCEPT !["gui"] = handles]
  /\ UNCHANGED <<web, throwing, socket, thread, handles, sinkVars, inputs, sessionVars>>

GuiClose ==
  /\ calls["gui"] = {}
  /\ JoinAndClose
  /\ UNCHANGED netVars

\* A new run has a session, handles and threads of its own.
GuiRestart ==
  /\ calls["gui"] = {}
  /\ JoinAndRestart
  /\ thread' = [c \in Channels |-> "none"]
  /\ handles' = {}
  /\ inputSink' = FALSE
  /\ inputs' = 0
  /\ session' = "none"
  /\ posted' = <<>>
  /\ onWire' = <<>>
  /\ promised' = NotAsked
  /\ UNCHANGED <<web, throwing, socket, calls, powerSink, stopping, writeQueue, graceTimer>>

\* A key: the sink posts it to the session, if that still exists.
Input ==
  /\ gui = "idle"
  /\ inputSink
  /\ inputs < MaxInputs
  /\ inputs' = inputs + 1
  /\ posted' = IF session = "published" THEN Append(posted, inputs + 1) ELSE posted
  /\ UNCHANGED <<viewVars, web, throwing, channelVars, sinkVars, session, stopping,
                 writeQueue, graceTimer, onWire, promised>>

\* The viewer has closed its window: nothing is left to do.
WindowClosed ==
  /\ gui = "closed"
  /\ UNCHANGED vars

-----------------------------------------------------------------------------
GuiNext ==
  \/ Gui /\ UNCHANGED netVars
  \/ GuiForceClose \/ GuiClose \/ GuiRestart \/ Input

\* The steps in which the network thread waits for the BMC: requests, TLS and websocket
\* handshakes are synchronous calls on streams that nobody else knows of, which neither
\* the stop nor an expires_after() ends.
Synchronous == {"start", "probe", "openControl", "openVideo", "logout"}

BmcAnswers == Login \/ Probe \/ OpenWebsockets \/ Logout

WorkerRuns ==
  \/ CheckStops \/ PublishRequestStop \/ InstallPower \/ StartChannels
  \/ Join("control", "joinControl", "joinVideo") \/ Join("video", "joinVideo", "clear")
  \/ CatchStop \/ CatchJoin \/ ClearCallbacks \/ CleanUp
  \/ (DropForceClose \/ Finish) /\ UNCHANGED netVars

WorkerNext == BmcAnswers \/ WorkerRuns

ControlNext ==
  StartControl \/ PublishSession \/ InstallInput \/ EnqueueInput \/ StopPosted
    \/ ControlReturns

VideoNext == StartVideo \/ VideoReturns

SocketNext == Written \/ ControlFails \/ VideoEnds

Next ==
  \/ GuiNext \/ WorkerNext \/ ControlNext \/ VideoNext \/ SocketNext \/ GraceOver
  \/ \E t \in Callers : CallHandle(t)
  \/ WindowClosed

Spec == Init /\ [][Next]_vars

-----------------------------------------------------------------------------
TypeOK ==
  /\ ViewFlagsOK
  /\ {web, throwing, inputSink, powerSink, stopping, graceTimer} \subseteq BOOLEAN
  /\ ViewValuesOK(WorkerSteps, {Empty, RequestStopCallback})
  /\ socket \in [Channels -> {"none", "open", "closed"}]
  /\ thread \in [Channels -> {"none", "start", "publish", "install", "running", "stopAll",
                              "ended"}]
  /\ handles \subseteq Channels
  /\ calls \in [Callers -> SUBSET Channels]
  /\ inputs \in 0 .. MaxInputs
  /\ session \in {"none", "started", "published", "closed", "drained"}
  /\ {posted, writeQueue, onWire} \subseteq Seq(0 .. MaxInputs)
  /\ promised \in 0 .. NotAsked

\* Once the ended console is up nothing of the session is left, on whichever of its ways
\* out the four threads met: no thread, socket, sink or callback, and the link is down.
EndedMeansQuiet ==
  sessionEnded =>
    /\ worker = "exited"
    /\ ~connected
    /\ ~web
    /\ \A c \in Channels : thread[c] \in {"none", "ended"} /\ socket[c] = "none"
    /\ \A t \in Callers \ {"gui"} : calls[t] = {}
    /\ forceClose = Empty
    /\ ~inputSink
    /\ ~powerSink

\* A stop lets the session write what it was given before, unless the grace period runs out
\* or the socket fails: keys that were released before the window closed are released on
\* the host.  What comes after the stop is not written.
NothingLeftUnwritten ==
  session = "drained" => onWire = [i \in 1 .. promised |-> i]

\* The network thread stays in a synchronous call for good.
BmcSilent == <>[](worker \in Synchronous)

\* A stop, whenever it comes, ends all three threads, although the BMC may read and send
\* nothing once the websockets are open: the handles that are not set yet when it copies
\* them belong to channels whose threads look at the flag.  The one thing that can hold the
\* window is a request or a handshake of the network thread that the BMC never answers.
StopCompletes == BmcSilent \/ ((gui = "join") ~> (gui # "join"))

\* An error on one channel ends the other one too, and is shown, unless the BMC leaves the
\* logout in between without an answer.
ErrorEndsRun ==
  BmcSilent \/ ((exception # 0 /\ gui = "idle") ~> (sessionEnded \/ gui # "idle"))

=============================================================================
