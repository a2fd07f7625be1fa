----------------------------- MODULE AtenNetwork -----------------------------
(***************************************************************************)
(* run_aten_network_session, the network thread of an ATEN viewer, with    *)
(* the GUI thread of ViewBase: log in, open the websocket, read through    *)
(* the RFB handshake, and run one AtenNetworkRfbSession on an io_context.  *)
(*                                                                         *)
(* ATEN video is pulled.  The session asks for an update, and when one has *)
(* been handled a timer leads to the next request; what is read is parsed  *)
(* in drains of a few messages that post themselves.  If one link of that  *)
(* chain is missing the picture stands still and nothing reports it.       *)
(***************************************************************************)
EXTENDS ViewBase, Sequences

CONSTANTS
  MaxDrain,    \* kMaxAtenMessagesPerReceiveDrain
  MaxBusy,     \* bound of the model: packets and messages on their way when the BMC
               \* sends one that nobody asked for
  MaxQueue     \* bound of the model: packets waiting in write_queue_

ASSUME AtenAssumption ==
  /\ MaxDrain \in Nat \ {0}
  /\ MaxBusy \in Nat \ {0}
  /\ MaxQueue \in Nat \ {0}

VARIABLES
  socket,          \* the websocket: "none", "open" or "closed"
  redirects,       \* those that fetch_aten_ikvm_bootstrap() has followed, in its loop
  throwing,        \* an exception is on its way out of the run function
  inputSink,       \* InputQueue::sink_ is installed
  powerSink,       \* PowerChannel::sink_ is installed
  fullWanted,      \* g_aten_full_framebuffer_refresh_requested
  session,         \* "none", "created", "unstarted", "running" or closed_
  stopPosted,      \* request_stop() is posted on the strand
  requestPending,  \* framebuffer_request_pending_
  timerActive,     \* framebuffer_request_timer_active_
  parsePosted,     \* receive_parse_posted_
  parser,          \* the messages in parser_
  writing,         \* the packet of write_in_progress_, or "none"
  writeQueue,      \* write_queue_
  asked,           \* update requests the BMC has yet to answer
  wire             \* messages of the BMC that are not read yet

sessionVars == <<session, stopPosted, requestPending, timerActive, parsePosted,
                 parser, writing, writeQueue, asked, wire>>
netVars == <<socket, redirects, throwing, inputSink, powerSink, fullWanted, sessionVars>>
vars == <<viewVars, netVars>>

\* What the session's loop tells apart: an update with a picture, one that says that the
\* screen is blank, anything else, and what handle_message() or the parser throws at.
Messages == {"update", "blank", "other", "bad"}
Packets == {"request", "other"}

\* The requests that fetch_aten_ikvm_bootstrap() makes at the most.
MaxRequests == 4

CloseRegistry == Callback("registry", 0)
StopSession == Callback("session", 0)

WorkerSteps == {"bootstrap", "open", "publish", "handshake", "create", "publishStop",
                "install", "run", "clear", "logout", "disconnect"}

Init ==
  /\ ViewInit
  /\ socket = "none"
  /\ redirects = 0
  /\ throwing = FALSE
  /\ inputSink = FALSE
  /\ powerSink = FALSE
  /\ fullWanted = TRUE
  /\ session = "none"
  /\ stopPosted = FALSE
  /\ requestPending = FALSE
  /\ timerActive = FALSE
  /\ parsePosted = FALSE
  /\ parser = <<>>
  /\ writing = "none"
  /\ writeQueue = <<>>
  /\ asked = 0
  /\ wire = <<>>

-----------------------------------------------------------------------------
\* The network thread moves from one step to another; the GUI's variables stay.
Go(from, to) ==
  /\ worker = from
  /\ worker' = to
  /\ UNCHANGED <<gui, reconnecting, stopRequested, done, snapshot, sessionEnded,
                 error, run>>

\* An exception before there is a session: the web session, if there is one, logs out.
Fail(from, to) ==
  /\ Go(from, to)
  /\ throwing' = TRUE
  /\ redirects' = 0
  /\ UNCHANGED socket

\* login_bmc_web_session(), with no callback published and no look at the stop flag; nor
\* have the requests after it.  A redirect will do, but it has to set a cookie.
Login ==
  /\ \E status \in {"success", "redirect", "error"}, cookie \in BOOLEAN :
       IF status # "error" /\ cookie
       THEN Go("start", "bootstrap") /\ UNCHANGED <<socket, redirects, throwing>>
       ELSE Fail("start", "disconnect")
  /\ UNCHANGED <<forceClose, exception, connected, inputSink, powerSink, fullWanted,
                 sessionVars>>

\* redirect_target(): within the host, by a path or a URL, and by HTTPS.
Followed(location) == location \in {"path", "url"}

\* fetch_aten_ikvm_bootstrap(): the page, or a redirect to it, or neither.
Bootstrap ==
  /\ \/ /\ Go("bootstrap", "open")
        /\ redirects' = 0
        /\ UNCHANGED <<socket, throwing>>
     \/ \E location \in {"path", "url", "otherHost", "plainHttp", "none"} :
          IF Followed(location) /\ redirects + 1 < MaxRequests
          THEN /\ Go("bootstrap", "bootstrap")
               /\ redirects' = redirects + 1
               /\ UNCHANGED <<socket, throwing>>
          ELSE Fail("bootstrap", "logout")
  /\ UNCHANGED <<forceClose, exception, connected, inputSink, powerSink, fullWanted,
                 sessionVars>>

OpenWebSocket ==
  /\ \/ /\ Go("open", "publish")
        /\ socket' = "open"
        /\ UNCHANGED <<redirects, throwing>>
     \/ Fail("open", "logout")
  /\ UNCHANGED <<forceClose, exception, connected, inputSink, powerSink, fullWanted,
                 sessionVars>>

PublishCloseRegistry ==
  /\ Go("publish", "handshake")
  /\ forceClose' = CloseRegistry
  /\ UNCHANGED <<exception, connected, netVars>>

\* The RFB handshake in blocking reads: it is over when the BMC has answered ...
Handshake ==
  /\ socket = "open"
  /\ Go("handshake", "create")
  /\ UNCHANGED <<forceClose, exception, connected, netVars>>

\* ... or when it fails, which a stop can bring about by closing the socket.
HandshakeFails ==
  /\ Fail("handshake", "logout")
  /\ UNCHANGED <<forceClose, exception, connected, inputSink, powerSink, fullWanted,
                 sessionVars>>

\* kvm_connection(true), and the session object.
CreateSession ==
  /\ Go("create", "publishStop")
  /\ connected' = TRUE
  /\ session' = "created"
  /\ UNCHANGED <<forceClose, exception, socket, redirects, throwing, inputSink, powerSink,
                 fullWanted, stopPosted, requestPending, timerActive, parsePosted,
                 parser, writing, writeQueue, asked, wire>>

PublishStopSession ==
  /\ Go("publishStop", "install")
  /\ forceClose' = StopSession
  /\ UNCHANGED <<exception, connected, netVars>>

\* start(), up to the handler that it dispatches.
InstallSinks ==
  /\ Go("install", "run")
  /\ inputSink' = TRUE
  /\ powerSink' = TRUE
  /\ UNCHANGED <<forceClose, exception, connected, socket, redirects, throwing, fullWanted,
                 sessionVars>>

-----------------------------------------------------------------------------
\* AtenNetworkRfbSession, as io.run() runs it on the network thread.  A handler of the
\* session leaves the variables of the threads alone ...
Handler ==
  /\ worker = "run"
  /\ UNCHANGED <<viewVars, socket, redirects, throwing, inputSink, powerSink>>

\* ... unless it is close_now(), which stops the io_context: no handler runs any more, and
\* what the handlers look at is forgotten here already.
CloseNow ==
  /\ Go("run", "clear")
  /\ session' = "closed"
  /\ inputSink' = FALSE
  /\ socket' = "closed"
  /\ stopPosted' = FALSE
  /\ requestPending' = FALSE
  /\ timerActive' = FALSE
  /\ parsePosted' = FALSE
  /\ parser' = <<>>
  /\ writing' = "none"
  /\ writeQueue' = <<>>
  /\ asked' = 0
  /\ wire' = <<>>
  /\ UNCHANGED <<forceClose, connected, redirects, throwing, powerSink>>

\* queue_write() and start_write(): at once if nothing is being written.
QueueWrites(packets) ==
  LET waiting == writeQueue \o packets
  IN  IF writing = "none" /\ waiting # <<>>
      THEN writing' = Head(waiting) /\ writeQueue' = Tail(waiting)
      ELSE writeQueue' = waiting /\ UNCHANGED writing

\* A mutant of RunStart: no look at the stop flag.
RunStartAnyway ==
  /\ session = "created"
  /\ Handler
  /\ session' = "running"
  /\ requestPending' = TRUE
  /\ fullWanted' = FALSE
  /\ QueueWrites(<<"request", "other">>)
  /\ parsePosted' = TRUE
  /\ parser' \in {<<>>, <<"other">>}
  /\ UNCHANGED <<stopPosted, timerActive, asked, wire>>

\* The dispatched handler of start(): nothing at all if a stop has been asked for.
RunStart ==
  /\ session = "created"
  /\ Handler
  /\ IF stopRequested
     THEN /\ session' = "unstarted"
          /\ UNCHANGED <<fullWanted, requestPending, parsePosted, parser, writing,
                         writeQueue>>
     ELSE /\ session' = "running"
          /\ requestPending' = TRUE
          /\ fullWanted' = FALSE
          /\ QueueWrites(<<"request", "other">>)
          /\ parsePosted' = TRUE
          /\ parser' \in {<<>>, <<"other">>}
  /\ UNCHANGED <<stopPosted, timerActive, asked, wire>>

\* io.run() has nothing left to do.
IoReturns ==
  /\ session = "unstarted"
  /\ writing = "none"
  /\ Go("run", "clear")
  /\ UNCHANGED <<forceClose, exception, connected, netVars>>

\* The handler that send_packet() posts for a key, a pointer event or a power action.
RunInput ==
  /\ session \in {"created", "running"}
  /\ ~stopRequested
  /\ Len(writeQueue) < MaxQueue
  /\ Handler
  /\ QueueWrites(<<"other">>)
  /\ UNCHANGED <<fullWanted, session, stopPosted, requestPending, timerActive,
                 parsePosted, parser, asked, wire>>

RunStop ==
  /\ stopPosted
  /\ CloseNow
  /\ UNCHANGED <<exception, fullWanted>>

\* on_read(): what has come, and another read.
Read ==
  /\ session = "running"
  /\ socket = "open"
  /\ Handler
  /\ \E n \in 1 .. Len(wire) :
       /\ parser' = parser \o SubSeq(wire, 1, n)
       /\ wire' = SubSeq(wire, n + 1, Len(wire))
  /\ parsePosted' = TRUE
  /\ UNCHANGED <<fullWanted, session, stopPosted, requestPending, timerActive, writing,
                 writeQueue, asked>>

\* handle_read_error() and the errors of on_write(): the socket is gone, or the BMC has
\* ended it in one of the ways that count as expected.
StreamEnds ==
  /\ session = "running" \/ writing # "none"
  /\ CloseNow
  /\ UNCHANGED <<exception, fullWanted>>

StreamFails ==
  /\ session = "running" \/ writing # "none"
  /\ socket = "open"
  /\ CloseNow
  /\ exception' = IF stopRequested THEN exception ELSE FirstException
  /\ UNCHANGED fullWanted

Batch == SubSeq(parser, 1, IF Len(parser) < MaxDrain THEN Len(parser) ELSE MaxDrain)
Rest == SubSeq(parser, Len(Batch) + 1, Len(parser))

\* The messages of the drain that are handled: those before one that throws.
Handled == {i \in DOMAIN Batch : \A j \in 1 .. i : Batch[j] # "bad"}
Blanks == {i \in Handled : Batch[i] = "blank"}
Updates == {i \in Handled : Batch[i] \in {"update", "blank"}}

\* do_parse_receive_buffer(): an update takes the pending request with it and starts the
\* timer, unless that is running.  A full drain posts the next one.
Drain ==
  /\ session = "running"
  /\ parsePosted
  /\ Handler
  /\ IF stopRequested
     THEN /\ parsePosted' = FALSE
          /\ UNCHANGED <<fullWanted, requestPending, timerActive, parser>>
     ELSE /\ Handled = DOMAIN Batch
          /\ parser' = Rest
          /\ parsePosted' = (Len(Batch) = MaxDrain)
          /\ requestPending' = (requestPending /\ Updates = {})
          /\ timerActive' = (timerActive \/ Updates # {})
          /\ fullWanted' = (fullWanted \/ Blanks # {})
  /\ UNCHANGED <<session, stopPosted, writing, writeQueue, asked, wire>>

\* A message that throws ends the session.
DrainThrows ==
  /\ session = "running"
  /\ parsePosted
  /\ ~stopRequested
  /\ Handled # DOMAIN Batch
  /\ CloseNow
  /\ exception' = FirstException
  /\ fullWanted' = (fullWanted \/ Blanks # {})

\* A mutant of RequestTimer: a request is sent only for a full update.
RequestTimerFullOnly ==
  /\ session = "running"
  /\ timerActive
  /\ Handler
  /\ timerActive' = FALSE
  /\ IF stopRequested \/ requestPending \/ ~fullWanted
     THEN UNCHANGED <<fullWanted, requestPending, writing, writeQueue>>
     ELSE /\ requestPending' = TRUE
          /\ fullWanted' = FALSE
          /\ QueueWrites(<<"request">>)
  /\ UNCHANGED <<session, stopPosted, parsePosted, parser, asked, wire>>

\* The timer's handler and queue_framebuffer_update_request(), which takes the flag.
RequestTimer ==
  /\ session = "running"
  /\ timerActive
  /\ Handler
  /\ timerActive' = FALSE
  /\ IF stopRequested \/ requestPending
     THEN UNCHANGED <<fullWanted, requestPending, writing, writeQueue>>
     ELSE /\ requestPending' = TRUE
          /\ fullWanted' = FALSE
          /\ QueueWrites(<<"request">>)
  /\ UNCHANGED <<session, stopPosted, parsePosted, parser, asked, wire>>

\* The power poll, every five seconds.
PowerPoll ==
  /\ session = "running"
  /\ ~stopRequested
  /\ Len(writeQueue) < MaxQueue
  /\ Handler
  /\ QueueWrites(<<"other">>)
  /\ UNCHANGED <<fullWanted, session, stopPosted, requestPending, timerActive,
                 parsePosted, parser, asked, wire>>

\* on_write(), and the next packet.
Written ==
  /\ writing # "none"
  /\ socket = "open"
  /\ Handler
  /\ asked' = IF writing = "request" THEN asked + 1 ELSE asked
  /\ IF writeQueue = <<>>
     THEN writing' = "none" /\ UNCHANGED writeQueue
     ELSE writing' = Head(writeQueue) /\ writeQueue' = Tail(writeQueue)
  /\ UNCHANGED <<fullWanted, session, stopPosted, requestPending, timerActive,
                 parsePosted, parser, wire>>

\* The BMC answers a request ...
BmcAnswers ==
  /\ socket = "open"
  /\ asked > 0
  /\ asked' = asked - 1
  /\ \E message \in {"update", "blank"} : wire' = Append(wire, message)
  /\ UNCHANGED <<viewVars, socket, redirects, throwing, inputSink, powerSink, fullWanted,
                 session, stopPosted, requestPending, timerActive, parsePosted, parser, writing,
                 writeQueue>>

\* ... and sends what nobody asked for.
BmcSends ==
  /\ socket = "open"
  /\ session = "running"
  /\ Len(wire) + Len(parser) + Len(writeQueue) + asked <= MaxBusy
  /\ \E message \in Messages : wire' = Append(wire, message)
  /\ UNCHANGED <<viewVars, socket, redirects, throwing, inputSink, powerSink, fullWanted,
                 session, stopPosted, requestPending, timerActive, parsePosted, parser, writing,
                 writeQueue, asked>>

-----------------------------------------------------------------------------
\* io.run() has returned.
ClearCallbacks ==
  /\ Go("clear", "logout")
  /\ forceClose' = Empty
  /\ inputSink' = FALSE
  /\ UNCHANGED <<exception, connected, socket, redirects, throwing, powerSink, fullWanted,
                 sessionVars>>

\* The way out of the function, returning or throwing: the session, the websocket,
\* ~AtenLogoutGuard and the web session go.
Logout ==
  /\ Go("logout", "disconnect")
  /\ socket' = "none"
  /\ session' = "none"
  /\ stopPosted' = FALSE
  /\ UNCHANGED <<forceClose, exception, connected, redirects, throwing, inputSink, powerSink,
                 fullWanted, requestPending, timerActive, parsePosted, parser, writing,
                 writeQueue, asked, wire>>

\* A mutant of Disconnect: no guard.
StayConnected ==
  /\ Go("disconnect", "cleanup")
  /\ exception' = IF throwing THEN FirstException ELSE exception
  /\ throwing' = FALSE
  /\ UNCHANGED <<connected, forceClose, socket, redirects, inputSink, powerSink, fullWanted,
                 sessionVars>>

\* ~ConnectionStatusGuard, and the catch (...) of KvmNetworkWorker::start.
Disconnect ==
  /\ Go("disconnect", "cleanup")
  /\ connected' = FALSE
  /\ exception' = IF throwing THEN FirstException ELSE exception
  /\ throwing' = FALSE
  /\ UNCHANGED <<forceClose, socket, redirects, inputSink, powerSink, fullWanted,
                 sessionVars>>

\* The cleanup function AtenView gives the worker.
CleanUp ==
  /\ Go("cleanup", "dropForceClose")
  /\ inputSink' = FALSE
  /\ powerSink' = FALSE
  /\ UNCHANGED <<forceClose, exception, connected, socket, redirects, throwing, fullWanted,
                 sessionVars>>

-----------------------------------------------------------------------------
\* What the callback that stop() copied does.  StopSession posts to its session while
\* that lives; CloseRegistry closes the websocket, and after the web session is gone
\* there is none.
GuiForceClose ==
  /\ CallForceClose
  /\ socket' = IF snapshot = CloseRegistry /\ socket = "open" THEN "closed" ELSE socket
  /\ stopPosted' = (\/ stopPosted
                    \/ snapshot = StopSession /\ session # "none" /\ session # "closed")
  /\ UNCHANGED <<redirects, throwing, inputSink, powerSink, fullWanted,
                 session, requestPending,
                 timerActive, parsePosted, parser, writing, writeQueue, asked, wire>>

\* do_retry() clears the input queue, and not the flag for a full update.
GuiRestart ==
  /\ JoinAndRestart
  /\ inputSink' = FALSE
  /\ UNCHANGED <<socket, redirects, throwing, powerSink, fullWanted, sessionVars>>

\* request_full_refresh(), from on_restored() or after the frame queue overflowed.
RequestFullRefresh ==
  /\ gui = "idle"
  /\ fullWanted' = TRUE
  /\ UNCHANGED <<viewVars, socket, redirects, throwing, inputSink, powerSink, sessionVars>>

\* The viewer has closed its window: nothing is left to do.
Closed ==
  /\ gui = "closed"
  /\ UNCHANGED vars

-----------------------------------------------------------------------------
GuiNext ==
  \/ (Gui \/ JoinAndClose) /\ UNCHANGED netVars
  \/ GuiForceClose
  \/ GuiRestart
  \/ RequestFullRefresh

\* The synchronous requests and handshakes, in which the network thread waits for the BMC
\* whatever the stop does ...
BmcWaits == Login \/ Bootstrap \/ OpenWebSocket \/ Logout

\* ... what the network thread does by itself once it can ...
WorkerRuns ==
  \/ PublishCloseRegistry \/ CreateSession \/ PublishStopSession
  \/ InstallSinks \/ RunStart \/ IoReturns
  \/ RunStop \/ Drain \/ DrainThrows
  \/ ClearCallbacks \/ Disconnect \/ CleanUp
  \/ (DropForceClose \/ Finish) /\ UNCHANGED netVars

WorkerNext == BmcWaits \/ WorkerRuns

\* ... and what it does when the BMC, the socket or the viewer gives it a reason.
EventNext ==
  \/ Handshake \/ HandshakeFails \/ Read \/ Written \/ StreamEnds \/ StreamFails
  \/ RunInput \/ PowerPoll \/ RequestTimer
  \/ BmcAnswers \/ BmcSends

Next == GuiNext \/ WorkerNext \/ EventNext \/ Closed

Spec == Init /\ [][Next]_vars

\* Both threads are scheduled, timers fire and the GUI keeps ticking.  A socket that is
\* closed fails the operations on it, the blocking reads of the RFB handshake included.
\* The BMC need not answer, read or send anything.
Fairness ==
  /\ WF_vars(WorkerRuns)
  /\ WF_vars(socket = "closed" /\ HandshakeFails)
  /\ WF_vars(socket = "closed" /\ StreamEnds)
  /\ WF_vars(RequestTimer)
  /\ WF_vars(Poll /\ UNCHANGED netVars)
  /\ WF_vars((RequestStop \/ SnapshotForceClose \/ JoinAndClose) /\ UNCHANGED netVars)
  /\ WF_vars(GuiForceClose)
  /\ WF_vars(GuiRestart)

FairSpec == Spec /\ Fairness

-----------------------------------------------------------------------------
FlagsOK ==
  /\ ViewFlagsOK
  /\ {throwing, inputSink, powerSink, fullWanted, stopPosted, requestPending,
      timerActive, parsePosted} \subseteq BOOLEAN

\* One request is pending at a time, so that a BMC has no more of them to answer than it
\* has provoked itself with updates that nobody asked for.
TypeOK ==
  /\ FlagsOK
  /\ ViewValuesOK(WorkerSteps, {Empty, CloseRegistry, StopSession})
  /\ socket \in {"none", "open", "closed"}
  /\ redirects \in 0 .. MaxRequests
  /\ session \in {"none", "created", "unstarted", "running", "closed"}
  /\ parser \in Seq(Messages)
  /\ writing \in Packets \cup {"none"}
  /\ writeQueue \in Seq(Packets)
  /\ asked \in 0 .. MaxBusy + 3
  /\ wire \in Seq(Messages)

\* Somewhere between the session and the BMC there is an update request, or an answer to
\* one.
UnderWay ==
  \/ writing = "request"
  \/ \E i \in DOMAIN writeQueue : writeQueue[i] = "request"
  \/ asked > 0
  \/ \E i \in DOMAIN wire : wire[i] \in {"update", "blank"}
  \/ \E i \in DOMAIN parser : parser[i] \in {"update", "blank"}

\* The pull loop never stalls: while a session runs the timer does, or a request is
\* pending, and one that is pending is really under way; what is in the parser has a
\* drain coming; and a packet that waits has one before it that is being written.
LoopIsAlive ==
  session = "running" /\ ~stopRequested =>
    /\ timerActive \/ (requestPending /\ UnderWay)
    /\ parser # <<>> => parsePosted
    /\ writeQueue # <<>> => writing # "none"

\* The network thread stays in a synchronous call for good, without a socket that a stop
\* could close: a request, a handshake of the websocket, or the RFB handshake before it
\* has been stopped.
BmcSilent ==
  <>[](worker \in {"start", "bootstrap", "open", "logout"}
         \/ (worker = "handshake" /\ socket = "open"))

\* A stop, whenever it comes, ends the network thread, unless the BMC leaves it in a
\* synchronous call without an answer.
StopCompletes == BmcSilent \/ ((gui = "join") ~> (gui # "join"))

\* The two threads implement the lifecycle of a window.
ImplementsLifecycle == Lifecycle!Spec

=============================================================================
