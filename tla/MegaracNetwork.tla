--------------------------- MODULE MegaracNetwork ---------------------------
(***************************************************************************)
(* run_megarac_view_session, the network thread of a MegaRAC viewer, with  *)
(* the GUI thread of ViewBase: log in, open the /kvm websocket, run one    *)
(* KvmAsyncSession on it, and open it again (same token) while the BMC     *)
(* answers "session unregistered".                                         *)
(*                                                                         *)
(* One attempt is one websocket and one KvmAsyncSession.  The session is   *)
(* seen here only as far as stopping it matters; its packets and its write *)
(* queue are not in this module.                                           *)
(***************************************************************************)
EXTENDS ViewBase

CONSTANTS
  MaxValidationRetries,  \* kMaxValidationRetries
  BmcCommitsLate         \* may the BMC answer "session unregistered"?

ASSUME MegaracAssumption ==
  /\ MaxValidationRetries \in Nat \ {0}
  /\ BmcCommitsLate \in BOOLEAN

VARIABLES
  attempt,        \* the loop counter
  web,            \* session.web: "none", "live" or "gone"
  open,           \* attempts whose registered websocket is open
  session,        \* KvmAsyncSession of this attempt: closed_ and stopping_
  stopPosted,     \* request_stop() is posted on its strand
  unregistered,   \* validation_unregistered_
  inputSink,      \* InputQueue::sink_: 0, or 1 + the attempt it sends to
  powerSink,      \* PowerChannel::sink_: the same
  throwing        \* an exception is on its way to the catch (...)

netVars == <<attempt, web, open, session, stopPosted, unregistered, inputSink,
             powerSink, throwing>>
vars == <<viewVars, netVars>>

Attempts == 0 .. MaxValidationRetries - 1
CloseRegistry == Callback("registry", 0)
StopSession(a) == Callback("session", a)
Callbacks == {Empty, CloseRegistry} \cup {StopSession(a) : a \in Attempts}

WorkerSteps == {"publish", "loop", "open", "check", "forceCloseNetwork", "install",
                "publishStop", "run", "afterRun", "logout", "catch", "clear",
                "disconnect"}

Init ==
  /\ ViewInit
  /\ attempt = 0
  /\ web = "none"
  /\ open = {}
  /\ session = "none"
  /\ stopPosted = FALSE
  /\ unregistered = FALSE
  /\ inputSink = 0
  /\ powerSink = 0
  /\ throwing = FALSE

-----------------------------------------------------------------------------
\* The network thread moves from one step to another; the GUI's variables stay.
Go(from, to) ==
  /\ worker = from
  /\ worker' = to
  /\ UNCHANGED <<gui, reconnecting, stopRequested, done, snapshot, sessionEnded,
                 error, run>>

\* login_megarac and fetch_kvm_config: blocking requests that no callback can
\* interrupt.  The first failure leaves no session to log out of.
Login ==
  /\ \/ /\ Go("start", "publish")
        /\ web' = "live"
        /\ throwing' = FALSE
     \/ /\ Go("start", "catch")
        /\ web' = "none"
        /\ throwing' = TRUE
     \/ /\ Go("start", "logout")
        /\ web' = "live"
        /\ throwing' = TRUE
  /\ attempt' = 0
  /\ session' = "none"
  /\ unregistered' = FALSE
  /\ stopPosted' = FALSE
  /\ UNCHANGED <<forceClose, exception, connected, open, inputSink, powerSink>>

PublishCloseRegistry ==
  /\ Go("publish", "loop")
  /\ forceClose' = CloseRegistry
  /\ UNCHANGED <<exception, connected, netVars>>

\* The loop condition, and on a later attempt the retry delay after it.
LoopTop ==
  /\ Go("loop", IF stopRequested THEN "logout" ELSE "open")
  /\ UNCHANGED <<forceClose, exception, connected, netVars>>

\* open_websocket blocks until the websocket is up and registered, or throws.
OpenWebsocket ==
  /\ \/ /\ Go("open", "check")
        /\ open' = open \cup {attempt}
        /\ connected' = TRUE
        /\ UNCHANGED throwing
     \/ /\ Go("open", "logout")
        /\ throwing' = TRUE
        /\ UNCHANGED <<open, connected>>
  /\ UNCHANGED <<forceClose, exception, attempt, web, session, stopPosted,
                 unregistered, inputSink, powerSink>>

\* A mutant: no second look at the flag once the websocket is open.
CheckNothing ==
  /\ Go("check", "install")
  /\ UNCHANGED <<forceClose, exception, connected, netVars>>

CheckStop ==
  /\ Go("check", IF stopRequested THEN "forceCloseNetwork" ELSE "install")
  /\ UNCHANGED <<forceClose, exception, connected, netVars>>

\* force_close_network, and the return out of the try block.
ForceCloseNetwork ==
  /\ Go("forceCloseNetwork", "logout")
  /\ forceClose' = Empty
  /\ inputSink' = 0
  /\ open' = IF forceClose = CloseRegistry THEN {} ELSE open
  /\ UNCHANGED <<exception, connected, attempt, web, session, stopPosted,
                 unregistered, powerSink, throwing>>

\* The session object of this attempt, and the two sinks that lead to it.
InstallSinks ==
  /\ Go("install", "publishStop")
  /\ session' = "running"
  /\ stopPosted' = FALSE
  /\ unregistered' = FALSE
  /\ inputSink' = attempt + 1
  /\ powerSink' = attempt + 1
  /\ UNCHANGED <<forceClose, exception, connected, attempt, web, open, throwing>>

PublishStopSession ==
  /\ Go("publishStop", "run")
  /\ forceClose' = StopSession(attempt)
  /\ UNCHANGED <<exception, connected, netVars>>

-----------------------------------------------------------------------------
\* KvmAsyncSession, as io.run() runs it on the network thread.

\* A mutant of CloseSocket: without input.clear().
CloseSocketKeepsInput ==
  /\ Go("run", "afterRun")
  /\ session' = "closed"
  /\ forceClose' = Empty
  /\ open' = open \ {attempt}
  /\ UNCHANGED <<connected, attempt, web, stopPosted, inputSink, powerSink, throwing>>

\* close_socket() stops the io_context, so io.run() returns.
CloseSocket ==
  /\ Go("run", "afterRun")
  /\ session' = "closed"
  /\ inputSink' = 0
  /\ forceClose' = Empty
  /\ open' = open \ {attempt}
  /\ UNCHANGED <<connected, attempt, web, stopPosted, powerSink, throwing>>

\* The handler that request_stop() posted: the stop packet is queued and the
\* grace timer armed.
HandleStop ==
  /\ worker = "run"
  /\ stopPosted
  /\ stopPosted' = FALSE
  /\ session' = IF session = "running" THEN "stopping" ELSE session
  /\ UNCHANGED <<viewVars, attempt, web, open, unregistered, inputSink, powerSink,
                 throwing>>

\* The stop packet is written, or the write fails, or the grace timer fires.
StopDrained ==
  /\ session = "stopping"
  /\ CloseSocket
  /\ UNCHANGED <<exception, unregistered>>

\* The socket was closed under the session: the pending read is aborted, or the
\* first one finds a bad descriptor.
SocketAborted ==
  /\ session = "running"
  /\ attempt \notin open
  /\ CloseSocket
  /\ UNCHANGED <<exception, unregistered>>

\* Response 8 to the validation packet.
Unregistered ==
  /\ BmcCommitsLate
  /\ attempt \in open
  /\ CloseSocket
  /\ unregistered' = TRUE
  /\ UNCHANGED exception

\* Another refusal, MaxSessionClose, a malformed packet or a read or write error.
SessionFails ==
  /\ attempt \in open
  /\ CloseSocket
  /\ exception' = FirstException
  /\ UNCHANGED unregistered

\* The BMC closes the websocket, or the idle timeout of --idle-timeout fires.
SessionEnds ==
  /\ attempt \in open
  /\ CloseSocket
  /\ UNCHANGED <<exception, unregistered>>

-----------------------------------------------------------------------------
RetryUnregistered ==
  /\ unregistered
  /\ attempt + 1 < MaxValidationRetries
  /\ Go("afterRun", "loop")
  /\ connected' = FALSE
  /\ attempt' = attempt + 1
  /\ UNCHANGED <<forceClose, exception, web, open, session, stopPosted, unregistered,
                 inputSink, powerSink, throwing>>

LeaveLoop ==
  /\ ~(unregistered /\ attempt + 1 < MaxValidationRetries)
  /\ Go("afterRun", "logout")
  /\ exception' = IF unregistered THEN FirstException ELSE exception
  /\ UNCHANGED <<forceClose, connected, netVars>>

\* Leaving the try block, by any way, runs ~MegaRacLogoutGuard and ~BmcWebSession.
Logout ==
  /\ Go("logout", "catch")
  /\ open' = {}
  /\ web' = "gone"
  /\ UNCHANGED <<forceClose, exception, connected, attempt, session, stopPosted,
                 unregistered, inputSink, powerSink, throwing>>

\* catch (...), when there is something to catch.
Catch ==
  /\ Go("catch", "clear")
  /\ exception' = IF throwing /\ ~stopRequested THEN FirstException ELSE exception
  /\ throwing' = FALSE
  /\ UNCHANGED <<forceClose, connected, attempt, web, open, session, stopPosted,
                 unregistered, inputSink, powerSink>>

\* clear_megarac_control_callbacks.  The return of ForceCloseNetwork does not come
\* by here, and has cleared both already.
ClearCallbacks ==
  /\ Go("clear", "disconnect")
  /\ forceClose' = Empty
  /\ inputSink' = 0
  /\ UNCHANGED <<exception, connected, attempt, web, open, session, stopPosted,
                 unregistered, powerSink, throwing>>

\* A mutant: the run function returns without the guard.
StayConnected ==
  /\ Go("disconnect", "cleanup")
  /\ UNCHANGED <<connected, forceClose, exception, netVars>>

\* ~ConnectionStatusGuard
Disconnect ==
  /\ Go("disconnect", "cleanup")
  /\ connected' = FALSE
  /\ UNCHANGED <<forceClose, exception, netVars>>

\* A mutant of CleanUp: power.clear() forgotten.
CleanUpKeepsPower ==
  /\ Go("cleanup", "dropForceClose")
  /\ inputSink' = 0
  /\ UNCHANGED <<forceClose, exception, connected, attempt, web, open, session,
                 stopPosted, unregistered, powerSink, throwing>>

\* The cleanup function MegaracView gives the worker.
CleanUp ==
  /\ Go("cleanup", "dropForceClose")
  /\ inputSink' = 0
  /\ powerSink' = 0
  /\ UNCHANGED <<forceClose, exception, connected, attempt, web, open, session,
                 stopPosted, unregistered, throwing>>

\* What the callback that stop() copied does.  CloseRegistry reaches the sockets
\* that are registered by now; StopSession posts to its session while it lives.
\* A CloseRegistry called after ~BmcWebSession reads a destroyed object: there is
\* no socket left that it could close.
GuiForceClose ==
  /\ CallForceClose
  /\ open' = IF snapshot = CloseRegistry THEN {} ELSE open
  /\ stopPosted' = (stopPosted \/ (/\ snapshot = StopSession(attempt)
                                   /\ session \in {"running", "stopping"}))
  /\ UNCHANGED <<attempt, web, session, unregistered, inputSink, powerSink, throwing>>

\* do_retry() calls reset_for_reconnect(), which clears the input queue.
GuiRestart ==
  /\ JoinAndRestart
  /\ inputSink' = 0
  /\ UNCHANGED <<attempt, web, open, session, stopPosted, unregistered, powerSink,
                 throwing>>

\* The viewer has closed its window: nothing is left to do.
Closed ==
  /\ gui = "closed"
  /\ UNCHANGED vars

-----------------------------------------------------------------------------
GuiNext ==
  \/ (Gui \/ JoinAndClose) /\ UNCHANGED netVars
  \/ GuiForceClose
  \/ GuiRestart

\* What the network thread does by itself ...
WorkerNext ==
  \/ Login \/ PublishCloseRegistry \/ LoopTop \/ OpenWebsocket \/ CheckStop
  \/ ForceCloseNetwork \/ InstallSinks \/ PublishStopSession
  \/ HandleStop \/ StopDrained \/ SocketAborted
  \/ RetryUnregistered \/ LeaveLoop \/ Logout \/ Catch \/ ClearCallbacks
  \/ Disconnect \/ CleanUp
  \/ (DropForceClose \/ Finish) /\ UNCHANGED netVars

\* ... and what it does only if the BMC says so.
BmcNext == Unregistered \/ SessionFails \/ SessionEnds

Next == GuiNext \/ WorkerNext \/ BmcNext \/ Closed

Spec == Init /\ [][Next]_vars

\* The steps in which the network thread waits for an answer of the BMC, with no timeout
\* that would end the wait (http_client.cpp, bmc_session.cpp).
Synchronous == {"start", "open", "logout"}

-----------------------------------------------------------------------------
FlagsOK ==
  /\ ViewFlagsOK
  /\ stopPosted \in BOOLEAN
  /\ unregistered \in BOOLEAN
  /\ throwing \in BOOLEAN

ValuesOK ==
  /\ ViewValuesOK(WorkerSteps, Callbacks)
  /\ attempt \in Attempts
  /\ web \in {"none", "live", "gone"}
  /\ open \subseteq Attempts
  /\ session \in {"none", "running", "stopping", "closed"}
  /\ inputSink \in 0 .. MaxValidationRetries
  /\ powerSink \in 0 .. MaxValidationRetries

TypeOK == FlagsOK /\ ValuesOK

\* Once the ended console is up (build_console_screen), nothing of the session is
\* left: no thread in the run function, no socket, no callback, no sink that would
\* swallow a key or a power action, and the window does not count as connected.
EndedMeansQuiet ==
  sessionEnded =>
    /\ worker = "exited"
    /\ ~connected
    /\ open = {}
    /\ forceClose = Empty
    /\ inputSink = 0
    /\ powerSink = 0

\* The ended console speaks of the run that just ended: it never shows the error
\* of a run before the last reconnect (do_retry clears exception_), and a run that
\* gave up because the BMC never registered the session is not a clean "Disconnected".
ReportIsOfThisRun ==
  sessionEnded /\ ~stopRequested =>
    /\ error \in {0, run}
    /\ unregistered => error = run

\* While a sink is installed it leads to the session of the current attempt, and
\* that session is not closed: close_socket() takes the sink away, so that what the
\* user types between two attempts waits in pending_ for the next session.
InputReachesLiveSession ==
  inputSink # 0 => /\ inputSink = attempt + 1
                   /\ session # "closed"

\* A stop() during the first attempt always reaches the session: when the GUI thread
\* is in join() and the session still runs, the stop is on its way to the strand or
\* the socket has been closed under it.  Of the later attempts it is not true: there is
\* nothing to call between two of them, and one stop check only.
StopIsNotLost ==
  gui = "join" /\ attempt = 0 /\ worker = "run" /\ session = "running" =>
    stopPosted \/ attempt \notin open

\* The BMC leaves a login, an upgrade to websocket or a logout without an answer for good.
BmcSilent == <>[](worker \in Synchronous)

\* A session that is over, or a login or a websocket that failed, is told to the user: by
\* the ended console (hosted_poll), unless another attempt has a session again or the user
\* has meanwhile closed the window, on each way out of the run function and of the loop.
EndIsReported ==
  \/ BmcSilent
  \/ (session = "closed" \/ throwing)
       ~> (sessionEnded \/ gui # "idle" \/ (worker = "run" /\ session = "running"))

\* The two threads together are one lifecycle: the phases a window goes through, and
\* the link up and down only where the phase allows it.
ImplementsLifecycle == Lifecycle!Spec

=============================================================================
