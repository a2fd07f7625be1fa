------------------------------ MODULE ViewBase ------------------------------
(***************************************************************************)
(* KvmViewBase, ViewStateBase and KvmNetworkWorker (view_base.hpp, .cpp):  *)
(* the GUI thread's half of a viewer window, and the part of the network   *)
(* thread that is the same for every backend.                              *)
(*                                                                         *)
(* The GUI thread is a program counter, gui: it polls while "idle", and a  *)
(* close or a retry walks it through the steps of KvmNetworkWorker::stop() *)
(* one at a time, because the network thread runs between any two of them. *)
(* The network thread's counter is worker; a backend module extends this   *)
(* one, adds the steps of its own run function between "start" and         *)
(* "cleanup", and says what calling its force_close callback does.         *)
(***************************************************************************)
EXTENDS Naturals

CONSTANT MaxRuns    \* bound of the model: network threads started per window

ASSUME MaxRunsAssumption == MaxRuns \in Nat \ {0}

VARIABLES
  gui,            \* program counter of the GUI thread
  reconnecting,   \* the stop() under way belongs to do_retry(), not to a close
  stopRequested,  \* KvmNetworkWorker::stop_requested_
  done,           \* KvmNetworkWorker::done_
  forceClose,     \* ViewStateBase::force_close_
  snapshot,       \* the copy of force_close_ that stop() calls
  exception,      \* ViewStateBase::exception_: 0, or the run that set it
  sessionEnded,   \* KvmViewBase::session_ended_
  error,          \* had_error_ and error_message_: 0, or the run that failed
  connected,      \* ViewStatus::connected_
  worker,         \* program counter of the network thread
  run             \* how many network threads were started

viewVars == <<gui, reconnecting, stopRequested, done, forceClose, snapshot,
              exception, sessionEnded, error, connected, worker, run>>

\* A callback is a std::function<void()>: empty, or what it closes.
Callback(kind, id) == [kind |-> kind, id |-> id]
Empty == Callback("empty", 0)

GuiSteps == {"idle", "stop", "snapshot", "forceClose", "join", "closed"}
Runs == 0 .. MaxRuns

-----------------------------------------------------------------------------
\* hosted_start_network(), called when the view is attached to the window.
ViewInit ==
  /\ gui = "idle"
  /\ reconnecting = FALSE
  /\ stopRequested = FALSE
  /\ done = FALSE
  /\ forceClose = Empty
  /\ snapshot = Empty
  /\ exception = 0
  /\ sessionEnded = FALSE
  /\ error = 0
  /\ connected = FALSE
  /\ worker = "start"
  /\ run = 1

\* A mutant of Poll: a run without an error is not noticed.
PollErrors ==
  /\ gui = "idle"
  /\ done
  /\ ~sessionEnded
  /\ exception # 0
  /\ sessionEnded' = TRUE
  /\ error' = exception
  /\ UNCHANGED <<gui, reconnecting, stopRequested, done, forceClose, snapshot,
                 exception, connected, worker, run>>

\* hosted_poll(), on every frame tick.
Poll ==
  /\ gui = "idle"
  /\ done
  /\ ~sessionEnded
  /\ sessionEnded' = TRUE
  /\ error' = exception
  /\ UNCHANGED <<gui, reconnecting, stopRequested, done, forceClose, snapshot,
                 exception, connected, worker, run>>

\* closeRequested: hosted_stop_network(), from any screen.
PressClose ==
  /\ gui = "idle"
  /\ gui' = "stop"
  /\ reconnecting' = FALSE
  /\ UNCHANGED <<stopRequested, done, forceClose, snapshot, exception,
                 sessionEnded, error, connected, worker, run>>

\* Key R, only on the ended console: do_retry() begins with stop().
PressRetry ==
  /\ gui = "idle"
  /\ sessionEnded
  /\ run < MaxRuns
  /\ gui' = "stop"
  /\ reconnecting' = TRUE
  /\ UNCHANGED <<stopRequested, done, forceClose, snapshot, exception,
                 sessionEnded, error, connected, worker, run>>

\* stop(): the flag first ...
RequestStop ==
  /\ gui = "stop"
  /\ stopRequested' = TRUE
  /\ gui' = "snapshot"
  /\ UNCHANGED <<reconnecting, done, forceClose, snapshot, exception,
                 sessionEnded, error, connected, worker, run>>

\* ... then the copy of the callback, taken under control_mutex ...
SnapshotForceClose ==
  /\ gui = "snapshot"
  /\ snapshot' = forceClose
  /\ gui' = IF forceClose = Empty THEN "join" ELSE "forceClose"
  /\ UNCHANGED <<reconnecting, stopRequested, done, forceClose, exception,
                 sessionEnded, error, connected, worker, run>>

\* ... which is called outside the lock. The backend adds the callback's effect.
CallForceClose ==
  /\ gui = "forceClose"
  /\ snapshot' = Empty
  /\ gui' = "join"
  /\ UNCHANGED <<reconnecting, stopRequested, done, forceClose, exception,
                 sessionEnded, error, connected, worker, run>>

\* ... and join() returns when the thread function has. For a close that is all.
JoinAndClose ==
  /\ gui = "join"
  /\ ~reconnecting
  /\ worker = "exited"
  /\ gui' = "closed"
  /\ UNCHANGED <<reconnecting, stopRequested, done, forceClose, snapshot,
                 exception, sessionEnded, error, connected, worker, run>>

\* A mutant of JoinAndRestart: do_retry() without clear_exception().
RestartKeepsException ==
  /\ gui = "join"
  /\ reconnecting
  /\ worker = "exited"
  /\ gui' = "idle"
  /\ connected' = FALSE
  /\ sessionEnded' = FALSE
  /\ error' = 0
  /\ stopRequested' = FALSE
  /\ done' = FALSE
  /\ worker' = "start"
  /\ run' = run + 1
  /\ UNCHANGED <<reconnecting, forceClose, snapshot, exception>>

\* For a retry the rest of do_retry() follows, alone: there is no other thread
\* until start() spawns the next one.
JoinAndRestart ==
  /\ gui = "join"
  /\ reconnecting
  /\ worker = "exited"
  /\ gui' = "idle"
  /\ exception' = 0
  /\ connected' = FALSE
  /\ sessionEnded' = FALSE
  /\ error' = 0
  /\ stopRequested' = FALSE
  /\ done' = FALSE
  /\ worker' = "start"
  /\ run' = run + 1
  /\ UNCHANGED <<reconnecting, forceClose, snapshot>>

Gui == Poll \/ PressClose \/ PressRetry \/ RequestStop \/ SnapshotForceClose

-----------------------------------------------------------------------------
\* ViewStateBase::set_exception: the first error of a run wins.
FirstException == IF exception = 0 THEN run ELSE exception

\* The thread function of KvmNetworkWorker::start, after run() has returned and
\* the backend's cleanup has run: set_force_close({}), and then done_.
DropForceClose ==
  /\ worker = "dropForceClose"
  /\ forceClose' = Empty
  /\ worker' = "finish"
  /\ UNCHANGED <<gui, reconnecting, stopRequested, done, snapshot, exception,
                 sessionEnded, error, connected, run>>

Finish ==
  /\ worker = "finish"
  /\ done' = TRUE
  /\ worker' = "exited"
  /\ UNCHANGED <<gui, reconnecting, stopRequested, forceClose, snapshot,
                 exception, sessionEnded, error, connected, run>>

-----------------------------------------------------------------------------
ViewFlagsOK ==
  /\ reconnecting \in BOOLEAN
  /\ stopRequested \in BOOLEAN
  /\ done \in BOOLEAN
  /\ sessionEnded \in BOOLEAN
  /\ connected \in BOOLEAN

ViewValuesOK(steps, callbacks) ==
  /\ gui \in GuiSteps
  /\ forceClose \in callbacks
  /\ snapshot \in callbacks
  /\ exception \in Runs
  /\ error \in Runs
  /\ worker \in steps \cup {"start", "cleanup", "dropForceClose", "finish", "exited"}
  /\ run \in 1 .. MaxRuns

\* The refinement mapping to SessionLifecycle: the phase the user sees.
Phase ==
  CASE gui = "closed" -> "closed"
    [] gui \in {"stop", "snapshot", "forceClose", "join"} /\ ~reconnecting -> "closing"
    [] gui \in {"stop", "snapshot", "forceClose", "join"} /\ reconnecting -> "ended"
    [] gui = "idle" /\ sessionEnded -> "ended"
    [] gui = "idle" /\ ~sessionEnded -> "running"

Lifecycle == INSTANCE SessionLifecycle
               WITH phase <- Phase, live <- connected, failed <- (error # 0)

=============================================================================
