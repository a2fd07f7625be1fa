----------------------- MODULE MegaracNetworkProofs -----------------------
(***************************************************************************)
(* Proofs about MegaracNetwork, for every number of runs and attempts and  *)
(* for both kinds of BMC.                                                  *)
(***************************************************************************)
EXTENDS MegaracNetwork, TLAPS

-----------------------------------------------------------------------------
\* The inductive invariant.  Each part says what the two program counters imply.

Stopping == {"stop", "snapshot", "forceClose", "join"}

\* What the GUI thread knows.  A retry begins on the ended console, the console
\* appears only after done_, done_ is the last thing the thread sets, and the window
\* is closed only after a join.
GuiInv ==
  /\ done => worker = "exited"
  /\ sessionEnded => done /\ error = exception
  /\ gui = "closed" => worker = "exited"
  /\ gui \in Stopping /\ reconnecting => sessionEnded /\ run < MaxRuns

\* What is left of a session at each step of the network thread's way out.
QuietInv ==
  /\ worker \in {"cleanup", "dropForceClose", "finish", "exited"} => ~connected
  /\ worker \in {"start", "catch", "clear", "disconnect", "cleanup", "dropForceClose",
                 "finish", "exited"} => open = {}
  /\ worker \in {"finish", "exited"} => forceClose = Empty
  /\ worker \in {"dropForceClose", "finish", "exited"} => inputSink = 0 /\ powerSink = 0

\* An error belongs to the current run, and a run that nobody stopped does not get
\* past the catch without one when its last session was refused.
ReportInv ==
  /\ exception \in {0, run}
  /\ error \in {0, run}
  /\ worker = "forceCloseNetwork" => stopRequested
  /\ ~stopRequested /\ unregistered =>
       /\ worker \in {"logout", "catch"} => throwing \/ exception = run
       /\ worker \in {"clear", "disconnect", "cleanup", "dropForceClose", "finish",
                      "exited"} => exception = run

\* The input sink goes with the session.
InputInv ==
  /\ worker = "start" => inputSink = 0
  /\ worker = "afterRun" => session = "closed"
  /\ InputReachesLiveSession

\* The stop handshake during the first attempt: what force_close_ holds at each step
\* of the network thread, and what stop() can have copied of it by then.
StopInv ==
  /\ gui \in {"snapshot", "forceClose", "join"} => stopRequested
  /\ attempt = 0 =>
       /\ worker \in {"loop", "open", "check", "install", "publishStop"} =>
            forceClose = CloseRegistry
       /\ worker = "publishStop" => session = "running"
       /\ worker = "run" =>
            /\ forceClose = StopSession(0)
            /\ session \in {"running", "stopping"}
       /\ gui = "forceClose" /\ worker \in {"install", "publishStop"} =>
            snapshot = CloseRegistry
       /\ gui = "forceClose" /\ worker = "run" =>
            snapshot \in {CloseRegistry, StopSession(0)}
       /\ gui = "join" /\ worker \in {"install", "publishStop"} => 0 \notin open
       /\ gui = "join" /\ worker = "run" =>
            \/ 0 \notin open
            \/ stopPosted
            \/ session = "stopping"

IInv == TypeOK /\ GuiInv /\ QuietInv /\ ReportInv /\ InputInv /\ StopInv

-----------------------------------------------------------------------------
\* Two callbacks are equal only if they close the same thing.
LEMMA CallbackInjective ==
  ASSUME NEW k1, NEW i1, NEW k2, NEW i2, Callback(k1, i1) = Callback(k2, i2)
  PROVE  k1 = k2 /\ i1 = i2
BY DEF Callback

\* The three kinds of callback are distinct.
LEMMA CallbacksDistinct ==
  ASSUME NEW a
  PROVE  /\ CloseRegistry # Empty
         /\ StopSession(a) # Empty
         /\ StopSession(a) # CloseRegistry
<1>1. CloseRegistry # Empty
  <2>1. "registry" # "empty"
    OBVIOUS
  <2>2. QED
    BY <2>1, CallbackInjective DEF CloseRegistry, Empty
<1>2. StopSession(a) # Empty
  <2>1. "session" # "empty"
    OBVIOUS
  <2>2. QED
    BY <2>1, CallbackInjective DEF StopSession, Empty
<1>3. StopSession(a) # CloseRegistry
  <2>1. "session" # "registry"
    OBVIOUS
  <2>2. QED
    BY <2>1, CallbackInjective DEF StopSession, CloseRegistry
<1>4. QED
  BY <1>1, <1>2, <1>3

\* The callbacks that the code publishes are callbacks.
LEMMA CallbackTypes ==
  /\ Empty \in Callbacks
  /\ CloseRegistry \in Callbacks
  /\ \A a \in Attempts : StopSession(a) \in Callbacks
BY DEF Callbacks

-----------------------------------------------------------------------------
\* Every variable keeps its type.
LEMMA TypeInit == Init => TypeOK
<1>1. Init => FlagsOK
  BY DEF Init, ViewInit, FlagsOK, ViewFlagsOK
<1>2. Init => ValuesOK
  BY MaxRunsAssumption, MegaracAssumption, CallbackTypes
     DEF Init, ViewInit, ValuesOK, ViewValuesOK, Runs, GuiSteps, Attempts
<1>3. QED
  BY <1>1, <1>2 DEF TypeOK

\* No step leaves a flag with anything but TRUE or FALSE.
LEMMA FlagsStep == FlagsOK /\ [Next]_vars => FlagsOK'
<1> SUFFICES ASSUME FlagsOK, [Next]_vars
             PROVE  FlagsOK'
  OBVIOUS
<1> USE DEF FlagsOK, ViewFlagsOK
<1>1. CASE (Gui \/ JoinAndClose) /\ UNCHANGED netVars
  <2>1. CASE Poll
    BY <1>1, <2>1, Zenon DEF Poll, netVars
  <2>2. CASE PressClose
    BY <1>1, <2>2, Zenon DEF PressClose, netVars
  <2>3. CASE PressRetry
    BY <1>1, <2>3, Zenon DEF PressRetry, netVars
  <2>4. CASE RequestStop
    BY <1>1, <2>4, Zenon DEF RequestStop, netVars
  <2>5. CASE SnapshotForceClose
    BY <1>1, <2>5, Zenon DEF SnapshotForceClose, netVars
  <2>6. CASE JoinAndClose
    BY <1>1, <2>6, Zenon DEF JoinAndClose, netVars
  <2>7. QED
    BY <1>1, <2>1, <2>2, <2>3, <2>4, <2>5, <2>6 DEF Gui
<1>2. CASE GuiForceClose
  BY <1>2, Zenon DEF GuiForceClose, CallForceClose
<1>3. CASE GuiRestart
  BY <1>3, Zenon DEF GuiRestart, JoinAndRestart
<1>4. CASE WorkerNext
  <2>1. CASE Login
    BY <2>1, Zenon DEF Login, Go
  <2>2. CASE PublishCloseRegistry
    BY <2>2, Zenon DEF PublishCloseRegistry, Go, netVars
  <2>3. CASE LoopTop
    BY <2>3, Zenon DEF LoopTop, Go, netVars
  <2>4. CASE OpenWebsocket
    BY <2>4, Zenon DEF OpenWebsocket, Go
  <2>5. CASE CheckStop
    BY <2>5, Zenon DEF CheckStop, Go, netVars
  <2>6. CASE ForceCloseNetwork
    BY <2>6, Zenon DEF ForceCloseNetwork, Go
  <2>7. CASE InstallSinks
    BY <2>7, Zenon DEF InstallSinks, Go
  <2>8. CASE PublishStopSession
    BY <2>8, Zenon DEF PublishStopSession, Go, netVars
  <2>9. CASE HandleStop
    BY <2>9, Zenon DEF HandleStop, viewVars
  <2>10. CASE StopDrained
    BY <2>10, Zenon DEF StopDrained, CloseSocket, Go
  <2>11. CASE SocketAborted
    BY <2>11, Zenon DEF SocketAborted, CloseSocket, Go
  <2>12. CASE RetryUnregistered
    BY <2>12, Zenon DEF RetryUnregistered, Go
  <2>13. CASE LeaveLoop
    BY <2>13, Zenon DEF LeaveLoop, FirstException, Go, netVars
  <2>14. CASE Logout
    BY <2>14, Zenon DEF Logout, Go
  <2>15. CASE Catch
    BY <2>15, Zenon DEF Catch, FirstException, Go
  <2>16. CASE ClearCallbacks
    BY <2>16, Zenon DEF ClearCallbacks, Go
  <2>17. CASE Disconnect
    BY <2>17, Zenon DEF Disconnect, Go, netVars
  <2>18. CASE CleanUp
    BY <2>18, Zenon DEF CleanUp, Go
  <2>19. CASE DropForceClose /\ UNCHANGED netVars
    BY <2>19, Zenon DEF DropForceClose, netVars
  <2>20. CASE Finish /\ UNCHANGED netVars
    BY <2>20, Zenon DEF Finish, netVars
  <2>21. QED
    BY <1>4, <2>1, <2>2, <2>3, <2>4, <2>5, <2>6, <2>7, <2>8, <2>9, <2>10,
       <2>11, <2>12, <2>13, <2>14, <2>15, <2>16, <2>17, <2>18, <2>19, <2>20 DEF WorkerNext
<1>5. CASE BmcNext
  <2>1. CASE Unregistered
    BY <2>1, Zenon DEF Unregistered, CloseSocket, Go
  <2>2. CASE SessionFails
    BY <2>2, Zenon DEF SessionFails, CloseSocket, FirstException, Go
  <2>3. CASE SessionEnds
    BY <2>3, Zenon DEF SessionEnds, CloseSocket, Go
  <2>4. QED
    BY <1>5, <2>1, <2>2, <2>3 DEF BmcNext
<1>6. CASE Closed \/ UNCHANGED vars
  BY <1>6, Zenon DEF Closed, vars, viewVars, netVars
<1>7. QED
  BY <1>1, <1>2, <1>3, <1>4, <1>5, <1>6 DEF Next, GuiNext

\* No step takes another variable out of its set: a retry has a run left to start, and
\* RetryUnregistered an attempt.
LEMMA ValuesStep ==
  ASSUME ValuesOK, GuiInv, [Next]_vars
  PROVE  ValuesOK'
<1> USE MaxRunsAssumption, MegaracAssumption, CallbackTypes
    DEF ValuesOK, ViewValuesOK, Runs, GuiSteps, Attempts, WorkerSteps
<1>1. CASE (Gui \/ JoinAndClose) /\ UNCHANGED netVars
  <2>1. CASE Poll
    BY <1>1, <2>1 DEF Poll, netVars
  <2>2. CASE PressClose
    BY <1>1, <2>2 DEF PressClose, netVars
  <2>3. CASE PressRetry
    BY <1>1, <2>3 DEF PressRetry, netVars
  <2>4. CASE RequestStop
    BY <1>1, <2>4 DEF RequestStop, netVars
  <2>5. CASE SnapshotForceClose
    BY <1>1, <2>5 DEF SnapshotForceClose, netVars
  <2>6. CASE JoinAndClose
    BY <1>1, <2>6 DEF JoinAndClose, netVars
  <2>7. QED
    BY <1>1, <2>1, <2>2, <2>3, <2>4, <2>5, <2>6 DEF Gui
<1>2. CASE GuiForceClose
  BY <1>2 DEF GuiForceClose, CallForceClose
<1>3. CASE GuiRestart
  <2>1. run < MaxRuns
    BY <1>3 DEF GuiRestart, JoinAndRestart, GuiInv, Stopping
  <2>2. QED
    BY <1>3, <2>1 DEF GuiRestart, JoinAndRestart
<1>4. CASE WorkerNext
  <2>1. CASE Login
    BY <2>1 DEF Login, Go
  <2>2. CASE PublishCloseRegistry
    BY <2>2 DEF PublishCloseRegistry, Go, netVars
  <2>3. CASE LoopTop
    BY <2>3 DEF LoopTop, Go, netVars
  <2>4. CASE OpenWebsocket
    BY <2>4 DEF OpenWebsocket, Go
  <2>5. CASE CheckStop
    BY <2>5 DEF CheckStop, Go, netVars
  <2>6. CASE ForceCloseNetwork
    <3>1. open' \subseteq Attempts
      BY <2>6 DEF ForceCloseNetwork
    <3>2. QED
      BY <2>6, <3>1 DEF ForceCloseNetwork, Go
  <2>7. CASE InstallSinks
    BY <2>7 DEF InstallSinks, Go
  <2>8. CASE PublishStopSession
    BY <2>8 DEF PublishStopSession, Go, netVars
  <2>9. CASE HandleStop
    BY <2>9 DEF HandleStop, viewVars
  <2>10. CASE StopDrained
    BY <2>10 DEF StopDrained, CloseSocket, Go
  <2>11. CASE SocketAborted
    BY <2>11 DEF SocketAborted, CloseSocket, Go
  <2>12. CASE RetryUnregistered
    BY <2>12 DEF RetryUnregistered, Go
  <2>13. CASE LeaveLoop
    BY <2>13 DEF LeaveLoop, FirstException, Go, netVars
  <2>14. CASE Logout
    BY <2>14 DEF Logout, Go
  <2>15. CASE Catch
    BY <2>15 DEF Catch, FirstException, Go
  <2>16. CASE ClearCallbacks
    BY <2>16 DEF ClearCallbacks, Go
  <2>17. CASE Disconnect
    BY <2>17 DEF Disconnect, Go, netVars
  <2>18. CASE CleanUp
    BY <2>18 DEF CleanUp, Go
  <2>19. CASE DropForceClose /\ UNCHANGED netVars
    BY <2>19 DEF DropForceClose, netVars
  <2>20. CASE Finish /\ UNCHANGED netVars
    BY <2>20 DEF Finish, netVars
  <2>21. QED
    BY <1>4, <2>1, <2>2, <2>3, <2>4, <2>5, <2>6, <2>7, <2>8, <2>9, <2>10,
       <2>11, <2>12, <2>13, <2>14, <2>15, <2>16, <2>17, <2>18, <2>19, <2>20 DEF WorkerNext
<1>5. CASE BmcNext
  <2>1. CASE Unregistered
    BY <2>1 DEF Unregistered, CloseSocket, Go
  <2>2. CASE SessionFails
    BY <2>2 DEF SessionFails, CloseSocket, FirstException, Go
  <2>3. CASE SessionEnds
    BY <2>3 DEF SessionEnds, CloseSocket, Go
  <2>4. QED
    BY <1>5, <2>1, <2>2, <2>3 DEF BmcNext
<1>6. CASE Closed \/ UNCHANGED vars
  <2>1. viewVars' = viewVars /\ netVars' = netVars
    BY <1>6 DEF Closed, vars
  <2>2. ViewValuesOK(WorkerSteps, Callbacks)'
    BY <2>1 DEF viewVars
  <2>3. QED
    BY <2>1, <2>2 DEF netVars
<1>7. QED
  BY <1>1, <1>2, <1>3, <1>4, <1>5, <1>6 DEF Next, GuiNext

\* hosted_poll is the only way to the ended console, and done_ the last store of a run.
LEMMA GuiStep ==
  ASSUME TypeOK, GuiInv, [Next]_vars
  PROVE  GuiInv'
<1> USE DEF GuiInv, Stopping
<1>1. CASE (Gui \/ JoinAndClose) /\ UNCHANGED netVars
  <2>1. CASE Poll
    BY <1>1, <2>1 DEF Poll, netVars
  <2>2. CASE PressClose
    BY <1>1, <2>2 DEF PressClose, netVars
  <2>3. CASE PressRetry
    BY <1>1, <2>3 DEF PressRetry, netVars
  <2>4. CASE RequestStop
    BY <1>1, <2>4 DEF RequestStop, netVars
  <2>5. CASE SnapshotForceClose
    BY <1>1, <2>5 DEF SnapshotForceClose, netVars
  <2>6. CASE JoinAndClose
    BY <1>1, <2>6 DEF JoinAndClose, netVars
  <2>7. QED
    BY <1>1, <2>1, <2>2, <2>3, <2>4, <2>5, <2>6 DEF Gui
<1>2. CASE GuiForceClose
  BY <1>2 DEF GuiForceClose, CallForceClose
<1>3. CASE GuiRestart
  BY <1>3 DEF GuiRestart, JoinAndRestart
<1>4. CASE WorkerNext
  <2>1. CASE Login
    BY <2>1 DEF Login, Go
  <2>2. CASE PublishCloseRegistry
    BY <2>2 DEF PublishCloseRegistry, Go, netVars
  <2>3. CASE LoopTop
    BY <2>3 DEF LoopTop, Go, netVars
  <2>4. CASE OpenWebsocket
    BY <2>4 DEF OpenWebsocket, Go
  <2>5. CASE CheckStop
    BY <2>5 DEF CheckStop, Go, netVars
  <2>6. CASE ForceCloseNetwork
    BY <2>6 DEF ForceCloseNetwork, Go
  <2>7. CASE InstallSinks
    BY <2>7 DEF InstallSinks, Go
  <2>8. CASE PublishStopSession
    BY <2>8 DEF PublishStopSession, Go, netVars
  <2>9. CASE HandleStop
    BY <2>9 DEF HandleStop, viewVars
  <2>10. CASE StopDrained
    BY <2>10 DEF StopDrained, CloseSocket, Go
  <2>11. CASE SocketAborted
    BY <2>11 DEF SocketAborted, CloseSocket, Go
  <2>12. CASE RetryUnregistered
    BY <2>12 DEF RetryUnregistered, Go
  <2>13. CASE LeaveLoop
    BY <2>13 DEF LeaveLoop, FirstException, Go, netVars
  <2>14. CASE Logout
    BY <2>14 DEF Logout, Go
  <2>15. CASE Catch
    BY <2>15 DEF Catch, FirstException, Go
  <2>16. CASE ClearCallbacks
    BY <2>16 DEF ClearCallbacks, Go
  <2>17. CASE Disconnect
    BY <2>17 DEF Disconnect, Go, netVars
  <2>18. CASE CleanUp
    BY <2>18 DEF CleanUp, Go
  <2>19. CASE DropForceClose /\ UNCHANGED netVars
    BY <2>19 DEF DropForceClose, netVars
  <2>20. CASE Finish /\ UNCHANGED netVars
    BY <2>20 DEF Finish, netVars
  <2>21. QED
    BY <1>4, <2>1, <2>2, <2>3, <2>4, <2>5, <2>6, <2>7, <2>8, <2>9, <2>10,
       <2>11, <2>12, <2>13, <2>14, <2>15, <2>16, <2>17, <2>18, <2>19, <2>20 DEF WorkerNext
<1>5. CASE BmcNext
  <2>1. CASE Unregistered
    BY <2>1 DEF Unregistered, CloseSocket, Go
  <2>2. CASE SessionFails
    BY <2>2 DEF SessionFails, CloseSocket, FirstException, Go
  <2>3. CASE SessionEnds
    BY <2>3 DEF SessionEnds, CloseSocket, Go
  <2>4. QED
    BY <1>5, <2>1, <2>2, <2>3 DEF BmcNext
<1>6. CASE Closed \/ UNCHANGED vars
  BY <1>6 DEF Closed, vars, viewVars, netVars
<1>7. QED
  BY <1>1, <1>2, <1>3, <1>4, <1>5, <1>6 DEF Next, GuiNext

\* On its way out the network thread takes down the link, the sockets, the sinks and the
\* callback, in that order, and nobody puts them back.
LEMMA QuietStep ==
  ASSUME QuietInv, [Next]_vars
  PROVE  QuietInv'
<1> USE DEF QuietInv
<1>1. CASE (Gui \/ JoinAndClose) /\ UNCHANGED netVars
  <2>1. CASE Poll
    BY <1>1, <2>1 DEF Poll, netVars
  <2>2. CASE PressClose
    BY <1>1, <2>2 DEF PressClose, netVars
  <2>3. CASE PressRetry
    BY <1>1, <2>3 DEF PressRetry, netVars
  <2>4. CASE RequestStop
    BY <1>1, <2>4 DEF RequestStop, netVars
  <2>5. CASE SnapshotForceClose
    BY <1>1, <2>5 DEF SnapshotForceClose, netVars
  <2>6. CASE JoinAndClose
    BY <1>1, <2>6 DEF JoinAndClose, netVars
  <2>7. QED
    BY <1>1, <2>1, <2>2, <2>3, <2>4, <2>5, <2>6 DEF Gui
<1>2. CASE GuiForceClose
  BY <1>2 DEF GuiForceClose, CallForceClose
<1>3. CASE GuiRestart
  BY <1>3 DEF GuiRestart, JoinAndRestart
<1>4. CASE WorkerNext
  <2>1. CASE Login
    BY <2>1 DEF Login, Go
  <2>2. CASE PublishCloseRegistry
    BY <2>2 DEF PublishCloseRegistry, Go, netVars
  <2>3. CASE LoopTop
    BY <2>3 DEF LoopTop, Go, netVars
  <2>4. CASE OpenWebsocket
    BY <2>4 DEF OpenWebsocket, Go
  <2>5. CASE CheckStop
    BY <2>5 DEF CheckStop, Go, netVars
  <2>6. CASE ForceCloseNetwork
    BY <2>6 DEF ForceCloseNetwork, Go
  <2>7. CASE InstallSinks
    BY <2>7 DEF InstallSinks, Go
  <2>8. CASE PublishStopSession
    BY <2>8 DEF PublishStopSession, Go, netVars
  <2>9. CASE HandleStop
    BY <2>9 DEF HandleStop, viewVars
  <2>10. CASE StopDrained
    BY <2>10 DEF StopDrained, CloseSocket, Go
  <2>11. CASE SocketAborted
    BY <2>11 DEF SocketAborted, CloseSocket, Go
  <2>12. CASE RetryUnregistered
    BY <2>12 DEF RetryUnregistered, Go
  <2>13. CASE LeaveLoop
    BY <2>13 DEF LeaveLoop, FirstException, Go, netVars
  <2>14. CASE Logout
    BY <2>14 DEF Logout, Go
  <2>15. CASE Catch
    BY <2>15 DEF Catch, FirstException, Go
  <2>16. CASE ClearCallbacks
    BY <2>16 DEF ClearCallbacks, Go
  <2>17. CASE Disconnect
    BY <2>17 DEF Disconnect, Go, netVars
  <2>18. CASE CleanUp
    BY <2>18 DEF CleanUp, Go
  <2>19. CASE DropForceClose /\ UNCHANGED netVars
    BY <2>19 DEF DropForceClose, netVars
  <2>20. CASE Finish /\ UNCHANGED netVars
    BY <2>20 DEF Finish, netVars
  <2>21. QED
    BY <1>4, <2>1, <2>2, <2>3, <2>4, <2>5, <2>6, <2>7, <2>8, <2>9, <2>10,
       <2>11, <2>12, <2>13, <2>14, <2>15, <2>16, <2>17, <2>18, <2>19, <2>20 DEF WorkerNext
<1>5. CASE BmcNext
  <2>1. CASE Unregistered
    BY <2>1 DEF Unregistered, CloseSocket, Go
  <2>2. CASE SessionFails
    BY <2>2 DEF SessionFails, CloseSocket, FirstException, Go
  <2>3. CASE SessionEnds
    BY <2>3 DEF SessionEnds, CloseSocket, Go
  <2>4. QED
    BY <1>5, <2>1, <2>2, <2>3 DEF BmcNext
<1>6. CASE Closed \/ UNCHANGED vars
  BY <1>6 DEF Closed, vars, viewVars, netVars
<1>7. QED
  BY <1>1, <1>2, <1>3, <1>4, <1>5, <1>6 DEF Next, GuiNext

\* An exception is of the current run, since do_retry() clears the last one.
LEMMA ReportStep ==
  ASSUME TypeOK, ReportInv, [Next]_vars
  PROVE  ReportInv'
<1> USE DEF ReportInv
<1>1. CASE (Gui \/ JoinAndClose) /\ UNCHANGED netVars
  <2>1. CASE Poll
    BY <1>1, <2>1 DEF Poll, netVars
  <2>2. CASE PressClose
    BY <1>1, <2>2 DEF PressClose, netVars
  <2>3. CASE PressRetry
    BY <1>1, <2>3 DEF PressRetry, netVars
  <2>4. CASE RequestStop
    BY <1>1, <2>4 DEF RequestStop, netVars
  <2>5. CASE SnapshotForceClose
    BY <1>1, <2>5 DEF SnapshotForceClose, netVars
  <2>6. CASE JoinAndClose
    BY <1>1, <2>6 DEF JoinAndClose, netVars
  <2>7. QED
    BY <1>1, <2>1, <2>2, <2>3, <2>4, <2>5, <2>6 DEF Gui
<1>2. CASE GuiForceClose
  BY <1>2 DEF GuiForceClose, CallForceClose
<1>3. CASE GuiRestart
  BY <1>3 DEF GuiRestart, JoinAndRestart
<1>4. CASE WorkerNext
  <2>1. CASE Login
    BY <2>1 DEF Login, Go
  <2>2. CASE PublishCloseRegistry
    BY <2>2 DEF PublishCloseRegistry, Go, netVars
  <2>3. CASE LoopTop
    BY <2>3 DEF LoopTop, Go, netVars
  <2>4. CASE OpenWebsocket
    BY <2>4 DEF OpenWebsocket, Go
  <2>5. CASE CheckStop
    BY <2>5 DEF CheckStop, Go, netVars
  <2>6. CASE ForceCloseNetwork
    BY <2>6 DEF ForceCloseNetwork, Go
  <2>7. CASE InstallSinks
    BY <2>7 DEF InstallSinks, Go
  <2>8. CASE PublishStopSession
    BY <2>8 DEF PublishStopSession, Go, netVars
  <2>9. CASE HandleStop
    BY <2>9 DEF HandleStop, viewVars
  <2>10. CASE StopDrained
    BY <2>10 DEF StopDrained, CloseSocket, Go
  <2>11. CASE SocketAborted
    BY <2>11 DEF SocketAborted, CloseSocket, Go
  <2>12. CASE RetryUnregistered
    BY <2>12 DEF RetryUnregistered, Go
  <2>13. CASE LeaveLoop
    BY <2>13 DEF LeaveLoop, FirstException, Go, netVars
  <2>14. CASE Logout
    BY <2>14 DEF Logout, Go
  <2>15. CASE Catch
    BY <2>15 DEF Catch, FirstException, Go
  <2>16. CASE ClearCallbacks
    BY <2>16 DEF ClearCallbacks, Go
  <2>17. CASE Disconnect
    BY <2>17 DEF Disconnect, Go, netVars
  <2>18. CASE CleanUp
    BY <2>18 DEF CleanUp, Go
  <2>19. CASE DropForceClose /\ UNCHANGED netVars
    BY <2>19 DEF DropForceClose, netVars
  <2>20. CASE Finish /\ UNCHANGED netVars
    BY <2>20 DEF Finish, netVars
  <2>21. QED
    BY <1>4, <2>1, <2>2, <2>3, <2>4, <2>5, <2>6, <2>7, <2>8, <2>9, <2>10,
       <2>11, <2>12, <2>13, <2>14, <2>15, <2>16, <2>17, <2>18, <2>19, <2>20 DEF WorkerNext
<1>5. CASE BmcNext
  <2>1. CASE Unregistered
    BY <2>1 DEF Unregistered, CloseSocket, Go
  <2>2. CASE SessionFails
    BY <2>2 DEF SessionFails, CloseSocket, FirstException, Go
  <2>3. CASE SessionEnds
    BY <2>3 DEF SessionEnds, CloseSocket, Go
  <2>4. QED
    BY <1>5, <2>1, <2>2, <2>3 DEF BmcNext
<1>6. CASE Closed \/ UNCHANGED vars
  BY <1>6 DEF Closed, vars, viewVars, netVars
<1>7. QED
  BY <1>1, <1>2, <1>3, <1>4, <1>5, <1>6 DEF Next, GuiNext

\* close_socket() takes the input sink away before the next attempt begins.
LEMMA InputStep ==
  ASSUME TypeOK, InputInv, [Next]_vars
  PROVE  InputInv'
<1> USE DEF InputInv, InputReachesLiveSession
<1>1. CASE (Gui \/ JoinAndClose) /\ UNCHANGED netVars
  <2>1. CASE Poll
    BY <1>1, <2>1 DEF Poll, netVars
  <2>2. CASE PressClose
    BY <1>1, <2>2 DEF PressClose, netVars
  <2>3. CASE PressRetry
    BY <1>1, <2>3 DEF PressRetry, netVars
  <2>4. CASE RequestStop
    BY <1>1, <2>4 DEF RequestStop, netVars
  <2>5. CASE SnapshotForceClose
    BY <1>1, <2>5 DEF SnapshotForceClose, netVars
  <2>6. CASE JoinAndClose
    BY <1>1, <2>6 DEF JoinAndClose, netVars
  <2>7. QED
    BY <1>1, <2>1, <2>2, <2>3, <2>4, <2>5, <2>6 DEF Gui
<1>2. CASE GuiForceClose
  BY <1>2 DEF GuiForceClose, CallForceClose
<1>3. CASE GuiRestart
  BY <1>3 DEF GuiRestart, JoinAndRestart
<1>4. CASE WorkerNext
  <2>1. CASE Login
    BY <2>1 DEF Login, Go
  <2>2. CASE PublishCloseRegistry
    BY <2>2 DEF PublishCloseRegistry, Go, netVars
  <2>3. CASE LoopTop
    BY <2>3 DEF LoopTop, Go, netVars
  <2>4. CASE OpenWebsocket
    BY <2>4 DEF OpenWebsocket, Go
  <2>5. CASE CheckStop
    BY <2>5 DEF CheckStop, Go, netVars
  <2>6. CASE ForceCloseNetwork
    BY <2>6 DEF ForceCloseNetwork, Go
  <2>7. CASE InstallSinks
    BY <2>7 DEF InstallSinks, Go
  <2>8. CASE PublishStopSession
    BY <2>8 DEF PublishStopSession, Go, netVars
  <2>9. CASE HandleStop
    BY <2>9 DEF HandleStop, viewVars
  <2>10. CASE StopDrained
    BY <2>10 DEF StopDrained, CloseSocket, Go
  <2>11. CASE SocketAborted
    BY <2>11 DEF SocketAborted, CloseSocket, Go
  <2>12. CASE RetryUnregistered
    BY <2>12 DEF RetryUnregistered, Go
  <2>13. CASE LeaveLoop
    BY <2>13 DEF LeaveLoop, FirstException, Go, netVars
  <2>14. CASE Logout
    BY <2>14 DEF Logout, Go
  <2>15. CASE Catch
    BY <2>15 DEF Catch, FirstException, Go
  <2>16. CASE ClearCallbacks
    BY <2>16 DEF ClearCallbacks, Go
  <2>17. CASE Disconnect
    BY <2>17 DEF Disconnect, Go, netVars
  <2>18. CASE CleanUp
    BY <2>18 DEF CleanUp, Go
  <2>19. CASE DropForceClose /\ UNCHANGED netVars
    BY <2>19 DEF DropForceClose, netVars
  <2>20. CASE Finish /\ UNCHANGED netVars
    BY <2>20 DEF Finish, netVars
  <2>21. QED
    BY <1>4, <2>1, <2>2, <2>3, <2>4, <2>5, <2>6, <2>7, <2>8, <2>9, <2>10,
       <2>11, <2>12, <2>13, <2>14, <2>15, <2>16, <2>17, <2>18, <2>19, <2>20 DEF WorkerNext
<1>5. CASE BmcNext
  <2>1. CASE Unregistered
    BY <2>1 DEF Unregistered, CloseSocket, Go
  <2>2. CASE SessionFails
    BY <2>2 DEF SessionFails, CloseSocket, FirstException, Go
  <2>3. CASE SessionEnds
    BY <2>3 DEF SessionEnds, CloseSocket, Go
  <2>4. QED
    BY <1>5, <2>1, <2>2, <2>3 DEF BmcNext
<1>6. CASE Closed \/ UNCHANGED vars
  BY <1>6 DEF Closed, vars, viewVars, netVars
<1>7. QED
  BY <1>1, <1>2, <1>3, <1>4, <1>5, <1>6 DEF Next, GuiNext

\* Each interleaving of the three steps of stop() with those of the first attempt leaves
\* the session with a closed socket or with the stop.
LEMMA StopStep ==
  ASSUME TypeOK, StopInv, [Next]_vars
  PROVE  StopInv'
<1> USE CallbacksDistinct DEF StopInv
<1>1. CASE (Gui \/ JoinAndClose) /\ UNCHANGED netVars
  <2>1. CASE Poll
    BY <1>1, <2>1 DEF Poll, netVars
  <2>2. CASE PressClose
    BY <1>1, <2>2 DEF PressClose, netVars
  <2>3. CASE PressRetry
    BY <1>1, <2>3 DEF PressRetry, netVars
  <2>4. CASE RequestStop
    BY <1>1, <2>4 DEF RequestStop, netVars
  <2>5. CASE SnapshotForceClose
    BY <1>1, <2>5 DEF SnapshotForceClose, netVars
  <2>6. CASE JoinAndClose
    BY <1>1, <2>6 DEF JoinAndClose, netVars
  <2>7. QED
    BY <1>1, <2>1, <2>2, <2>3, <2>4, <2>5, <2>6 DEF Gui
<1>2. CASE GuiForceClose
  BY <1>2 DEF GuiForceClose, CallForceClose
<1>3. CASE GuiRestart
  BY <1>3 DEF GuiRestart, JoinAndRestart
<1>4. CASE WorkerNext
  <2>1. CASE Login
    BY <2>1 DEF Login, Go
  <2>2. CASE PublishCloseRegistry
    BY <2>2 DEF PublishCloseRegistry, Go, netVars
  <2>3. CASE LoopTop
    BY <2>3 DEF LoopTop, Go, netVars
  <2>4. CASE OpenWebsocket
    BY <2>4 DEF OpenWebsocket, Go
  <2>5. CASE CheckStop
    BY <2>5 DEF CheckStop, Go, netVars
  <2>6. CASE ForceCloseNetwork
    BY <2>6 DEF ForceCloseNetwork, Go
  <2>7. CASE InstallSinks
    BY <2>7 DEF InstallSinks, Go
  <2>8. CASE PublishStopSession
    BY <2>8 DEF PublishStopSession, Go, netVars
  <2>9. CASE HandleStop
    BY <2>9 DEF HandleStop, viewVars
  <2>10. CASE StopDrained
    BY <2>10 DEF StopDrained, CloseSocket, Go
  <2>11. CASE SocketAborted
    BY <2>11 DEF SocketAborted, CloseSocket, Go
  <2>12. CASE RetryUnregistered
    <3>1. attempt' # 0
      BY <2>12 DEF RetryUnregistered, TypeOK, ValuesOK, Attempts
    <3>2. QED
      BY <2>12, <3>1 DEF RetryUnregistered, Go
  <2>13. CASE LeaveLoop
    BY <2>13 DEF LeaveLoop, FirstException, Go, netVars
  <2>14. CASE Logout
    BY <2>14 DEF Logout, Go
  <2>15. CASE Catch
    BY <2>15 DEF Catch, FirstException, Go
  <2>16. CASE ClearCallbacks
    BY <2>16 DEF ClearCallbacks, Go
  <2>17. CASE Disconnect
    BY <2>17 DEF Disconnect, Go, netVars
  <2>18. CASE CleanUp
    BY <2>18 DEF CleanUp, Go
  <2>19. CASE DropForceClose /\ UNCHANGED netVars
    BY <2>19 DEF DropForceClose, netVars
  <2>20. CASE Finish /\ UNCHANGED netVars
    BY <2>20 DEF Finish, netVars
  <2>21. QED
    BY <1>4, <2>1, <2>2, <2>3, <2>4, <2>5, <2>6, <2>7, <2>8, <2>9, <2>10,
       <2>11, <2>12, <2>13, <2>14, <2>15, <2>16, <2>17, <2>18, <2>19, <2>20 DEF WorkerNext
<1>5. CASE BmcNext
  <2>1. CASE Unregistered
    BY <2>1 DEF Unregistered, CloseSocket, Go
  <2>2. CASE SessionFails
    BY <2>2 DEF SessionFails, CloseSocket, FirstException, Go
  <2>3. CASE SessionEnds
    BY <2>3 DEF SessionEnds, CloseSocket, Go
  <2>4. QED
    BY <1>5, <2>1, <2>2, <2>3 DEF BmcNext
<1>6. CASE Closed \/ UNCHANGED vars
  BY <1>6 DEF Closed, vars, viewVars, netVars
<1>7. QED
  BY <1>1, <1>2, <1>3, <1>4, <1>5, <1>6 DEF Next, GuiNext

-----------------------------------------------------------------------------
\* The invariant holds at first, and every step keeps it.
LEMMA Inductive == Spec => []IInv
<1>1. Init => IInv
  <2>1. Init => GuiInv /\ QuietInv /\ ReportInv /\ InputInv /\ StopInv
    BY DEF Init, ViewInit, GuiInv, QuietInv, ReportInv, InputInv, StopInv,
           InputReachesLiveSession, Stopping
  <2>2. QED
    BY <2>1, TypeInit DEF IInv
<1>2. IInv /\ [Next]_vars => IInv'
  BY FlagsStep, ValuesStep, GuiStep, QuietStep, ReportStep, InputStep, StopStep
     DEF IInv, TypeOK
<1>3. QED
  BY <1>1, <1>2, PTL DEF Spec

\* Every variable of the viewer stays in its set, with any number of reconnects.
THEOREM TypeCorrect == Spec => []TypeOK
<1>1. IInv => TypeOK
  BY DEF IInv
<1>2. QED
  BY <1>1, Inductive, PTL

\* build_console_screen: when the ended console is up, the network thread has left
\* the run function and nothing of its session remains installed.
THEOREM QuietWhenEnded == Spec => []EndedMeansQuiet
<1>1. IInv => EndedMeansQuiet
  BY DEF IInv, GuiInv, QuietInv, EndedMeansQuiet
<1>2. QED
  BY <1>1, Inductive, PTL

\* The console shows the error of the run that ended, and shows one if the last
\* session of that run was refused and the user had not asked it to stop.
THEOREM ReportCorrect == Spec => []ReportIsOfThisRun
<1>1. IInv => ReportIsOfThisRun
  BY DEF IInv, GuiInv, ReportInv, ReportIsOfThisRun
<1>2. QED
  BY <1>1, Inductive, PTL

\* InputQueue never leads to the session of an earlier attempt or to a closed one.
THEOREM InputCorrect == Spec => []InputReachesLiveSession
<1>1. IInv => InputReachesLiveSession
  BY DEF IInv, InputInv
<1>2. QED
  BY <1>1, Inductive, PTL

\* KvmNetworkWorker::stop() during the first attempt is never lost, however its three
\* steps fall between those of the network thread.
THEOREM StopDelivered == Spec => []StopIsNotLost
<1>1. IInv => StopIsNotLost
  <2>1. ASSUME IInv, gui = "join", attempt = 0, worker = "run", session = "running"
        PROVE  stopPosted \/ attempt \notin open
    BY <2>1 DEF IInv, StopInv
  <2>2. QED
    BY <2>1 DEF StopIsNotLost
<1>2. QED
  BY <1>1, Inductive, PTL

-----------------------------------------------------------------------------
\* The lifecycle looks at four variables only: a step that leaves the GUI's three and
\* the connection alone is a stutter.
LEMMA PhaseStutters ==
  ASSUME UNCHANGED <<gui, reconnecting, sessionEnded, error, connected>>
  PROVE  UNCHANGED Lifecycle!vars
BY DEF Lifecycle!vars, Phase

\* While the network thread has not exited, the lifecycle is running or closing.
LEMMA PhaseOfLiveThread ==
  ASSUME IInv, worker # "exited"
  PROVE  Phase \in {"running", "closing"}
BY DEF IInv, TypeOK, ValuesOK, ViewValuesOK, GuiSteps, GuiInv, Stopping, Phase

\* A change of ViewStatus::connected_ by the network thread is a Link step.
LEMMA LinkStep ==
  ASSUME IInv, worker # "exited", connected' \in BOOLEAN,
         UNCHANGED <<gui, reconnecting, sessionEnded, error>>
  PROVE  [Lifecycle!Next]_(Lifecycle!vars)
<1>1. Phase' = Phase /\ (error # 0)' = (error # 0)
  BY DEF Phase
<1>2. CASE connected' = connected
  BY <1>2, PhaseStutters
<1>3. CASE connected' # connected
  <2>1. connected' = ~connected
    BY <1>3, Zenon DEF IInv, TypeOK, FlagsOK, ViewFlagsOK
  <2>2. QED
    BY <1>1, <2>1, PhaseOfLiveThread DEF Lifecycle!Next, Lifecycle!Link
<1>4. QED
  BY <1>2, <1>3

\* A window starts as a lifecycle does: running, not connected, without an error.
LEMMA LifecycleInit == Init => Lifecycle!Init
BY DEF Init, ViewInit, Lifecycle!Init, Phase

\* Every step is a step of the lifecycle or changes nothing of it.
LEMMA LifecycleStep ==
  ASSUME IInv, [Next]_vars
  PROVE  [Lifecycle!Next]_(Lifecycle!vars)
<1>1. CASE Poll
  <2>1. Phase = "running" /\ Phase' = "ended" /\ UNCHANGED connected
    BY <1>1 DEF Poll, Phase
  <2>2. ~connected
    BY <1>1 DEF Poll, IInv, GuiInv, QuietInv
  <2>3. QED
    BY <2>1, <2>2 DEF Lifecycle!Next, Lifecycle!End
<1>2. CASE PressClose
  BY <1>2 DEF PressClose, Phase, Lifecycle!Next, Lifecycle!Close
<1>3. CASE PressRetry
  BY <1>3 DEF PressRetry, Phase, Lifecycle!vars
<1>4. CASE RequestStop \/ SnapshotForceClose \/ GuiForceClose
  <2>1. /\ gui \in Stopping /\ gui' \in Stopping
        /\ UNCHANGED <<reconnecting, sessionEnded, error, connected>>
    BY <1>4 DEF RequestStop, SnapshotForceClose, GuiForceClose, CallForceClose, Stopping
  <2>2. QED
    BY <2>1 DEF Stopping, Phase, Lifecycle!vars
<1>5. CASE JoinAndClose
  <2>1. ~connected
    BY <1>5 DEF JoinAndClose, IInv, QuietInv
  <2>2. QED
    BY <1>5, <2>1 DEF JoinAndClose, Phase, Lifecycle!Next, Lifecycle!Closed
<1>6. CASE GuiRestart
  <2>1. connected = FALSE
    BY <1>6,
       Zenon DEF GuiRestart, JoinAndRestart, IInv, QuietInv, TypeOK, FlagsOK, ViewFlagsOK
  <2>2. Phase = "ended" /\ Phase' = "running"
    BY <1>6 DEF GuiRestart, JoinAndRestart, Phase
  <2>3. QED
    BY <1>6, <2>1, <2>2
       DEF GuiRestart, JoinAndRestart, Lifecycle!Next, Lifecycle!Retry
<1>7. CASE WorkerNext \/ BmcNext
  <2>1. worker # "exited" /\ UNCHANGED <<gui, reconnecting, sessionEnded, error>>
    BY <1>7 DEF WorkerNext, BmcNext, Go, Login, PublishCloseRegistry, LoopTop,
                OpenWebsocket, CheckStop, ForceCloseNetwork, InstallSinks,
                PublishStopSession, HandleStop, StopDrained, SocketAborted,
                CloseSocket, RetryUnregistered, LeaveLoop, Logout, Catch,
                ClearCallbacks, Disconnect, CleanUp, DropForceClose, Finish,
                Unregistered, SessionFails, SessionEnds, viewVars
  <2>2. connected' \in BOOLEAN
    BY FlagsStep DEF IInv, TypeOK, FlagsOK, ViewFlagsOK
  <2>3. QED
    BY <2>1, <2>2, LinkStep
<1>8. CASE Closed \/ UNCHANGED vars
  BY <1>8, PhaseStutters DEF Closed, vars, viewVars
<1>9. QED
  BY <1>1, <1>2, <1>3, <1>4, <1>5, <1>6, <1>7, <1>8 DEF Next, GuiNext, Gui

\* Every behaviour of the two threads is a lifecycle of SessionLifecycle.
THEOREM Refinement == Spec => ImplementsLifecycle
<1>1. Init => Lifecycle!Init
  BY LifecycleInit
<1>2. IInv /\ [Next]_vars => [Lifecycle!Next]_(Lifecycle!vars)
  BY LifecycleStep
<1>3. QED
  BY <1>1, <1>2, Inductive, PTL DEF Spec, ImplementsLifecycle, Lifecycle!Spec

=============================================================================
