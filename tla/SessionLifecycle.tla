-------------------------- MODULE SessionLifecycle --------------------------
(***************************************************************************)
(* What a KvmViewBase promises the viewer host, whatever the backend: the  *)
(* phases of one viewer window as the user sees them, without threads,     *)
(* callbacks or sockets.                                                   *)
(*                                                                         *)
(* "running" is the Connecting console or live video, "ended" is the       *)
(* Disconnected / Connection failed console, "closing" is the time the GUI *)
(* thread spends inside hosted_stop_network(), "closed" is after it.       *)
(***************************************************************************)

VARIABLES
  phase,   \* "running", "ended", "closing" or "closed"
  live,    \* a KVM session is connected
  failed   \* the ended console shows an error

vars == <<phase, live, failed>>

Init ==
  /\ phase = "running"
  /\ live = FALSE
  /\ failed = FALSE

\* The link may come up, and drop again (a retried socket), as long as the
\* network thread may still be running.
Link ==
  /\ phase \in {"running", "closing"}
  /\ live' = ~live
  /\ UNCHANGED <<phase, failed>>

\* The session is over: only once the link is down, with or without an error.
End ==
  /\ phase = "running"
  /\ ~live
  /\ phase' = "ended"
  /\ failed' \in BOOLEAN
  /\ UNCHANGED live

\* Key R on the ended console: a clean start.
Retry ==
  /\ phase = "ended"
  /\ phase' = "running"
  /\ failed' = FALSE
  /\ UNCHANGED live

Close ==
  /\ phase \in {"running", "ended"}
  /\ phase' = "closing"
  /\ UNCHANGED <<live, failed>>

\* The window goes away only when nothing is connected any more.
Closed ==
  /\ phase = "closing"
  /\ ~live
  /\ phase' = "closed"
  /\ UNCHANGED <<live, failed>>

Next == Link \/ End \/ Retry \/ Close \/ Closed

Spec == Init /\ [][Next]_vars

=============================================================================
