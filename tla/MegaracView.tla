------------------------------ MODULE MegaracView ------------------------------
(***************************************************************************)
(* A MegaRAC viewer, one part of it at a time: the threads of the window   *)
(* with their five attempts, the session on its strand, or the picture,    *)
(* which an ATEN viewer has as well.                                       *)
(***************************************************************************)
EXTENDS MegaracNetwork, MegaracSession, AspeedView

VARIABLE part    \* what this behaviour is about

megaracVars == <<part, vars, kvmVars, aspeedVars>>

MegaracInit ==
  /\ part \in {"threads", "session", "picture"}
  /\ Init
  /\ KvmInit /\ (part # "session" => inputs = 0)
  /\ AspeedInit

MegaracNext ==
  /\ part' = part
  /\ \/ part = "threads" /\ Next /\ UNCHANGED <<kvmVars, aspeedVars>>
     \/ part = "session" /\ KvmNext /\ UNCHANGED <<vars, aspeedVars>>
     \/ part = "picture" /\ AspeedNext /\ UNCHANGED <<vars, kvmVars>>

MegaracSpec == MegaracInit /\ [][MegaracNext]_megaracVars

\* The network thread runs in the steps in which it does not wait for the BMC, the handlers
\* of its session and their timer among them, and the frame timer fires.
ThreadFairness ==
  /\ WF_vars(part = "threads" /\ WorkerNext /\ worker \notin Synchronous)
  /\ WF_vars(part = "threads" /\ Poll /\ UNCHANGED netVars)

\* The strand runs what is posted and timers fire; nothing makes the BMC read or write, and
\* nothing makes the user act.
KvmFairness ==
  /\ WF_kvmVars(part = "session" /\ Strand)
  /\ WF_kvmVars(part = "session" /\ PowerPoll)
  /\ WF_kvmVars(part = "session" /\ GraceExpires)

\* The frame timer fires, and the BMC sends the full frame that it was asked for.
AspeedFairness ==
  /\ WF_aspeedVars(part = "picture" /\ Tick)
  /\ WF_aspeedVars(part = "picture" /\ SendFull)

MegaracFairSpec == MegaracSpec /\ ThreadFairness /\ KvmFairness /\ AspeedFairness

\* After lost frames, a minimized window or a new session the picture is right in the end
\* (InSyncOrRefreshing, and the refresh is answered), if the user leaves the window alone
\* and the BMC shows the screen and sends what can be decoded.
PictureRecovers ==
  []<>(part = "picture" => \/ picture = host
                           \/ minimized \/ ended \/ ~online \/ skipped)

=============================================================================
