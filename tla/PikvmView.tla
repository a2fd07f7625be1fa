------------------------------- MODULE PikvmView -------------------------------
(***************************************************************************)
(* A PiKVM viewer, one half of it at a time: the threads of its session,   *)
(* or the picture of its video channel.                                    *)
(***************************************************************************)
EXTENDS PikvmNetwork, PikvmVideo

VARIABLE half    \* what this behaviour is about

pikvmVars == <<half, vars, pictureVars>>

PikvmInit ==
  /\ half \in {"threads", "picture"}
  /\ Init
  /\ PictureInit /\ (half # "picture" => ~opened)

PikvmNext ==
  /\ half' = half
  /\ \/ half = "threads" /\ Next /\ UNCHANGED pictureVars
     \/ half = "picture" /\ PictureNext /\ UNCHANGED vars

PikvmSpec == PikvmInit /\ [][PikvmNext]_pikvmVars

\* Threads are scheduled, timers fire, and what is read from a socket that is closed fails.
\* No session ends by itself, and the BMC need not answer, read or send anything: there is
\* no fairness of BmcAnswers.
ThreadFairness ==
  /\ WF_vars(half = "threads" /\ WorkerRuns)
  /\ WF_vars(half = "threads" /\ ControlNext)
  /\ WF_vars(half = "threads" /\ VideoNext)
  /\ WF_vars(half = "threads" /\ GraceOver)
  /\ WF_vars(half = "threads" /\ socket["control"] = "closed" /\ ControlFails)
  /\ WF_vars(half = "threads" /\ socket["video"] = "closed" /\ VideoEnds)
  /\ \A t \in Callers : WF_vars(half = "threads" /\ CallHandle(t))
  /\ WF_vars(half = "threads" /\ (Poll \/ RequestStop \/ SnapshotForceClose)
               /\ UNCHANGED netVars)
  /\ WF_vars(half = "threads" /\ GuiForceClose)
  /\ WF_vars(half = "threads" /\ GuiClose)
  /\ WF_vars(half = "threads" /\ GuiRestart)

\* The video thread and the GUI timer run; a server that is connected announces its media,
\* sends video and repeats its key frame.
PictureFairness ==
  /\ WF_pictureVars(half = "picture" /\ VideoThread)
  /\ WF_pictureVars(half = "picture" /\ Tick)
  /\ SF_pictureVars(half = "picture" /\ SendText("media"))
  /\ SF_pictureVars(half = "picture" /\ SendVideo(TRUE))

PikvmFairSpec == PikvmSpec /\ ThreadFairness /\ PictureFairness

=============================================================================
