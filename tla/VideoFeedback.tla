---------------------------- MODULE VideoFeedback ----------------------------
(***************************************************************************)
(* The video feedback of a MegaRAC session: by how much the frames that    *)
(* the GUI thread has presented since the last report differ from those    *)
(* that the strand has received, told to the BMC so that it slows down.    *)
(* The two threads share one atomic counter, which outlives the session,   *)
(* and the frame queue.                                                    *)
(***************************************************************************)
EXTENDS Integers, FrameQueue

CONSTANTS
  MaxFrames,           \* bound of the model: video frames the BMC sends
  MaxFeedbackSessions  \* bound of the model: sessions of the view

ASSUME VideoFeedbackAssumption == {MaxFrames, MaxFeedbackSessions} \subseteq Nat

VARIABLES
  frames,         \* frames sent so far
  received,       \* video_feedback_received_frames_
  started,        \* video_feedback_started_
  lastPresented,  \* last_video_feedback_presented_frames_
  loaded,         \* frames_presented of send_video_feedback_if_due(), in its frame
  presented,      \* MegaracViewSessionState::video_feedback_presented_frames
  ticking,        \* the GUI thread is in latest_frame() ...
  undecoded,      \* ... and has so many frames of drain() yet to decode
  feedbacks,      \* sessions so far
  reported,       \* history: this session has made a report ...
  report,         \* ... of which this is the last
  before,         \* history: the backlog at the report before, and since then ...
  lost,           \* history: ... the frames received that will never be presented
  truth           \* history: by how much the backlog grew between the last two reports

frameVars == <<frames, queueVars>>
reportVars == <<lastPresented, loaded, reported, report, before, truth>>
feedbackVars ==
  <<frameVars, received, started, presented, ticking, undecoded, feedbacks, lost, reportVars>>

NotLoaded == -1

Distance(m, n) == IF m > n THEN m - n ELSE n - m

\* Received and not presented, wherever it waits.
Backlog == Len(queue) + undecoded

FeedbackInit ==
  /\ QueueInit
  /\ frames = 0 /\ received = 0 /\ started = FALSE /\ lost = 0
  /\ lastPresented = 0 /\ loaded = NotLoaded /\ presented = 0
  /\ ticking = FALSE /\ undecoded = 0
  /\ feedbacks = 1 /\ reported = FALSE /\ report = 0 /\ before = 0 /\ truth = 0

-----------------------------------------------------------------------------
\* note_video_frame_received_for_feedback(), in a handler that does not report meanwhile.
Receive ==
  /\ loaded = NotLoaded
  /\ frames < MaxFrames
  /\ frames' = frames + 1
  /\ received' = received + 1
  /\ started' = TRUE
  /\ UNCHANGED <<presented, ticking, undecoded, feedbacks, reportVars>>

\* A frame that can be decoded goes to the queue, and may push the oldest out of it ...
ReceiveFrame ==
  /\ Receive
  /\ Publish("frame")
  /\ lost' = lost + (IF Len(queue) = MaxQueued THEN 1 ELSE 0)

\* ... and one that cannot counts as well.
ReceiveUnsupported ==
  /\ Receive
  /\ lost' = lost + 1
  /\ UNCHANGED queueVars

\* send_video_feedback_if_due(), when 100 ms have passed: it reads the counter of the other
\* thread once ...
LoadPresented ==
  /\ started
  /\ loaded = NotLoaded
  /\ loaded' = presented
  /\ truth' = Backlog - before + lost
  /\ before' = Backlog
  /\ lost' = 0
  /\ UNCHANGED <<frameVars, received, started, presented, ticking, undecoded, feedbacks,
                 lastPresented, reported, report>>

\* A mutant of SendFeedback: the counter is read again for the next time.
SendFeedbackReadsTwice ==
  /\ loaded # NotLoaded
  /\ report' = Distance(received, loaded - lastPresented)
  /\ reported' = TRUE
  /\ received' = 0
  /\ lastPresented' = presented
  /\ loaded' = NotLoaded
  /\ UNCHANGED <<frameVars, started, presented, ticking, undecoded, feedbacks, lost, before,
                 truth>>

\* ... and what it has read is both what is reported and where the next report starts.
SendFeedback ==
  /\ loaded # NotLoaded
  /\ report' = Distance(received, loaded - lastPresented)
  /\ reported' = TRUE
  /\ received' = 0
  /\ lastPresented' = loaded
  /\ loaded' = NotLoaded
  /\ UNCHANGED <<frameVars, started, presented, ticking, undecoded, feedbacks, lost, before,
                 truth>>

-----------------------------------------------------------------------------
\* latest_frame(): all that is in the queue ...
DrainFrames ==
  /\ ~ticking
  /\ ticking' = TRUE
  /\ undecoded' = Len(queue)
  /\ Drain
  /\ UNCHANGED <<frames, received, started, presented, feedbacks, lost, reportVars>>

\* ... is decoded frame by frame, and on_frame_presented() counts those that could be.
DecodeFrame ==
  /\ undecoded > 0
  /\ undecoded' = undecoded - 1
  /\ \/ presented' = presented + 1 /\ UNCHANGED lost
     \/ lost' = lost + 1 /\ UNCHANGED presented
  /\ UNCHANGED <<frameVars, received, started, ticking, feedbacks, reportVars>>

EndTick ==
  /\ ticking
  /\ undecoded = 0
  /\ ticking' = FALSE
  /\ TakeOverflowed
  /\ UNCHANGED <<frames, received, started, presented, undecoded, feedbacks, lost, reportVars>>

\* on_minimized()
DropFrames ==
  /\ ~ticking
  /\ queue # <<>>
  /\ lost' = lost + Len(queue)
  /\ ClearFrames
  /\ UNCHANGED <<frames, received, started, presented, ticking, undecoded, feedbacks,
                 reportVars>>

\* The session ends and the user retries: the counters of the strand are a new session's,
\* the one of the GUI thread is not: to the first report everything that was presented in
\* the sessions before is news, as if it had been this session's backlog.
AnotherSession ==
  /\ ~ticking
  /\ loaded = NotLoaded
  /\ feedbacks < MaxFeedbackSessions
  /\ feedbacks' = feedbacks + 1
  /\ ClearFrames
  /\ received' = 0 /\ started' = FALSE /\ lost' = 0
  /\ lastPresented' = 0
  /\ reported' = FALSE /\ report' = 0 /\ before' = presented /\ truth' = 0
  /\ UNCHANGED <<frames, loaded, presented, ticking, undecoded>>

FeedbackNext ==
  \/ ReceiveFrame \/ ReceiveUnsupported \/ LoadPresented \/ SendFeedback
  \/ DrainFrames \/ DecodeFrame \/ EndTick \/ DropFrames
  \/ AnotherSession

FeedbackSpec == FeedbackInit /\ [][FeedbackNext]_feedbackVars

-----------------------------------------------------------------------------
\* A report says, in magnitude, by how much the backlog of the viewer has changed since the
\* report before, with the frames it has lost on top, and whatever the GUI thread presents
\* while it is made belongs to the next: no frame is counted twice or left out, but that the
\* first report of a later session takes what the sessions before presented for its own.
ReportIsTheChange == reported /\ loaded = NotLoaded => report = Distance(truth, 0)

\* "Report the magnitude of our received-vs-decoded backlog so the BMC slows if we GENUINELY
\* fall behind": a viewer that had a backlog when it reported has reported one.
BacklogIsReported == reported /\ loaded = NotLoaded /\ before > 0 => report > 0

=============================================================================
