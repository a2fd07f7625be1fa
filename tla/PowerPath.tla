------------------------------- MODULE PowerPath ------------------------------
(***************************************************************************)
(* The way of a power action of a PiKVM viewer: the hold-to-confirm popup  *)
(* (ViewerPowerControl) on the GUI thread, the PowerChannel between it and *)
(* the session, the PowerRestWorker with its thread and its queue, and the *)
(* HttpsClient that the worker shares with the network thread, down to the *)
(* button that the BMC presses.                                            *)
(*                                                                         *)
(* The actions that the user confirms are numbered.  The network thread is *)
(* PikvmNetwork's, reduced to what it does with the worker and the client: *)
(* it has one or the other user of the client at a time, or should.        *)
(***************************************************************************)
EXTENDS Naturals, Sequences, SequencesExt, FiniteSets

CONSTANTS
  MaxActions,    \* bound of the model: actions confirmed in all sessions
  MaxRuns,       \* bound of the model: sessions of the window
  HoldTicks,     \* ticks of a hold (75 in the code)
  PulseTicks,    \* polls that a pulse lasts without an outcome (20 in the code)
  Reported       \* the power states that the BMC reports

ASSUME PowerAssumption ==
  /\ {MaxActions, MaxRuns} \subseteq Nat
  /\ {HoldTicks, PulseTicks} \subseteq Nat \ {0}
  /\ Reported \subseteq {"On", "Off"}

VARIABLES
  enabled,      \* the power button is enabled, and with it the popup
  shown,        \* ViewerPowerControl::state_, which enables the popup's buttons
  hold,         \* the button held down and the ticks it has been
  pulse,        \* pending_ticks_ while pending_, or 0
  gui,          \* program counter of the GUI thread in PowerChannel::submit()
  issued,       \* how many actions were confirmed
  state,        \* PowerChannel::state_
  sink,         \* PowerChannel::sink_ is installed
  waiting,      \* PowerChannel::pending_
  outcomes,     \* PowerChannel::outcomes_
  net,          \* program counter of the network thread
  run,          \* sessions so far
  connected,    \* ViewStatus::connected_
  holders,      \* who has a shared_ptr to the worker
  stopping,     \* PowerRestWorker::stopping_
  queue,        \* PowerRestWorker::queue_
  worker,       \* program counter of the worker's thread
  current,      \* the action whose request is under way
  stream,       \* HttpsClient::stream_ is a connection
  reused,       \* reused_connection of the worker's request
  retried,      \* retried of the worker's request
  pressed,      \* history: how often the BMC pressed the button for an action
  lost,         \* history: the actions whose answer was lost with a reused connection
  answered,     \* history: the actions whose outcome the user has seen
  borrowed      \* history: the GUI thread had the last shared_ptr to the session's worker

guiVars == <<enabled, shown, hold, pulse, gui, issued, answered>>
channelVars == <<state, sink, waiting, outcomes>>
netVars == <<net, run, connected>>
workerVars == <<holders, stopping, queue, worker, current, borrowed>>
clientVars == <<stream, reused, retried, pressed, lost>>
vars == <<guiVars, channelVars, netVars, workerVars, clientVars>>

States == {"Unknown"} \cup Reported
Kinds == {"On", "Reset"}    \* Reset stands for the two ways to switch off as well
Ids == 1 .. MaxActions
NotHeld == [kind |-> "none", ticks |-> 0]

Init ==
  /\ enabled = FALSE
  /\ shown = "Unknown"
  /\ hold = NotHeld
  /\ pulse = 0
  /\ gui = "idle"
  /\ issued = 0
  /\ state = "Unknown"
  /\ sink = FALSE
  /\ waiting = <<>>
  /\ outcomes = <<>>
  /\ net = "start"
  /\ run = 1
  /\ connected = FALSE
  /\ holders = {}
  /\ stopping = FALSE
  /\ queue = <<>>
  /\ worker = "none"
  /\ current = 0
  /\ stream = FALSE
  /\ reused = FALSE
  /\ retried = FALSE
  /\ pressed = [a \in Ids |-> 0]
  /\ lost = {}
  /\ answered = {}
  /\ borrowed = FALSE

\* Two threads are in the same HttpsClient: a data race, and soon a worker without its web
\* session.  What the build does then is anything; the model stops.
Undefined == net = "logout" /\ worker \notin {"none", "wait", "ended"}

-----------------------------------------------------------------------------
\* PowerPopup::action_enabled
ActionEnabled(kind) ==
  CASE shown = "Unknown" -> TRUE
    [] shown = "On" -> kind # "On"
    [] shown = "Off" -> kind = "On"

GuiIdle == gui = "idle" /\ UNCHANGED <<netVars, workerVars, clientVars>>

\* set_session_connected() on every frame tick.
FrameTick ==
  /\ GuiIdle
  /\ enabled # connected
  /\ enabled' = connected
  /\ UNCHANGED <<shown, hold, pulse, gui, issued, answered, channelVars>>

\* mousePressEvent() on a button of the popup that open_popup() shows.
Press(kind) ==
  /\ GuiIdle
  /\ enabled
  /\ ActionEnabled(kind)
  /\ hold = NotHeld
  /\ issued < MaxActions
  /\ hold' = [kind |-> kind, ticks |-> 0]
  /\ UNCHANGED <<enabled, shown, pulse, gui, issued, answered, channelVars>>

\* cancel(): released, or left, or disabled by the time of the next tick.
Release ==
  /\ GuiIdle
  /\ hold # NotHeld
  /\ hold' = NotHeld
  /\ UNCHANGED <<enabled, shown, pulse, gui, issued, answered, channelVars>>

\* advance(), while the bar fills up.
HoldTick ==
  /\ GuiIdle
  /\ hold # NotHeld
  /\ hold.ticks + 1 < HoldTicks
  /\ hold' = IF enabled /\ ActionEnabled(hold.kind)
             THEN [hold EXCEPT !.ticks = @ + 1] ELSE NotHeld
  /\ UNCHANGED <<enabled, shown, pulse, gui, issued, answered, channelVars>>

\* advance() at the end, fire(), issue() and PowerChannel::submit() as far as the copy of
\* the sink, which is called outside the lock.
Fire ==
  /\ GuiIdle
  /\ hold # NotHeld
  /\ hold.ticks + 1 = HoldTicks
  /\ hold' = NotHeld
  /\ IF enabled /\ ActionEnabled(hold.kind)
     THEN /\ issued' = issued + 1
          /\ pulse' = PulseTicks
          /\ gui' = IF sink THEN "lock" ELSE "idle"
          /\ waiting' = IF sink THEN waiting ELSE Append(waiting, issued + 1)
     ELSE UNCHANGED <<issued, pulse, gui, waiting>>
  /\ UNCHANGED <<enabled, shown, answered, state, sink, outcomes>>

\* ViewerPowerControl::poll(): the state, the outcomes, and the pulse.
PollControl ==
  /\ GuiIdle
  /\ shown' = state
  /\ answered' = answered \cup ToSet(outcomes)
  /\ outcomes' = <<>>
  /\ pulse' = IF outcomes # <<>> \/ pulse = 0 THEN 0 ELSE pulse - 1
  /\ UNCHANGED <<enabled, hold, gui, issued, state, sink, waiting>>

\* The sink: weak_ptr::lock(), which finds the worker or does not ...
LockWorker ==
  /\ gui = "lock"
  /\ gui' = IF holders = {} THEN "idle" ELSE "submit"
  /\ holders' = IF holders = {} THEN {} ELSE holders \cup {"gui"}
  /\ UNCHANGED <<enabled, shown, hold, pulse, issued, answered, channelVars, netVars, stopping,
                 queue, worker, current, borrowed, clientVars>>

\* ... PowerRestWorker::submit() ...
Submit ==
  /\ gui = "submit"
  /\ gui' = "release"
  /\ queue' = IF stopping THEN queue ELSE Append(queue, issued)
  /\ UNCHANGED <<enabled, shown, hold, pulse, issued, answered, channelVars, netVars, holders,
                 stopping, worker, current, borrowed, clientVars>>

\* ... and the end of the shared_ptr, which may be the last.
GuiRelease ==
  /\ gui = "release"
  /\ holders' = holders \ {"gui"}
  /\ LET last == holders = {"gui"}
     IN  /\ gui' = IF last THEN "join" ELSE "idle"
         /\ stopping' = (stopping \/ last)
         /\ borrowed' = (borrowed \/ last)
  /\ UNCHANGED <<enabled, shown, hold, pulse, issued, answered, channelVars, netVars, queue,
                 worker, current, clientVars>>

\* ~PowerRestWorker on the GUI thread.
GuiJoin ==
  /\ gui = "join"
  /\ worker = "ended"
  /\ gui' = "idle"
  /\ UNCHANGED <<enabled, shown, hold, pulse, issued, answered, channelVars, netVars,
                 workerVars, clientVars>>

-----------------------------------------------------------------------------
\* The network thread takes a step; the worker's thread may be in the client.
NetStep(from, to) ==
  /\ net = from
  /\ net' = to
  /\ UNCHANGED <<guiVars, run, state, outcomes, current, clientVars>>

\* Log-in and probe have used the client, and leave a connection or not.  The worker is
\* made; its thread waits for work.
MakeWorker ==
  /\ net = "start"
  /\ net' = "install"
  /\ stream' \in BOOLEAN
  /\ holders' = {"net"}
  /\ worker' = "wait"
  /\ UNCHANGED <<guiVars, channelVars, run, connected, stopping, queue, current, borrowed,
                 reused, retried, pressed, lost>>

\* PowerChannel::install(): the sink under the lock ...
Install ==
  /\ NetStep("install", "flush")
  /\ sink' = TRUE
  /\ UNCHANGED <<connected, waiting, holders, stopping, queue, worker, borrowed>>

\* ... and outside it what was pending, which was taken under the same lock.  (An action
\* that is submitted in between goes ahead of it.)
Flush ==
  /\ NetStep("flush", "run")
  /\ queue' = queue \o waiting
  /\ waiting' = <<>>
  /\ connected' = TRUE
  /\ UNCHANGED <<sink, holders, stopping, worker, borrowed>>

\* ATX events on the control channel.
PublishState ==
  /\ net = "run"
  /\ state' \in Reported \ {state}
  /\ UNCHANGED <<guiVars, sink, waiting, outcomes, netVars, workerVars, clientVars>>

\* The channels have ended, by a stop, an error or both; the link is down first.
EndChannels ==
  /\ NetStep("run", "clear")
  /\ connected' = FALSE
  /\ UNCHANGED <<sink, waiting, holders, stopping, queue, worker, borrowed>>

\* PowerChannel::clear()
ClearPower ==
  /\ NetStep("clear", "release")
  /\ sink' = FALSE
  /\ waiting' = <<>>
  /\ UNCHANGED <<connected, holders, stopping, queue, worker, borrowed>>

\* A mutant of ReleaseWorker: the logout does not wait for the worker.
ReleaseDetached ==
  /\ NetStep("release", "logout")
  /\ holders' = holders \ {"net"}
  /\ stopping' = (stopping \/ holders = {"net"})
  /\ UNCHANGED <<connected, sink, waiting, queue, worker, borrowed>>

\* A mutant of ReleaseWorker: the thread is joined and not told.
ReleaseUntold ==
  /\ NetStep("release", IF holders = {"net"} THEN "join" ELSE "logout")
  /\ holders' = holders \ {"net"}
  /\ UNCHANGED <<connected, sink, waiting, stopping, queue, worker, borrowed>>

\* The shared_ptr of the run function goes.  If it is the last, as it mostly is, it stops
\* the worker: the flag, cancel_in_flight_request() and the join.  The cancel is the stop of
\* an io_context in which no operation of the client is pending, since connect(), write()
\* and read() are synchronous: it changes nothing.
ReleaseWorker ==
  /\ NetStep("release", IF holders = {"net"} THEN "join" ELSE "logout")
  /\ holders' = holders \ {"net"}
  /\ stopping' = (stopping \/ holders = {"net"})
  /\ UNCHANGED <<connected, sink, waiting, queue, worker, borrowed>>

JoinWorker ==
  /\ worker = "ended"
  /\ NetStep("join", "logout")
  /\ UNCHANGED <<connected, sink, waiting, holders, stopping, queue, worker, borrowed>>

\* ~PikvmLogoutGuard has sent its request; the web session and the view's cleanup follow.
LogoutDone ==
  /\ ~Undefined
  /\ NetStep("logout", "done")
  /\ sink' = FALSE
  /\ waiting' = <<>>
  /\ UNCHANGED <<connected, holders, stopping, queue, worker, borrowed>>

\* The user reconnects, once the frame tick has shown the end.
Retry ==
  /\ net = "done"
  /\ run < MaxRuns
  /\ gui = "idle"
  /\ ~enabled
  /\ net' = "start"
  /\ run' = run + 1
  /\ worker' = "none"
  /\ queue' = <<>>
  /\ stopping' = FALSE
  /\ stream' = FALSE
  /\ borrowed' = FALSE
  /\ UNCHANGED <<guiVars, channelVars, connected, holders, current, reused, retried, pressed,
                 lost>>

-----------------------------------------------------------------------------
\* The worker's thread takes a step.
WorkStep(from, to) ==
  /\ ~Undefined
  /\ worker = from
  /\ worker' = to
  /\ UNCHANGED <<guiVars, state, sink, waiting, netVars, holders, stopping, borrowed>>

\* run(): the next action, also when a stop has been asked for.
TakeAction ==
  /\ queue # <<>>
  /\ WorkStep("wait", "send")
  /\ current' = Head(queue)
  /\ queue' = Tail(queue)
  /\ reused' = stream
  /\ retried' = FALSE
  /\ UNCHANGED <<outcomes, stream, pressed, lost>>

StopWaiting ==
  /\ stopping
  /\ queue = <<>>
  /\ WorkStep("wait", "ended")
  /\ UNCHANGED <<outcomes, queue, current, clientVars>>

\* request(): a connection, unless one is kept, and the request is written.
Send ==
  /\ WorkStep("send", "sent")
  /\ stream' = TRUE
  /\ UNCHANGED <<outcomes, queue, current, reused, retried, pressed, lost>>

\* The BMC reads the request and clicks the button.
PressButton ==
  /\ WorkStep("sent", "pressed")
  /\ pressed' = [pressed EXCEPT ![current] = @ + 1]
  /\ UNCHANGED <<outcomes, queue, current, stream, reused, retried, lost>>

\* A response is read, to a click or a refusal.  It may end the connection.
Answer ==
  /\ \E refused \in BOOLEAN : WorkStep(IF refused THEN "sent" ELSE "pressed", "report")
  /\ stream' \in BOOLEAN
  /\ UNCHANGED <<outcomes, queue, current, reused, retried, pressed, lost>>

\* A mutant of MayRetry: every failure of a reused connection counts as stale keep-alive.
RetryAny(closed) == reused /\ ~retried

\* A POST is sent again only if the connection was reused and the peer has closed it.
MayRetry(closed) == reused /\ ~retried /\ closed

\* The exchange fails: the peer closes the connection, in a way that counts as closed, or
\* the connect, the handshake, or what is written or read.  Neither cancel() nor an
\* expires_after() ends it.
Exchange == {"send", "sent", "pressed"}

ExchangeFails ==
  /\ \E closed \in BOOLEAN :
       /\ \E from \in Exchange : WorkStep(from, IF MayRetry(closed) THEN "send" ELSE "threw")
       /\ retried' = (retried \/ MayRetry(closed))
       /\ lost' = IF closed /\ reused /\ worker = "pressed" THEN lost \cup {current} ELSE lost
  /\ stream' = FALSE
  /\ reused' = FALSE
  /\ UNCHANGED <<outcomes, queue, current, pressed>>

\* The error of a request.  After a stop nobody is told, and what is still queued goes with
\* the worker.
Threw ==
  /\ WorkStep("threw", IF stopping THEN "ended" ELSE "report")
  /\ queue' = IF stopping THEN <<>> ELSE queue
  /\ current' = IF stopping THEN 0 ELSE current
  /\ UNCHANGED <<outcomes, clientVars>>

\* A mutant of Report: a failed request is only logged.
ReportAnswered ==
  /\ WorkStep("report", "wait")
  /\ outcomes' = IF stream THEN Append(outcomes, current) ELSE outcomes
  /\ current' = 0
  /\ reused' = FALSE
  /\ retried' = FALSE
  /\ UNCHANGED <<queue, stream, pressed, lost>>

\* publish_outcome()
Report ==
  /\ WorkStep("report", "wait")
  /\ outcomes' = Append(outcomes, current)
  /\ current' = 0
  /\ reused' = FALSE
  /\ retried' = FALSE
  /\ UNCHANGED <<queue, stream, pressed, lost>>

-----------------------------------------------------------------------------
\* Nothing more to do, or nothing more to say.
AtRest ==
  /\ Undefined \/ (net = "done" /\ run = MaxRuns /\ gui = "idle")
  /\ UNCHANGED vars

GuiSubmit == LockWorker \/ Submit \/ GuiRelease \/ GuiJoin
User == Release \/ HoldTick \/ Fire \/ \E kind \in Kinds : Press(kind)
NetWaits == MakeWorker \/ LogoutDone
NetNext == Install \/ Flush \/ ClearPower \/ ReleaseWorker \/ JoinWorker
Session == PublishState \/ EndChannels \/ Retry
ExchangeEnds == Answer \/ ExchangeFails
WorkerNext == TakeAction \/ StopWaiting \/ Threw \/ Report

Next ==
  \/ FrameTick \/ PollControl \/ GuiSubmit \/ User
  \/ NetWaits \/ NetNext \/ Session
  \/ WorkerNext \/ Send \/ PressButton \/ ExchangeEnds
  \/ AtRest

Spec == Init /\ [][Next]_vars

\* Threads are scheduled and timers tick.  The user need not do anything, and the BMC need
\* neither press nor answer: a request is a synchronous exchange, and nothing but the BMC
\* ends it, be it the worker's (ExchangeEnds) or the network thread's (NetWaits).
Fairness ==
  /\ WF_vars(GuiSubmit)
  /\ WF_vars(FrameTick)
  /\ WF_vars(PollControl)
  /\ WF_vars(NetNext)
  /\ WF_vars(WorkerNext)

FairSpec == Spec /\ Fairness

-----------------------------------------------------------------------------
TypeOK ==
  /\ {enabled, sink, connected, stopping, stream, reused, retried, borrowed} \subseteq BOOLEAN
  /\ {shown, state} \subseteq States
  /\ hold \in [kind : Kinds \cup {"none"}, ticks : 0 .. HoldTicks]
  /\ pulse \in 0 .. PulseTicks
  /\ gui \in {"idle", "lock", "submit", "release", "join"}
  /\ issued \in 0 .. MaxActions
  /\ {waiting, outcomes, queue} \subseteq Seq(Ids)
  /\ net \in {"start", "install", "flush", "run", "clear", "release", "join", "logout", "done"}
  /\ run \in 1 .. MaxRuns
  /\ holders \subseteq {"net", "gui"}
  /\ worker \in Exchange \cup {"none", "wait", "report", "threw", "ended"}
  /\ current \in {0} \cup Ids
  /\ pressed \in [Ids -> Nat]
  /\ {lost, answered} \subseteq SUBSET Ids

\* Worker and network thread share a client that is not thread-safe.  "Joined before
\* logout" holds but for one way: the GUI thread is in the sink with a shared_ptr of its
\* own when the run function drops its, and the worker outlives the session.
ClientHasOneUser == Undefined => "gui" \in holders \/ borrowed

\* A reset is not executed twice, but for the one case the client's retry does not tell
\* apart: a kept connection that the BMC closed after it had pressed and before it answered.
PressedTwiceOnlyIfLost ==
  \A a \in Ids : pressed[a] > 1 => pressed[a] = 2 /\ a \in lost

\* Nothing is executed twice at all.
NeverPressedTwice == \A a \in Ids : pressed[a] <= 1

\* The worker stays in one exchange for good.
BmcSilent == <>[](worker \in Exchange)

\* Whatever the user confirmed while a session runs is answered by a toast, in error cases
\* too, unless the session ends first or the BMC never ends the exchange that the worker is
\* in, for this action or one before it.
ConfirmedIsAnswered ==
  BmcSilent
    \/ \A a \in Ids :
         ((gui = "lock" /\ issued = a) \/ a \in ToSet(queue))
           ~> (a \in answered \/ net \notin {"flush", "run"})

\* The network thread gets through its teardown as far as the logout, with any number of
\* actions queued, and wherever the cancel finds the worker, if the BMC ends the exchange
\* that it is in.
TeardownEnds == BmcSilent \/ ((net = "clear") ~> (net \in {"logout", "done"}))

\* A stop ends the request that the worker is in, whether the BMC answers or not.
StopAbortsRequest == (stopping /\ worker \in Exchange) ~> (worker \notin Exchange)

=============================================================================
