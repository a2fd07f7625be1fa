------------------------------ MODULE CertTrust ------------------------------
(***************************************************************************)
(* cert_trust.cpp and cert_prompt.cpp, with the two threads of ViewBase.   *)
(*                                                                         *)
(* A TLS handshake on the network thread asks the trust broker about the   *)
(* BMC's certificate.  When neither the system, the pin nor an earlier     *)
(* answer vouches for it, the network thread publishes a semaphore, posts  *)
(* a dialog to the GUI thread and waits; closing the window releases the   *)
(* semaphore of a prompt under way, and then joins the network thread.     *)
(*                                                                         *)
(* A viewer that is not told the kind of its host first detects it, with a *)
(* thread and a handshake of its own (auto_view.cpp), and only then has a  *)
(* view; the two threads never run at the same time, and worker is the     *)
(* program counter of the one there is.                                    *)
(*                                                                         *)
(* Of a session only its two handshakes are here, the login and the KVM    *)
(* websocket.  How a stop reaches a session that is up is not.             *)
(***************************************************************************)
EXTENDS ViewBase, Sequences

CONSTANTS
  Certs,      \* the certificates a BMC may present
  OsTrusted,  \* those that the system's store vouches for, host name and all
  NoCert,     \* no pin
  HasHostId,  \* the viewer was started for a stored host, so that pins are kept
  AutoDetect,       \* the viewer was started without the kind of its host
  MaxTickets  \* TlsSessionCache::max_size

ASSUME CertTrustAssumption ==
  /\ OsTrusted \subseteq Certs
  /\ NoCert \notin Certs
  /\ HasHostId \in BOOLEAN
  /\ AutoDetect \in BOOLEAN
  /\ MaxTickets \in Nat

VARIABLES
  leaf,       \* the certificate the BMC presents in this handshake, or has proved to have
  handshake,  \* "detect", "login" or "websocket"
  tickets,    \* TlsSessionCache::sessions, each the certificate that vouched for it
  offered,    \* the one offered in this handshake, or NoCert
  stage,      \* AutoDetection: "detecting" until it is handled; "failed", or "attached"
  verdict,    \* what its thread left: "none", "backend" or "error"
  app,        \* the event loop: "open", "leaving" once the window is closed, "over"
  approved,   \* TrustBroker::approved
  pinLoaded,  \* TrustBroker::pin_loaded
  pinned,     \* TrustBroker::pinned
  stored,     \* the pin of the host in the registry
  prompt,     \* sem of show_cert_prompt(): which prompt it is, 0 before the first
  pending,    \* g_pending: 0, or a prompt
  released,   \* sem was released
  posted,     \* the dialogs that wait in the GUI thread's event queue
  dialog,     \* the prompt that box.exec() is running for, or 0
  result,     \* result of show_cert_prompt()
  consented,  \* history: the certificates the user has pressed Connect for
  vouched,    \* history: the pins the registry has had
  waiting     \* history: a prompt was published when the window was closed

netVars == <<leaf, handshake, tickets, offered>>
brokerVars == <<approved, pinLoaded, pinned, stored, consented, vouched>>
promptVars == <<prompt, pending, released, posted, dialog, result, waiting>>
autoVars == <<stage, verdict, app>>
certVars == <<netVars, autoVars, brokerVars, promptVars>>
vars == <<viewVars, certVars>>

Least(m, n) == IF m <= n THEN m ELSE n

\* The least score of a backend that is chosen.
MinScore == 3

Pins == Certs \cup {NoCert}
\* A run has two handshakes, and a detection one.
Prompts == 0 .. 2 * MaxRuns + 1
Answer(proceed, pin) == [proceed |-> proceed, pin |-> pin]
No == Answer(FALSE, FALSE)

WorkerSteps ==
  {"evaluate", "publish", "post", "acquire", "answered", "classify", "session"}

Init ==
  /\ ViewInit
  /\ leaf \in Certs
  /\ handshake = "login"
  /\ tickets = <<>>
  /\ offered = NoCert
  /\ stage = IF AutoDetect THEN "detecting" ELSE "attached"
  /\ verdict = "none"
  /\ app = "open"
  /\ approved = {}
  /\ pinLoaded = FALSE
  /\ pinned = NoCert
  /\ stored \in IF HasHostId THEN Pins ELSE {NoCert}
  /\ prompt = 0
  /\ pending = 0
  /\ released = FALSE
  /\ posted = <<>>
  /\ dialog = 0
  /\ result = No
  /\ consented = {}
  /\ vouched = {stored} \ {NoCert}
  /\ waiting = FALSE

-----------------------------------------------------------------------------
\* The network thread.
Go(from, to) ==
  /\ worker = from
  /\ worker' = to
  /\ UNCHANGED <<gui, reconnecting, stopRequested, done, forceClose, snapshot,
                 sessionEnded, error, run>>

\* TlsSessionCache::push() of the sessions a verified handshake yields: the peer issues as
\* many as it likes, and the oldest make room.
Pushed(cert) ==
  {LET all == tickets \o [i \in 1 .. n |-> cert]
   IN SubSeq(all, Len(all) - Least(MaxTickets, Len(all)) + 1, Len(all)) : n \in 0 .. MaxTickets}

\* What prune_expired_locked() may leave: the oldest expire first.
Live(cached) == {SubSeq(cached, n + 1, Len(cached)) : n \in 0 .. Len(cached)}

\* TlsSessionCache::pop(): the oldest, and the others.
Popped(live) ==
  IF live = <<>> THEN [session |-> NoCert, rest |-> <<>>]
  ELSE [session |-> Head(live), rest |-> Tail(live)]

\* prepare_tls_session_resumption(): it is out of the cache, whatever the peer says to it.
Prepared(cached) ==
  \E live \in Live(cached) :
    /\ offered' = Popped(live).session
    /\ tickets' = Popped(live).rest

\* The handshake has verified: on to the next one, or to the session.
Verified(from, cert) ==
  \E cached \in Pushed(cert) :
    \/ /\ handshake = "login"
       /\ Go(from, "evaluate")
       /\ handshake' = "websocket"
       /\ leaf' \in Certs
       /\ Prepared(cached)
       /\ UNCHANGED connected
    \/ /\ handshake # "login"
       /\ Go(from, IF handshake = "websocket" THEN "session" ELSE "classify")
       /\ connected' = (handshake = "websocket")
       /\ leaf' = cert
       /\ tickets' = cached
       /\ offered' = NoCert
       /\ UNCHANGED handshake

\* A BmcWebSession makes a cache of its own, unless the detection left it one.
Login ==
  /\ stage = "attached"
  /\ Go("start", "evaluate")
  /\ leaf' \in Certs
  /\ handshake' = "login"
  /\ Prepared(IF AutoDetect THEN tickets ELSE <<>>)
  /\ UNCHANGED <<exception, connected, autoVars, brokerVars, promptVars>>

\* detect_kvm_backend(): a request of its own, before there is a view.
Detect ==
  /\ stage = "detecting"
  /\ Go("start", "evaluate")
  /\ leaf' \in Certs
  /\ handshake' = "detect"
  /\ Prepared(tickets)
  /\ UNCHANGED <<exception, connected, autoVars, brokerVars, promptVars>>

\* classify_root_response(): of the three scores one is the highest, and high enough;
\* the thread ends.
Classify ==
  /\ Go("classify", "exited")
  /\ \E best \in 0 .. MinScore, tie \in BOOLEAN :
       verdict' = IF best < MinScore \/ tie THEN "error" ELSE "backend"
  /\ UNCHANGED <<exception, connected, netVars, stage, app, brokerVars, promptVars>>

\* What is thrown in a detection is kept for the GUI thread, in a session for its console.
Throw(from) ==
  IF handshake = "detect"
  THEN /\ Go(from, "exited")
       /\ verdict' = "error"
       /\ UNCHANGED exception
  ELSE /\ Go(from, "cleanup")
       /\ exception' = FirstException
       /\ UNCHANGED verdict

\* The BMC, or the network, may refuse everything at any time.
ConnectFails ==
  /\ Throw("evaluate")
  /\ UNCHANGED <<connected, netVars, stage, app, brokerVars, promptVars>>

\* The peer may resume the session it is offered: then nothing is verified, and it has
\* proved no more than that it is the one which that session was made with.
Resume ==
  /\ offered # NoCert
  /\ Verified("evaluate", offered)
  /\ UNCHANGED <<exception, autoVars, brokerVars, promptVars>>

\* load_pinned_cert(), or nothing when the registry cannot be read.
LoadPin == {stored, NoCert}

\* cert_trust_evaluate(), as far as it holds the broker's mutex.  The pin is asked for once.
Pin == IF pinLoaded THEN {pinned} ELSE LoadPin

EvaluateApproved ==
  /\ leaf \in approved
  /\ Verified("evaluate", leaf)
  /\ UNCHANGED <<exception, autoVars, brokerVars, promptVars>>

\* A mutant of EvaluatePinned: any pin will do.
EvaluateHasPin ==
  /\ leaf \notin approved
  /\ pinLoaded' = TRUE
  /\ pinned' \in Pin
  /\ pinned' # NoCert
  /\ approved' = approved \cup {leaf}
  /\ Verified("evaluate", leaf)
  /\ UNCHANGED <<exception, autoVars, stored, consented, vouched, promptVars>>

EvaluatePinned ==
  /\ leaf \notin approved
  /\ pinLoaded' = TRUE
  /\ pinned' \in Pin
  /\ pinned' = leaf
  /\ approved' = approved \cup {leaf}
  /\ Verified("evaluate", leaf)
  /\ UNCHANGED <<exception, autoVars, stored, consented, vouched, promptVars>>

EvaluateTrusted ==
  /\ leaf \notin approved
  /\ pinLoaded' = TRUE
  /\ pinned' \in Pin
  /\ pinned' # leaf
  /\ leaf \in OsTrusted
  /\ Verified("evaluate", leaf)
  /\ UNCHANGED <<exception, autoVars, approved, stored, consented, vouched, promptVars>>

EvaluateUnknown ==
  /\ leaf \notin approved
  /\ pinLoaded' = TRUE
  /\ pinned' \in Pin
  /\ pinned' # leaf
  /\ leaf \notin OsTrusted
  /\ Go("evaluate", "publish")
  /\ UNCHANGED <<exception, connected, netVars, autoVars, approved, stored, consented,
                 vouched, promptVars>>

\* show_cert_prompt(): a semaphore of its own for each prompt, in the one slot ...
Publish ==
  /\ Go("publish", "post")
  /\ prompt' = prompt + 1
  /\ pending' = prompt + 1
  /\ released' = FALSE
  /\ result' = No
  /\ UNCHANGED <<exception, connected, netVars, autoVars, brokerVars, posted, dialog,
                 waiting>>

\* ... the dialog posted to the GUI thread ...
Post ==
  /\ Go("post", "acquire")
  /\ posted' = Append(posted, prompt)
  /\ UNCHANGED <<exception, connected, netVars, autoVars, brokerVars, prompt, pending,
                 released, dialog, result, waiting>>

\* ... and the wait.
Acquire ==
  /\ released
  /\ Go("acquire", "answered")
  /\ UNCHANGED <<exception, connected, certVars>>

Refused ==
  /\ ~result.proceed
  /\ Throw("answered")
  /\ UNCHANGED <<connected, netVars, stage, app, brokerVars, promptVars>>

\* A mutant of Accepted: the answer holds for this handshake only.
AcceptedOnce ==
  /\ result.proceed
  /\ Verified("answered", leaf)
  /\ UNCHANGED <<exception, autoVars, brokerVars, promptVars>>

\* save_pin(): the registry takes it, or not.
SavePin(cert) ==
  \/ stored' = cert /\ vouched' = vouched \cup {cert}
  \/ UNCHANGED <<stored, vouched>>

\* The mutex again: the certificate is approved for this process, and pinned for good if
\* the user said so.
Accepted ==
  /\ result.proceed
  /\ Verified("answered", leaf)
  /\ approved' = approved \cup {leaf}
  /\ IF result.pin
     THEN pinned' = leaf /\ SavePin(leaf)
     ELSE UNCHANGED <<pinned, stored, vouched>>
  /\ UNCHANGED <<exception, autoVars, pinLoaded, consented, promptVars>>

\* The session ends: because of a stop, or by itself.
SessionOver ==
  /\ Go("session", "cleanup")
  /\ connected' = FALSE
  /\ UNCHANGED <<exception, certVars>>

CleanUp ==
  /\ Go("cleanup", "dropForceClose")
  /\ UNCHANGED <<exception, connected, certVars>>

-----------------------------------------------------------------------------
\* The GUI thread.

\* A mutant of RunPosted: the dialog is shown whatever has become of the prompt.
RunPostedUnclaimed ==
  /\ gui \in {"idle", "closed"}
  /\ app # "over"
  /\ dialog = 0
  /\ posted # <<>>
  /\ posted' = Tail(posted)
  /\ dialog' = Head(posted)
  /\ pending' = 0
  /\ UNCHANGED <<viewVars, netVars, autoVars, brokerVars, prompt, released, result,
                 waiting>>

\* The posted lambda, in the event loop: it claims the slot if its semaphore is still
\* there, and runs the dialog.  The event loop may still turn after the window has closed.
RunPosted ==
  /\ gui \in {"idle", "closed"}
  /\ app # "over"
  /\ dialog = 0
  /\ posted # <<>>
  /\ posted' = Tail(posted)
  /\ IF pending = Head(posted)
     THEN dialog' = Head(posted) /\ pending' = 0
     ELSE UNCHANGED <<dialog, pending>>
  /\ UNCHANGED <<viewVars, netVars, autoVars, brokerVars, prompt, released, result,
                 waiting>>

\* The user answers the dialog.
Click(answer) ==
  /\ dialog # 0
  /\ result' = answer
  /\ released' = TRUE
  /\ dialog' = 0
  /\ UNCHANGED <<viewVars, netVars, autoVars, approved, pinLoaded, pinned, stored,
                 vouched, prompt, pending, posted, waiting>>

ClickConnect ==
  /\ \E pin \in {FALSE, HasHostId} : Click(Answer(TRUE, pin))
  /\ consented' = consented \cup {leaf}

ClickCancel == Click(No) /\ UNCHANGED consented

\* A mutant of CancelPending: nothing is cancelled before the join.
CancelNothing ==
  /\ waiting' = (waiting \/ pending # 0)
  /\ UNCHANGED <<released, pending>>

\* cancel_pending_cert_prompt()
CancelPending ==
  /\ waiting' = (waiting \/ pending # 0)
  /\ released' = (released \/ pending # 0)
  /\ pending' = 0

\* closeRequested: the prompt is cancelled and the view, if there is one, stopped.  The
\* dialog is modal: the window does not close under it.
CloseWindow ==
  /\ app = "open"
  /\ dialog = 0
  /\ app' = "leaving"
  /\ CancelPending
  /\ IF stage = "attached" THEN PressClose ELSE gui = "idle" /\ UNCHANGED viewVars
  /\ UNCHANGED <<netVars, stage, verdict, brokerVars, prompt, posted, dialog,
                 result>>

\* The frame tick after the detection's thread is done, which may also be one between the
\* end of the window and that of the event loop: the view is attached and its network
\* started, or fail() closes the window.
TakeVerdict ==
  /\ stage = "detecting"
  /\ app # "over"
  /\ worker = "exited"
  /\ IF verdict = "error"
     THEN /\ stage' = "failed"
          /\ app' = "leaving"
          /\ CancelPending
          /\ UNCHANGED viewVars
     ELSE /\ stage' = "attached"
          /\ worker' = "start"
          /\ UNCHANGED <<app, released, pending, waiting, gui, reconnecting, stopRequested,
                         done, forceClose, snapshot, exception, sessionEnded, error,
                         connected, run>>
  /\ UNCHANGED <<netVars, verdict, brokerVars, prompt, posted, dialog, result>>

\* A mutant of LeaveLoop: a view that was attached late is destroyed as it is.
LeaveLoopAtOnce ==
  /\ app = "leaving"
  /\ gui \in {"idle", "closed"}
  /\ dialog = 0
  /\ app' = "over"
  /\ CancelPending
  /\ gui' = IF stage = "attached" THEN "closed" ELSE gui
  /\ UNCHANGED <<reconnecting, stopRequested, done, forceClose, snapshot, exception,
                 sessionEnded, error, connected, worker, run>>
  /\ UNCHANGED <<netVars, stage, verdict, brokerVars, prompt, posted, dialog,
                 result>>

\* exec() returns: the prompt is cancelled once more, and a view that was attached after
\* the window had closed is stopped.
LeaveLoop ==
  /\ app = "leaving"
  /\ gui \in {"idle", "closed"}
  /\ dialog = 0
  /\ app' = "over"
  /\ CancelPending
  /\ IF stage = "attached" /\ gui = "idle" THEN PressClose ELSE UNCHANGED viewVars
  /\ UNCHANGED <<netVars, stage, verdict, brokerVars, prompt, posted, dialog,
                 result>>

\* The window is destroyed, and with it the AutoDetection of its frame ticks.
JoinDetection ==
  /\ app = "over"
  /\ stage # "attached"
  /\ gui = "idle"
  /\ worker = "exited"
  /\ gui' = "closed"
  /\ UNCHANGED <<reconnecting, stopRequested, done, forceClose, snapshot, exception,
                 sessionEnded, error, connected, worker, run, certVars>>

\* The viewer is gone.
Closed ==
  /\ gui = "closed"
  /\ app = "over"
  /\ UNCHANGED vars

-----------------------------------------------------------------------------
GuiNext ==
  \/ RunPosted \/ ClickConnect \/ ClickCancel
  \/ CloseWindow \/ TakeVerdict \/ LeaveLoop \/ JoinDetection
  \/ (\/ Poll \/ (PressRetry /\ app = "open") \/ RequestStop \/ SnapshotForceClose
      \/ JoinAndClose \/ JoinAndRestart) /\ UNCHANGED certVars

WorkerNext ==
  \/ Login \/ Detect \/ Classify \/ ConnectFails \/ Resume
  \/ EvaluateApproved \/ EvaluatePinned \/ EvaluateTrusted \/ EvaluateUnknown
  \/ Publish \/ Post \/ Acquire \/ Refused \/ Accepted
  \/ SessionOver \/ CleanUp
  \/ (DropForceClose \/ Finish) /\ UNCHANGED certVars

Next == GuiNext \/ WorkerNext \/ Closed

Spec == Init /\ [][Next]_vars

\* Both threads are scheduled, and a session ends when it is asked to.  Nothing makes the
\* user answer.
Fairness ==
  /\ WF_vars(WorkerNext /\ (worker = "session" => stopRequested))
  /\ WF_vars(RunPosted) /\ WF_vars(LeaveLoop) /\ WF_vars(JoinDetection)
  /\ WF_vars((RequestStop \/ SnapshotForceClose \/ JoinAndClose \/ JoinAndRestart)
               /\ UNCHANGED certVars)

FairSpec == Spec /\ Fairness

-----------------------------------------------------------------------------
TypeOK ==
  /\ ViewFlagsOK
  /\ ViewValuesOK(WorkerSteps, {Empty})
  /\ leaf \in Certs
  /\ handshake \in {"detect", "login", "websocket"}
  /\ tickets \in Seq(Certs)
  /\ offered \in Pins
  /\ stage \in {"detecting", "failed", "attached"}
  /\ verdict \in {"none", "backend", "error"}
  /\ app \in {"open", "leaving", "over"}
  /\ approved \subseteq Certs
  /\ pinLoaded \in BOOLEAN
  /\ pinned \in Pins
  /\ stored \in Pins
  /\ prompt \in Prompts
  /\ pending \in Prompts
  /\ released \in BOOLEAN
  /\ posted \in Seq(Prompts)
  /\ dialog \in Prompts
  /\ result \in [proceed : BOOLEAN, pin : BOOLEAN]
  /\ consented \subseteq Certs
  /\ vouched \subseteq Certs
  /\ waiting \in BOOLEAN

\* The dialog writes its answer through references into show_cert_prompt()'s frame, so
\* while it is up that call must be waiting; and while the call waits, and the window is
\* not closing, a dialog is up, on its way, or answered.
DialogHasCaller ==
  /\ dialog # 0 => worker = "acquire" /\ dialog = prompt /\ ~released
  /\ worker = "acquire" /\ gui = "idle" /\ app = "open" =>
       \/ dialog = prompt
       \/ released
       \/ pending = prompt /\ \E i \in DOMAIN posted : posted[i] = prompt

\* A session is up only with a certificate that the system vouches for, that a pin of this
\* host has named, or that the user has accepted in this process.
SessionIsTrusted ==
  connected => leaf \in OsTrusted \cup vouched \cup consented

\* "so a login's REST and WebSocket handshakes only ever prompt once": what the user has
\* accepted is not asked again, in no later run either.
AskedOnce == dialog # 0 => leaf \notin consented

\* Closing the window when a prompt is published ends the wait for it, and the viewer
\* goes away: "or the join deadlocks against it".
CloseEndsPrompt == (app # "open" /\ waiting) ~> (gui = "closed")

\* "a window-close while a prompt is pending can't deadlock" (cert_prompt.hpp), and no other
\* close does: a window that closes goes away.
StopCompletes == (app # "open") ~> (gui = "closed")

\* When run_viewer() returns and the host is destroyed no thread of it is left, also one
\* whose view was attached between the close of the window and the end of the event loop.
NothingOutlivesViewer == gui = "closed" /\ app = "over" => worker = "exited"

=============================================================================
