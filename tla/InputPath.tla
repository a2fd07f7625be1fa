------------------------------ MODULE InputPath ------------------------------
(***************************************************************************)
(* The way of a key from the keyboard or the clipboard to a MegaRAC BMC:   *)
(* the key gating of run_viewer, ViewerPasteControl and ClipboardTyper,    *)
(* KvmInputController and InputQueue.                                      *)
(*                                                                         *)
(* A handler of the GUI thread leaves the key events it feeds in todo; for *)
(* each the controller encodes a report, which is the set of all keys that *)
(* are down, and enqueue() either keeps it in pending_ or calls the sink,  *)
(* outside the lock.  The network thread installs and clears the sink at   *)
(* any moment between.                                                     *)
(***************************************************************************)
EXTENDS Naturals, Sequences, SequencesExt

CONSTANTS
  Keys,         \* the keys the model has
  Plans,        \* the plans a paste may have: sequences of chords
  Risky,        \* those with a newline in them, or large
  MaxSessions,  \* bound of the model: websockets opened
  MaxPresses,   \* bound of the model: keys the user presses
  MaxPastes     \* bound of the model: pastes the user starts

ASSUME InputPathAssumption ==
  /\ {MaxSessions, MaxPresses, MaxPastes} \subseteq Nat
  /\ Risky \subseteq Plans
  /\ \A plan \in Plans :
       /\ plan # <<>>
       /\ \A i \in 1 .. Len(plan) :
            /\ plan[i].key \in Keys
            /\ ToSet(plan[i].modifiers) \subseteq Keys
            /\ IsInjective(plan[i].modifiers)

VARIABLES
  physical,   \* the keys the user holds down
  presses,    \* keys pressed so far
  pastes,     \* pastes started so far
  keyDown,    \* KvmInputController::key_down_
  armed,      \* ViewerPasteControl::armed_
  enabled,    \* ViewerPasteControl::paste_enabled_
  active,     \* ClipboardTyper::active_
  queue,      \* ClipboardTyper::queue_ from next_ on
  pressed,    \* ClipboardTyper::pressed_
  todo,       \* the key events that the running handler has yet to feed
  calling,    \* enqueue() between the lock and the sink: <<>> or <<call>>
  sink,       \* InputQueue::sink_: 0, or the session it posts to
  pending,    \* InputQueue::pending_
  flushing,   \* install()'s local queue
  net,        \* program counter of the network thread
  session,    \* sessions so far
  connected,  \* ViewStatus::connected_
  guest,      \* the last report posted to this session
  told,       \* there was one
  overtaken,  \* history: guest was posted before an older report that is in flushing
  dropped,    \* history: a release of the typer did not reach the controller
  typed,      \* history: the keys in keyDown that the typer pressed
  atStart     \* history: keyDown when the typer started

pasteVars == <<armed, enabled>>
typerVars == <<active, queue, pressed, atStart, pasteVars>>
userVars == <<physical, presses, pastes>>
netVars == <<sink, pending, flushing, net, session, connected, guest, told, overtaken>>
keyVars == <<keyDown, typed, dropped>>
inputVars == <<userVars, keyVars, typerVars, todo, calling, netVars>>

Event(key, down, by) == [key |-> key, down |-> down, by |-> by]
Ups(keys) == [i \in 1 .. Len(keys) |-> Event(keys[i], FALSE, "typer")]
Downs(keys) == [i \in 1 .. Len(keys) |-> Event(keys[i], TRUE, "typer")]

-----------------------------------------------------------------------------
\* ClipboardTyper::start: one chord more, after those that left held down.
TypeChord(plan, chord) ==
  LET Wanted(k) == Contains(chord.modifiers, k)
      Held(k) == Contains(plan.held, k)
      press == SelectSeq(chord.modifiers, LAMBDA k : ~Held(k))
  IN  [held  |-> SelectSeq(plan.held, Wanted) \o press,
       queue |-> plan.queue
                   \o Ups(SelectSeq(Reverse(plan.held), LAMBDA k : ~Wanted(k)))
                   \o Downs(press)
                   \o Downs(<<chord.key>>)
                   \o Ups(<<chord.key>>)]

\* The chords of a plan, one by one, and the release of what the last of them left down.
Expand(chords) ==
  LET plan == FoldLeft(TypeChord, [held |-> <<>>, queue |-> <<>>], chords)
  IN  plan.queue \o Ups(Reverse(plan.held))

-----------------------------------------------------------------------------
InputInit ==
  /\ physical = {} /\ presses = 0 /\ pastes = 0
  /\ keyDown = {} /\ typed = {} /\ dropped = FALSE
  /\ armed = FALSE /\ enabled = FALSE
  /\ active = FALSE /\ queue = <<>> /\ pressed = <<>> /\ atStart = {}
  /\ todo = <<>>
  /\ calling = <<>>
  /\ sink = 0 /\ pending = <<>> /\ flushing = <<>>
  /\ net = "connecting" /\ session = 0 /\ connected = FALSE
  /\ guest = {} /\ told = FALSE /\ overtaken = FALSE

\* The GUI thread is back in its event loop.
GuiIdle == todo = <<>> /\ calling = <<>>

-----------------------------------------------------------------------------
\* A mutant of StopTyping: the timer is stopped and no more.
StopTypingOnly ==
  /\ pressed' = <<>>
  /\ active' = FALSE
  /\ queue' = <<>>
  /\ UNCHANGED <<atStart, pasteVars, todo>>

\* stop_with(): what the typer has pressed is released, newest first.
StopTyping ==
  /\ todo' = Ups(Reverse(pressed))
  /\ pressed' = <<>>
  /\ active' = FALSE
  /\ queue' = <<>>
  /\ UNCHANGED <<atStart, pasteVars>>

\* A mutant of KeyEvent: physical keys get through while the typer is at work.
KeyEventUngated(key, down) ==
  /\ IF connected
     THEN todo' = <<Event(key, down, "user")>>
     ELSE UNCHANGED todo
  /\ UNCHANGED <<typerVars, keyVars, calling, netVars>>

\* ViewerWindow::keyEvent.  A paste in flight is cancelled by a press and swallows
\* everything; otherwise only a live session gets the key.
KeyEvent(key, down) ==
  /\ IF active
     THEN IF down THEN StopTyping ELSE UNCHANGED <<typerVars, todo>>
     ELSE /\ IF connected
             THEN todo' = <<Event(key, down, "user")>>
             ELSE UNCHANGED todo
          /\ UNCHANGED typerVars
  /\ UNCHANGED <<keyVars, calling, netVars>>

PressKey ==
  /\ GuiIdle
  /\ presses < MaxPresses
  /\ presses' = presses + 1
  /\ \E key \in Keys \ physical :
       /\ physical' = physical \cup {key}
       /\ KeyEvent(key, TRUE)
  /\ UNCHANGED pastes

ReleaseKey ==
  /\ GuiIdle
  /\ \E key \in physical :
       /\ physical' = physical \ {key}
       /\ KeyEvent(key, FALSE)
  /\ UNCHANGED <<presses, pastes>>

\* set_session_connected(), in the next frame tick.
FrameTick ==
  /\ GuiIdle
  /\ enabled # connected
  /\ enabled' = connected
  /\ UNCHANGED <<userVars, keyVars, active, queue, pressed, atStart, armed, todo, calling,
                 netVars>>

\* A click gets to do_paste(): one that was pressed during a paste cancels that instead.
Clickable == GuiIdle /\ ~active /\ enabled

\* The first click on a risky text arms the button ...
ArmPaste ==
  /\ Clickable
  /\ ~armed
  /\ Risky # {}
  /\ armed' = TRUE
  /\ UNCHANGED <<userVars, keyVars, active, queue, pressed, atStart, enabled, todo, calling,
                 netVars>>

\* ... which the timer takes back, or a click when the clipboard has nothing to type.
DisarmPaste ==
  /\ GuiIdle
  /\ armed
  /\ armed' = FALSE
  /\ UNCHANGED <<userVars, keyVars, active, queue, pressed, atStart, enabled, todo, calling,
                 netVars>>

\* pasteRequested, of whatever the clipboard holds by then: an armed button asks no more.
StartTyping ==
  /\ Clickable
  /\ pastes < MaxPastes
  /\ pastes' = pastes + 1
  /\ armed' = FALSE
  /\ \E plan \in Plans :
       /\ plan \in Risky => armed
       /\ IF connected
          THEN /\ queue' = Expand(plan)
               /\ active' = (queue' # <<>>)
               /\ pressed' = <<>>
               /\ atStart' = keyDown
          ELSE UNCHANGED <<active, queue, pressed, atStart>>
  /\ UNCHANGED <<physical, presses, keyVars, enabled, todo, calling, netVars>>

\* The Cancel button, or a press of a mouse button over the video.
CancelTyping ==
  /\ GuiIdle
  /\ active
  /\ StopTyping
  /\ UNCHANGED <<userVars, keyVars, calling, netVars>>

\* The newest press of a key.
Newest(key) ==
  CHOOSE i \in DOMAIN pressed :
    pressed[i] = key /\ \A j \in DOMAIN pressed : pressed[j] = key => j <= i

\* The bookkeeping of tick() around its feed.
Track(event) ==
  IF event.down THEN Append(pressed, event.key)
  ELSE IF event.key \in ToSet(pressed) THEN RemoveAt(pressed, Newest(event.key))
  ELSE pressed

\* tick(): one event, and the end of the typing after the last one or without a host.
TypeTick ==
  /\ GuiIdle
  /\ active
  /\ IF ~connected
     THEN StopTyping
     ELSE LET event == Head(queue)
              last == Tail(queue) = <<>>
          IN  /\ todo' = <<event>> \o (IF last THEN Ups(Reverse(Track(event))) ELSE <<>>)
              /\ pressed' = IF last THEN <<>> ELSE Track(event)
              /\ queue' = Tail(queue)
              /\ active' = ~last
              /\ UNCHANGED <<atStart, pasteVars>>
  /\ UNCHANGED <<userVars, keyVars, calling, netVars>>

-----------------------------------------------------------------------------
\* enqueue(), as far as the lock goes.
Enqueue(report) ==
  IF sink = 0
  THEN pending' = Append(pending, report) /\ UNCHANGED calling
  ELSE calling' = <<[to |-> sink, report |-> report]>> /\ UNCHANGED pending

\* handle_key(), behind the hook that keeps the typer's events from a lost session.
FeedKey ==
  /\ calling = <<>>
  /\ todo # <<>>
  /\ todo' = Tail(todo)
  /\ LET event == Head(todo)
         refused == event.by = "typer" /\ ~connected
     IN  IF refused \/ (event.key \in keyDown) = event.down
         THEN /\ dropped' = (dropped \/ refused)
              /\ UNCHANGED <<keyDown, typed, pending, calling>>
         ELSE /\ keyDown' = IF event.down THEN keyDown \cup {event.key}
                                          ELSE keyDown \ {event.key}
              /\ typed' = IF event.down /\ event.by = "typer"
                          THEN typed \cup {event.key} ELSE typed \ {event.key}
              /\ Enqueue(keyDown')
              /\ UNCHANGED dropped
  /\ UNCHANGED <<userVars, typerVars, sink, flushing, net, session, connected, guest,
                 told, overtaken>>

\* focusLost: release_all_keys(), connected or not, typing or not.
FocusLost ==
  /\ GuiIdle
  /\ keyDown # {}
  /\ keyDown' = {}
  /\ typed' = {}
  /\ dropped' = FALSE
  /\ Enqueue({})
  /\ UNCHANGED <<userVars, typerVars, todo, sink, flushing, net, session, connected,
                 guest, told, overtaken>>

\* The rest of enqueue(): the sink posts to its session, if that is still there.
CallSink ==
  /\ calling # <<>>
  /\ calling' = <<>>
  /\ IF calling[1].to = session /\ net = "running"
     THEN /\ guest' = calling[1].report
          /\ told' = TRUE
          /\ overtaken' = (flushing # <<>>)
     ELSE UNCHANGED <<guest, told, overtaken>>
  /\ UNCHANGED <<userVars, keyVars, typerVars, todo, sink, pending, flushing, net, session,
                 connected>>

\* Key R on the ended console: do_retry() with reset_for_reconnect(), which clears the
\* queue and forgets the mouse buttons, but not the keys.
PressRetry ==
  /\ GuiIdle
  /\ ~active
  /\ net = "ended"
  /\ net' = "connecting"
  /\ sink' = 0
  /\ pending' = <<>>
  /\ UNCHANGED <<userVars, keyVars, typerVars, todo, calling, flushing, session, connected,
                 guest, told, overtaken>>

-----------------------------------------------------------------------------
\* The network thread: kvm_connection(true) once the websocket is open ...
Connect ==
  /\ net = "connecting"
  /\ session < MaxSessions
  /\ net' = "connected"
  /\ session' = session + 1
  /\ connected' = TRUE
  /\ guest' = {}
  /\ told' = FALSE
  /\ overtaken' = FALSE
  /\ UNCHANGED <<userVars, keyVars, typerVars, todo, calling, sink, pending, flushing>>

\* ... install(), which takes what is pending under the lock ...
Install ==
  /\ net = "connected"
  /\ net' = "running"
  /\ sink' = session
  /\ flushing' = pending
  /\ pending' = <<>>
  /\ UNCHANGED <<userVars, keyVars, typerVars, todo, calling, session, connected, guest,
                 told, overtaken>>

\* A mutant of Flush: from the wrong end.
FlushNewestFirst ==
  /\ flushing # <<>>
  /\ flushing' = Front(flushing)
  /\ guest' = Last(flushing)
  /\ told' = TRUE
  /\ UNCHANGED <<userVars, keyVars, typerVars, todo, calling, sink, pending, net, session,
                 connected, overtaken>>

\* ... and posts it after, report by report.
Flush ==
  /\ flushing # <<>>
  /\ flushing' = Tail(flushing)
  /\ guest' = Head(flushing)
  /\ told' = TRUE
  /\ UNCHANGED <<userVars, keyVars, typerVars, todo, calling, sink, pending, net, session,
                 connected, overtaken>>

\* close_socket() clears the queue, sink and all.
ClearQueue ==
  /\ net = "running"
  /\ flushing = <<>>
  /\ net' = "closed"
  /\ sink' = 0
  /\ pending' = <<>>
  /\ UNCHANGED <<userVars, keyVars, typerVars, todo, calling, flushing, session, connected,
                 guest, told, overtaken>>

\* kvm_connection(false): another attempt on a new socket ...
NextAttempt ==
  /\ net = "closed"
  /\ net' = "connecting"
  /\ connected' = FALSE
  /\ UNCHANGED <<userVars, keyVars, typerVars, todo, calling, sink, pending, flushing,
                 session, guest, told, overtaken>>

\* ... or the end of the run.
Disconnect ==
  /\ net = "closed"
  /\ net' = "cleanup"
  /\ connected' = FALSE
  /\ UNCHANGED <<userVars, keyVars, typerVars, todo, calling, sink, pending, flushing,
                 session, guest, told, overtaken>>

CleanUp ==
  /\ net = "cleanup"
  /\ net' = "ended"
  /\ sink' = 0
  /\ pending' = <<>>
  /\ UNCHANGED <<userVars, keyVars, typerVars, todo, calling, flushing, session, connected,
                 guest, told, overtaken>>

-----------------------------------------------------------------------------
GuiNext ==
  \/ PressKey \/ ReleaseKey \/ FocusLost \/ PressRetry
  \/ FrameTick \/ ArmPaste \/ DisarmPaste
  \/ StartTyping \/ CancelTyping \/ TypeTick
  \/ FeedKey \/ CallSink

NetNext ==
  Connect \/ Install \/ Flush \/ ClearQueue \/ NextAttempt \/ Disconnect \/ CleanUp

InputNext == GuiNext \/ NetNext

InputSpec == InputInit /\ [][InputNext]_inputVars

-----------------------------------------------------------------------------
InputTypeOK ==
  /\ {physical, keyDown, typed, atStart, guest} \subseteq SUBSET Keys
  /\ presses \in 0 .. MaxPresses
  /\ pastes \in 0 .. MaxPastes
  /\ {active, connected, told, overtaken, dropped, armed, enabled} \subseteq BOOLEAN
  /\ pressed \in Seq(Keys)
  /\ sink \in 0 .. MaxSessions
  /\ {pending, flushing} \subseteq Seq(SUBSET Keys)
  /\ session \in 0 .. MaxSessions
  /\ active => queue # <<>>

\* Nothing is lost or left behind on the way through InputQueue: when both threads are
\* at rest, the last report of this session says what the controller says, unless it was
\* posted before an older one that install() had yet to flush.
GuestAgrees ==
  net = "running" /\ flushing = <<>> /\ GuiIdle /\ told /\ ~overtaken => guest = keyDown

\* While the typer works, no key is down that was not down before or that it did not
\* press itself: "physical input can't interleave with the synthesized stream".  A release
\* that came when the session had just gone is the exception.
TypedStreamIsClean ==
  active /\ todo = <<>> => keyDown \subseteq atStart \cup ToSet(pressed) \/ dropped

\* When the typer has stopped, at the end or in the middle of a chord, no key that it
\* pressed is down, unless the session was lost under it.
TyperReleasesItsKeys == ~active /\ GuiIdle => typed = {} \/ dropped

=============================================================================
