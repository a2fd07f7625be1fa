------------------------------ MODULE WireProofs ------------------------------
(***************************************************************************)
(* What is proved of Wire: the reports of the video feedback, the buttons  *)
(* and keys of the host, the place of its mouse, the reads of the cursor's *)
(* pattern and the streams of bytes that the viewer takes apart, for any   *)
(* number of frames, sessions, buttons, keys, messages and sizes, and      *)
(* wherever the streams are cut.                                           *)
(***************************************************************************)
EXTENDS Wire, TLAPS, SequenceTheorems, WellFoundedInduction

\* Video feedback.

TypeInv ==
  /\ frames \in Nat /\ received \in Nat /\ lost \in Nat
  /\ lastPresented \in Nat /\ presented \in Nat /\ undecoded \in Nat
  /\ feedbacks \in Nat \ {0} /\ report \in Nat /\ before \in Nat
  /\ started \in BOOLEAN
  /\ ticking \in BOOLEAN
  /\ overflowed \in BOOLEAN
  /\ queue \in Seq({"frame"})
  /\ loaded \in Nat \cup {NotLoaded}
  /\ reported \in BOOLEAN
  /\ truth \in Int
  /\ ~ticking => undecoded = 0

\* Between two reports: received and not presented is what the backlog has grown by, with
\* what was lost.
Account ==
  loaded = NotLoaded =>
    received - (presented - lastPresented) = Len(queue) + undecoded - before + lost

\* While a report is made: what it will say, and the same account from the moment at which
\* the counter was read.
AccountOfReport ==
  loaded # NotLoaded =>
    /\ presented - loaded = before - (Len(queue) + undecoded) - lost
    /\ received - (loaded - lastPresented) = truth

FeedbackInv == TypeInv /\ Account /\ AccountOfReport /\ ReportIsTheChange

-----------------------------------------------------------------------------
\* What Publish() does to the length of the queue.
LEMMA PublishLength ==
  ASSUME queue \in Seq({"frame"}), Publish("frame")
  PROVE  /\ queue' \in Seq({"frame"})
         /\ Len(queue') = IF Len(queue) = MaxQueued THEN Len(queue) ELSE Len(queue) + 1
<1>1. CASE Len(queue) = MaxQueued
  <2>1. queue # <<>>
    BY <1>1, MaxQueuedAssumption
  <2>2. Tail(queue) \in Seq({"frame"}) /\ Len(Tail(queue)) = Len(queue) - 1
    BY <2>1
  <2>3. queue' = Append(Tail(queue), "frame")
    BY <1>1 DEF Publish
  <2> QED
    BY <1>1, <2>2, <2>3, MaxQueuedAssumption
<1>2. CASE Len(queue) # MaxQueued
  BY <1>2 DEF Publish
<1> QED
  BY <1>1, <1>2

\* The account is right at the start.
LEMMA AccountInit == FeedbackInit => FeedbackInv
<1> SUFFICES ASSUME FeedbackInit
             PROVE  FeedbackInv
  OBVIOUS
<1>1. queue \in Seq({"frame"}) /\ Len(queue) = 0
  BY DEF FeedbackInit, QueueInit
<1>2. /\ frames = 0 /\ received = 0 /\ started = FALSE /\ lost = 0 /\ overflowed = FALSE
      /\ lastPresented = 0 /\ loaded = NotLoaded /\ presented = 0 /\ ticking = FALSE
      /\ undecoded = 0 /\ feedbacks = 1 /\ reported = FALSE /\ report = 0 /\ before = 0
      /\ truth = 0
  BY DEF FeedbackInit, QueueInit
<1>3. started \in BOOLEAN /\ ticking \in BOOLEAN /\ overflowed \in BOOLEAN /\ reported \in BOOLEAN
  BY <1>2
<1>4. TypeInv
  <2>1. frames = 0 /\ received = 0 /\ lost = 0 /\ lastPresented = 0 /\ presented = 0
    BY <1>2
  <2>2. undecoded = 0 /\ feedbacks = 1 /\ report = 0 /\ before = 0
    BY <1>2
  <2>3. loaded = NotLoaded /\ truth = 0
    BY <1>2
  <2> QED
    BY <1>1, <1>3, <2>1, <2>2, <2>3 DEF TypeInv, NotLoaded
<1> QED
  BY <1>1, <1>2, <1>4 DEF FeedbackInv, Account, AccountOfReport, ReportIsTheChange

\* Every step keeps the types.
LEMMA TypeStep == TypeInv /\ [FeedbackNext]_feedbackVars => TypeInv'
<1> SUFFICES ASSUME TypeInv, [FeedbackNext]_feedbackVars
             PROVE  TypeInv'
  OBVIOUS
<1> USE DEF TypeInv, NotLoaded
<1>0. queue \in Seq({"frame"}) /\ Len(queue) \in Nat /\ <<>> \in Seq({"frame"})
  OBVIOUS
<1>1. CASE ReceiveFrame
  <2>1. queue' \in Seq({"frame"})
    BY <1>0, <1>1, PublishLength DEF ReceiveFrame
  <2>2. overflowed' \in BOOLEAN
    BY <1>1 DEF ReceiveFrame, Publish
  <2> QED
    BY <1>1, <2>1, <2>2 DEF ReceiveFrame, Receive, reportVars
<1>2. CASE ReceiveUnsupported
  BY <1>2 DEF ReceiveUnsupported, Receive, reportVars, queueVars
<1>3. CASE LoadPresented
  BY <1>0, <1>3 DEF LoadPresented, Backlog, frameVars, queueVars
<1>4. CASE SendFeedback
  <2>1. report' \in Nat
    BY <1>4 DEF SendFeedback, Distance
  <2> QED
    BY <1>4, <2>1 DEF SendFeedback, frameVars, queueVars
<1>5. CASE DrainFrames
  BY <1>0, <1>5 DEF DrainFrames, Drain, reportVars
<1>6. CASE DecodeFrame
  BY <1>6 DEF DecodeFrame, reportVars, frameVars, queueVars
<1>7. CASE EndTick
  BY <1>7 DEF EndTick, TakeOverflowed, reportVars
<1>8. CASE DropFrames
  <2>1. queue' \in Seq({"frame"}) /\ overflowed' \in BOOLEAN
    BY <1>0, <1>8 DEF DropFrames, ClearFrames
  <2>2. lost' \in Nat
    BY <1>0, <1>8 DEF DropFrames
  <2> QED
    BY <2>1, <2>2, <1>8 DEF DropFrames, reportVars
<1>9. CASE AnotherSession
  <2>1. queue' \in Seq({"frame"}) /\ overflowed' \in BOOLEAN
    BY <1>0, <1>9 DEF AnotherSession, ClearFrames
  <2>2. started' \in BOOLEAN /\ ticking' \in BOOLEAN /\ reported' \in BOOLEAN
    BY <1>9 DEF AnotherSession
  <2>3. /\ received' = 0 /\ lost' = 0 /\ lastPresented' = 0 /\ report' = 0
        /\ before' = presented /\ truth' = 0 /\ feedbacks' = feedbacks + 1
        /\ frames' = frames /\ loaded' = loaded /\ presented' = presented
        /\ undecoded' = undecoded /\ ticking' = ticking
    BY <1>9 DEF AnotherSession
  <2> QED
    BY <2>1, <2>2, <2>3
<1>10. CASE UNCHANGED feedbackVars
  BY <1>10 DEF feedbackVars, frameVars, queueVars, reportVars
<1> QED
  BY <1>1, <1>2, <1>3, <1>4, <1>5, <1>6, <1>7, <1>8, <1>9, <1>10 DEF FeedbackNext

\* Every step keeps the accounts.
LEMMA AccountStep == FeedbackInv /\ [FeedbackNext]_feedbackVars => FeedbackInv'
<1> SUFFICES ASSUME FeedbackInv, [FeedbackNext]_feedbackVars
             PROVE  Account' /\ AccountOfReport' /\ ReportIsTheChange'
  BY TypeStep DEF FeedbackInv
<1>0. TypeInv /\ Account /\ AccountOfReport /\ ReportIsTheChange /\ TypeInv'
  BY TypeStep DEF FeedbackInv
<1> DEFINE n == Len(queue)
<1>n. n \in Nat /\ queue \in Seq({"frame"})
  BY <1>0 DEF TypeInv
<1> USE DEF Account, AccountOfReport, ReportIsTheChange, NotLoaded
<1>1. CASE ReceiveFrame
  <2>1. Len(queue') = IF n = MaxQueued THEN n ELSE n + 1
    BY <1>n, <1>1, PublishLength DEF ReceiveFrame
  <2> QED
    BY <1>0, <1>n, <1>1, <2>1 DEF ReceiveFrame, Receive, reportVars, TypeInv
<1>2. CASE ReceiveUnsupported
  BY <1>0, <1>n, <1>2 DEF ReceiveUnsupported, Receive, reportVars, queueVars, TypeInv
<1>3. CASE LoadPresented
  BY <1>0, <1>n, <1>3 DEF LoadPresented, Backlog, frameVars, queueVars, TypeInv
<1>4. CASE SendFeedback
  <2>1. Account' /\ AccountOfReport'
    BY <1>0, <1>n, <1>4 DEF SendFeedback, frameVars, queueVars, TypeInv
  <2>2. ReportIsTheChange'
    BY <1>0, <1>n, <1>4 DEF SendFeedback, Distance, TypeInv
  <2> QED
    BY <2>1, <2>2
<1>5. CASE DrainFrames
  <2>1. Len(queue') = 0 /\ undecoded = 0 /\ undecoded' = n
    BY <1>0, <1>5 DEF DrainFrames, Drain, TypeInv
  <2> QED
    BY <1>0, <1>n, <1>5, <2>1 DEF DrainFrames, reportVars, TypeInv
<1>6. CASE DecodeFrame
  BY <1>0, <1>n, <1>6 DEF DecodeFrame, reportVars, frameVars, queueVars, TypeInv
<1>7. CASE EndTick
  BY <1>0, <1>n, <1>7 DEF EndTick, TakeOverflowed, reportVars, TypeInv
<1>8. CASE DropFrames
  <2>1. Len(queue') = 0 /\ lost' = lost + n
    BY <1>8 DEF DropFrames, ClearFrames
  <2> QED
    BY <1>0, <1>n, <1>8, <2>1 DEF DropFrames, reportVars, TypeInv
<1>9. CASE AnotherSession
  <2>1. Len(queue') = 0 /\ undecoded' = 0
    BY <1>0, <1>9 DEF AnotherSession, ClearFrames, TypeInv
  <2>2. /\ received' = 0 /\ lost' = 0 /\ lastPresented' = 0 /\ before' = presented
        /\ presented' = presented /\ loaded' = NotLoaded /\ reported' = FALSE
    BY <1>9 DEF AnotherSession
  <2>3. Account'
    BY <1>0, <2>1, <2>2 DEF TypeInv
  <2> QED
    BY <2>2, <2>3
<1>10. CASE UNCHANGED feedbackVars
  BY <1>0, <1>10 DEF feedbackVars, frameVars, queueVars, reportVars
<1> QED
  BY <1>1, <1>2, <1>3, <1>4, <1>5, <1>6, <1>7, <1>8, <1>9, <1>10 DEF FeedbackNext, FeedbackInv

\* Every report says what has become of the backlog since the one before, however the two
\* threads interleave (send_video_feedback_if_due() and on_frame_presented()).
THEOREM ReportCorrect == FeedbackSpec => []ReportIsTheChange
<1>1. FeedbackInv => ReportIsTheChange
  BY DEF FeedbackInv
<1> QED
  BY <1>1, AccountInit, AccountStep, PTL DEF FeedbackSpec

\* The same of the behaviours of Wire, whichever part of the connection they are about.
THEOREM FeedbackCorrect == WireSpec => []ReportIsTheChange
<1>1. WireInit => FeedbackInit
  BY DEF WireInit
<1>2. [WireNext]_wireVars => [FeedbackNext]_feedbackVars
  BY DEF WireNext, wireVars
<1> QED
  BY <1>1, <1>2, ReportCorrect, PTL DEF WireSpec, FeedbackSpec

-----------------------------------------------------------------------------
\* Buttons and keys.

\* What the host believes to be down the controller does too, and what the controller does
\* the user holds, or has let go of unheard.
ButtonInv ==
  /\ buttons \subseteq KnownButtons[protocol]
  /\ guestButtons \subseteq buttons
  /\ buttons \subseteq heldButtons \cup swallowed
  /\ live /\ fresh /\ protocol # "pikvm" => guestButtons = buttons \/ wheelLet
  /\ ~live => guestButtons = {} /\ ~fresh
  /\ device = "keyboard" => buttons = {}

\* The same of the keys; a key that was pressed in this session is known to the host, was
\* down from the session before, or is left out of a report that is full.
KeyInv ==
  /\ keyDown \subseteq Keys
  /\ guestKeys \subseteq keyDown
  /\ newKeys \subseteq keyDown
  /\ keyDown \subseteq heldKeys \cup swallowed
  /\ ~live => newKeys = {} /\ guestKeys = {}
  /\ device = "mouse" => keyDown = {}
  /\ \/ newKeys \subseteq guestKeys \cup swallowed
     \/ protocol = "megarac" /\ guestKeys = Report(keyDown)

\* A report has no key that is not down.
LEMMA ReportHas == \A keys : Report(keys) \subseteq keys
BY DEF Report, InSlots

\* What an encoder does to the buttons of the host.
LEMMA Encoded ==
  ASSUME protocol \in Protocols, NEW change, NEW button, Encode(change, button)
  PROVE  /\ fresh'
         /\ \/ protocol = "megarac" /\ guestButtons' = buttons' \cap KnownButtons["megarac"]
            \/ protocol = "aten" /\ change # "wheel" /\ guestButtons' = buttons'
            \/ protocol = "aten" /\ wheelLet' /\ guestButtons' = {}
            \/ protocol = "pikvm" /\ change = "press" /\ guestButtons' = guestButtons \cup {button}
            \/ protocol = "pikvm" /\ change = "release" /\ guestButtons' = guestButtons \ {button}
            \/ /\ protocol = "pikvm" /\ change \notin {"press", "release"}
               /\ guestButtons' = guestButtons
BY DEF Protocols, Encode, EncodeMegarac, EncodeAten, EncodePikvm, PikvmButtons

\* A button goes to the host with the report that follows, and leaves it so.
LEMMA ButtonStep ==
  ASSUME protocol \in Protocols, ButtonInv, KeyInv, HostInputNext
  PROVE  ButtonInv'
<1> USE DEF ButtonInv, pointerVars, keyVars
<1>1. CASE MoveMouse \/ PressButton \/ ReleaseButton \/ TurnWheel \/ HostChanges
  <2>1. CASE MoveMouse
    <3>1. CASE live /\ Encode("move", "none")
      <4> QED
        BY <2>1, <3>1, Encoded DEF MoveMouse, UsesMouse, ButtonInv, Protocols
    <3>2. CASE NothingEncoded /\ (fresh' => fresh)
      BY <2>1, <3>2 DEF MoveMouse, UsesMouse, NothingEncoded, ButtonInv
    <3> QED
      BY <2>1, <3>1, <3>2 DEF MoveMouse
  <2>2. CASE PressButton
    <3>1. PICK button \in Buttons \ heldButtons :
            /\ heldButtons' = heldButtons \cup {button}
            /\ swallowed' = swallowed \ {button}
            /\ \/ /\ live /\ AcceptsButton(button)
                  /\ buttons' = buttons \cup {button} /\ Encode("press", button)
               \/ NothingEncoded /\ UNCHANGED <<buttons, fresh>>
      BY <2>2 DEF PressButton
    <3>2. UNCHANGED <<protocol, device, live>> /\ device = "mouse"
      BY <2>2 DEF PressButton, UsesMouse
    <3>3. CASE NothingEncoded /\ UNCHANGED <<buttons, fresh>>
      BY <3>1, <3>2, <3>3 DEF NothingEncoded, ButtonInv
    <3>4. CASE /\ live /\ AcceptsButton(button)
               /\ buttons' = buttons \cup {button} /\ Encode("press", button)
      <4>1. buttons' \subseteq KnownButtons[protocol]
        BY <3>4 DEF AcceptsButton, ButtonInv
      <4> QED
        BY <3>1, <3>2, <3>4, <4>1, Encoded DEF ButtonInv, Protocols
    <3> QED
      BY <3>1, <3>3, <3>4
  <2>3. CASE ReleaseButton
    <3>1. PICK button \in heldButtons :
            /\ heldButtons' = heldButtons \ {button}
            /\ swallowed' = IF live /\ Points(TRUE) THEN swallowed ELSE swallowed \cup {button}
            /\ IF live /\ AcceptsButton(button) /\ Points(TRUE)
               THEN buttons' = buttons \ {button} /\ Encode("release", button)
               ELSE NothingEncoded /\ UNCHANGED <<buttons, fresh>>
      BY <2>3 DEF ReleaseButton
    <3>2. UNCHANGED <<protocol, device, live>> /\ device = "mouse"
      BY <2>3 DEF ReleaseButton, UsesMouse
    <3>3. CASE live /\ AcceptsButton(button) /\ Points(TRUE)
      <4>1. buttons' = buttons \ {button} /\ Encode("release", button)
        BY <3>1, <3>3
      <4> QED
        BY <3>1, <3>2, <3>3, <4>1, Encoded DEF ButtonInv, Protocols
    <3>4. CASE ~(live /\ AcceptsButton(button) /\ Points(TRUE))
      <4>1. NothingEncoded /\ UNCHANGED <<buttons, fresh>>
        BY <3>1, <3>4
      <4>2. button \in swallowed' \/ button \notin buttons
        BY <3>1, <3>4 DEF AcceptsButton, ButtonInv
      <4> QED
        BY <3>1, <3>2, <4>1, <4>2 DEF NothingEncoded, ButtonInv
    <3> QED
      BY <3>3, <3>4
  <2>4. CASE TurnWheel
    <3>1. UNCHANGED <<protocol, device, live, heldButtons, buttons, swallowed>>
          /\ device = "mouse" /\ live
      BY <2>4 DEF TurnWheel, UsesMouse
    <3>2. CASE NothingEncoded /\ UNCHANGED fresh
      BY <3>1, <3>2 DEF NothingEncoded, ButtonInv
    <3>3. CASE Encode("wheel", "none")
      BY <3>1, <3>3, Encoded DEF ButtonInv, Protocols
    <3> QED
      BY <2>4, <3>2, <3>3 DEF TurnWheel
  <2>5. CASE HostChanges
    BY <2>5 DEF HostChanges
  <2> QED
    BY <1>1, <2>1, <2>2, <2>3, <2>4, <2>5
<1>2. CASE PressKeyboard \/ ReleaseKeyboard \/ LoseFocus
  <2>1. CASE PressKeyboard
    BY <2>1 DEF PressKeyboard
  <2>2. CASE ReleaseKeyboard
    BY <2>2 DEF ReleaseKeyboard
  <2>3. CASE LoseFocus
    BY <2>3 DEF LoseFocus
  <2> QED
    BY <1>2, <2>1, <2>2, <2>3
<1>3. CASE LoseSession \/ SessionAgain \/ Reconnect
  <2>1. CASE LoseSession
    BY <2>1 DEF LoseSession
  <2>2. CASE SessionAgain
    BY <2>2 DEF SessionAgain
  <2>3. CASE Reconnect
    BY <2>3 DEF Reconnect
  <2> QED
    BY <1>3, <2>1, <2>2, <2>3
<1> QED
  BY <1>1, <1>2, <1>3 DEF HostInputNext

\* A key that is pressed or released is in the report that follows.
LEMMA KeyStep ==
  ASSUME protocol \in Protocols, KeyInv, HostInputNext
  PROVE  KeyInv'
<1> USE DEF pointerVars, keyVars
<1>a. /\ UNCHANGED <<protocol, device, live, heldKeys, keyDown, guestKeys, newKeys>>
      /\ keyDown \cap swallowed \subseteq swallowed'
      => KeyInv'
  BY DEF KeyInv, Report, InSlots
<1>1. CASE MoveMouse \/ PressButton \/ ReleaseButton \/ TurnWheel \/ HostChanges
  <2>1. CASE MoveMouse
    BY <2>1, <1>a DEF KeyInv, MoveMouse, UsesMouse, NothingEncoded
  <2>2. CASE PressButton
    BY <2>2, <1>a DEF KeyInv, PressButton, UsesMouse, NothingEncoded
  <2>3. CASE ReleaseButton
    BY <2>3, <1>a DEF KeyInv, ReleaseButton, UsesMouse, NothingEncoded
  <2>4. CASE TurnWheel
    BY <2>4, <1>a DEF KeyInv, TurnWheel, UsesMouse, NothingEncoded
  <2>5. CASE HostChanges
    BY <2>5, <1>a DEF KeyInv, HostChanges
  <2> QED
    BY <1>1, <2>1, <2>2, <2>3, <2>4, <2>5
<1>2. CASE PressKeyboard \/ ReleaseKeyboard \/ LoseFocus
  <2>1. CASE PressKeyboard
    <3>1. PICK key \in Keys \ heldKeys :
            /\ heldKeys' = heldKeys \cup {key}
            /\ IF live /\ AcceptsKey(key)
               THEN /\ keyDown' = keyDown \cup {key}
                    /\ IF key \in keyDown THEN UNCHANGED guestKeys ELSE EncodeKeys({key}, {})
                    /\ newKeys' = newKeys \cup {key}
               ELSE UNCHANGED <<keyDown, guestKeys, newKeys>>
      BY <2>1 DEF PressKeyboard
    <3>2. UNCHANGED <<protocol, device, live, swallowed>> /\ device = "keyboard"
      BY <2>1 DEF PressKeyboard
    <3>3. CASE UNCHANGED <<keyDown, guestKeys, newKeys>>
      BY <3>1, <3>2, <3>3 DEF KeyInv, Report, InSlots
    <3>4. CASE live /\ keyDown' = keyDown \cup {key} /\ newKeys' = newKeys \cup {key}
      <4>1. CASE key \in keyDown
        <5>1. \/ guestKeys' = guestKeys /\ keyDown' = keyDown
              \/ UNCHANGED <<keyDown, guestKeys, newKeys>>
          BY <3>1, <4>1
        <5>2. key \in swallowed
          BY <4>1 DEF KeyInv
        <5> QED
          BY <3>1, <3>2, <3>3, <3>4, <5>1, <5>2 DEF KeyInv, Report, InSlots
      <4>2. CASE key \notin keyDown
        <5>1. guestKeys' = IF protocol = "megarac" THEN (Report(keyDown))' ELSE guestKeys \cup {key}
          BY <3>1, <3>4, <4>2 DEF EncodeKeys, Report, InSlots
        <5>2. (Report(keyDown))' \subseteq keyDown'
          BY ReportHas
        <5> QED
          BY <3>1, <3>2, <3>4, <5>1, <5>2 DEF KeyInv
      <4> QED
        BY <4>1, <4>2
    <3> QED
      BY <3>1, <3>3, <3>4
  <2>2. CASE ReleaseKeyboard
    <3>1. PICK key \in heldKeys :
            /\ heldKeys' = heldKeys \ {key}
            /\ newKeys' = newKeys \ {key}
            /\ swallowed' = IF live THEN swallowed \ {key}
                            ELSE swallowed \cup (keyDown \cap {key})
            /\ IF live /\ key \in keyDown
               THEN keyDown' = keyDown \ {key} /\ EncodeKeys({}, {key})
               ELSE UNCHANGED <<keyDown, guestKeys>>
      BY <2>2 DEF ReleaseKeyboard
    <3>2. UNCHANGED <<protocol, device, live>> /\ device = "keyboard"
      BY <2>2 DEF ReleaseKeyboard
    <3>3. CASE live /\ key \in keyDown
      <4>1. /\ keyDown' = keyDown \ {key} /\ swallowed' = swallowed \ {key}
            /\ guestKeys' = IF protocol = "megarac" THEN (Report(keyDown))' ELSE guestKeys \ {key}
        BY <3>1, <3>3 DEF EncodeKeys
      <4>2. (Report(keyDown))' \subseteq keyDown'
        BY ReportHas
      <4> QED
        BY <3>1, <3>2, <3>3, <4>1, <4>2 DEF KeyInv
    <3>4. CASE live /\ key \notin keyDown
      <4>1. UNCHANGED <<keyDown, guestKeys>> /\ swallowed' = swallowed \ {key}
        BY <3>1, <3>4
      <4>2. (Report(keyDown))' = Report(keyDown)
        BY <4>1 DEF Report, InSlots
      <4> QED
        BY <3>1, <3>2, <3>4, <4>1, <4>2 DEF KeyInv
    <3>5. CASE ~live
      <4>1. UNCHANGED <<keyDown, guestKeys>> /\ swallowed' = swallowed \cup (keyDown \cap {key})
        BY <3>1, <3>5
      <4> QED
        BY <3>1, <3>2, <3>5, <4>1 DEF KeyInv
    <3> QED
      BY <3>3, <3>4, <3>5
  <2>3. CASE LoseFocus
    BY <2>3, <1>a, HostInputAssumption DEF KeyInv, LoseFocus
  <2> QED
    BY <1>2, <2>1, <2>2, <2>3
<1>3. CASE LoseSession \/ SessionAgain \/ Reconnect
  <2>1. CASE LoseSession
    BY <2>1, <1>a, HostInputAssumption DEF KeyInv, LoseSession
  <2>2. CASE SessionAgain
    BY <2>2, <1>a, HostInputAssumption DEF KeyInv, SessionAgain
  <2>3. CASE Reconnect
    BY <2>3, <1>a, HostInputAssumption DEF KeyInv, Reconnect
  <2> QED
    BY <1>3, <2>1, <2>2, <2>3
<1> QED
  BY <1>1, <1>2, <1>3 DEF HostInputNext

-----------------------------------------------------------------------------
\* Where the mouse points.

\* The product of two naturals is one.
LEMMA TimesNat == ASSUME NEW a \in Nat, NEW b \in Nat PROVE a * b \in Nat
OBVIOUS

\* A greater factor, a greater product.
LEMMA TimesGrows ==
  ASSUME NEW k \in Nat, NEW a \in Int, NEW b \in Int, a <= b
  PROVE  k * a <= k * b
<1>1. b - a \in Nat
  OBVIOUS
<1>2. k * (b - a) \in Nat
  BY <1>1, TimesNat
<1>3. k * (b - a) = k * b - k * a
  OBVIOUS
<1> QED
  BY <1>2, <1>3

\* A fraction is rounded by no more than a half.
LEMMA RoundedIs ==
  ASSUME NEW a \in Int, NEW d \in Nat \ {0}
  PROVE  /\ Rounded(a, d) \in Int
         /\ 2 * (Rounded(a, d) * d) <= 2 * a + d
         /\ 2 * a - d <= 2 * (Rounded(a, d) * d)
<1> DEFINE m == 2 * d
           x == 2 * a + d
           q == x \div m
<1>1. m \in Nat \ {0} /\ x \in Int
  OBVIOUS
<1>2. q \in Int /\ m * q <= x /\ x < m * q + m
  <2> HIDE DEF m, x
  <2>1. q \in Int /\ x = m * q + (x % m) /\ x % m \in 0 .. m - 1
    BY <1>1
  <2> QED
    BY <1>1, <2>1
<1>3. Rounded(a, d) = q
  BY DEF Rounded
<1> HIDE DEF q
<1>4. m * q = 2 * (q * d)
  BY <1>2
<1> QED
  BY <1>2, <1>3, <1>4

\* What a rounded fraction is off.
LEMMA RoundedOff ==
  ASSUME NEW a \in Int, NEW d \in Nat \ {0}
  PROVE  LET off == Rounded(a, d) * d - a
         IN  off \in Int /\ 2 * off <= d /\ -(2 * off) <= d
<1> DEFINE r == Rounded(a, d)
<1>1. r \in Int /\ 2 * (r * d) <= 2 * a + d /\ 2 * a - d <= 2 * (r * d)
  BY RoundedIs
<1> HIDE DEF r
<1>2. r * d \in Int
  BY <1>1
<1>3. r * d - a \in Int /\ 2 * (r * d - a) <= d /\ -(2 * (r * d - a)) <= d
  BY <1>1, <1>2
<1> QED
  BY <1>3 DEF r

\* lround() does the same below zero.
LEMMA LRoundedIs ==
  ASSUME NEW a \in Int, NEW d \in Nat \ {0}
  PROVE  /\ LRounded(a, d) \in Int
         /\ 2 * (LRounded(a, d) * d) <= 2 * a + d
         /\ 2 * a - d <= 2 * (LRounded(a, d) * d)
<1>1. CASE a >= 0
  BY <1>1, RoundedIs DEF LRounded
<1>2. CASE a < 0
  <2> DEFINE r == Rounded(-a, d)
  <2>1. -a \in Int /\ LRounded(a, d) = -r
    BY <1>2 DEF LRounded
  <2>2. r \in Int /\ 2 * (r * d) <= 2 * (-a) + d /\ 2 * (-a) - d <= 2 * (r * d)
    BY <2>1, RoundedIs
  <2> HIDE DEF r
  <2>3. (-r) * d = -(r * d)
    BY <2>2
  <2>4. r * d \in Int
    BY <2>2
  <2> QED
    BY <2>1, <2>2, <2>3, <2>4
<1> QED
  BY <1>1, <1>2

\* A part of d, in units of which there are s: one of them, or the end.
LEMMA RoundedWithin ==
  ASSUME NEW d \in Nat \ {0}, NEW n \in 0 .. d, NEW s \in Nat
  PROVE  /\ n * s \in Nat
         /\ Rounded(n * s, d) \in 0 .. s
<1> DEFINE r == Rounded(n * s, d)
<1>1. n * s \in Nat /\ n \in Nat
  BY TimesNat
<1>2. r \in Int /\ 2 * (r * d) <= 2 * (n * s) + d /\ 2 * (n * s) - d <= 2 * (r * d)
  BY <1>1, RoundedIs
<1>3. s * n <= s * d /\ s * n = n * s /\ s * d \in Nat /\ s * d = d * s /\ r * d = d * r
  BY <1>1, <1>2, TimesGrows, TimesNat
<1> HIDE DEF r
<1>4. r >= 0
  <2> SUFFICES ASSUME r <= -1 PROVE FALSE
    BY <1>2
  <2>1. d * r <= d * (-1)
    BY <1>2, TimesGrows
  <2> QED
    BY <1>1, <1>2, <1>3, <2>1
<1>5. r <= s
  <2> SUFFICES ASSUME s + 1 <= r PROVE FALSE
    BY <1>2
  <2>1. d * (s + 1) <= d * r
    BY <1>2, TimesGrows
  <2>2. d * (s + 1) = d * s + d
    OBVIOUS
  <2> QED
    BY <1>1, <1>2, <1>3, <2>1, <2>2
<1> QED
  BY <1>1, <1>2, <1>4, <1>5 DEF r

\* Half a unit off is within half a pixel and half a unit.
LEMMA NearEnough ==
  ASSUME NEW d \in Nat, NEW s \in Nat, NEW range \in Nat, NEW off \in Int,
         2 * off <= d, -(2 * off) <= d
  PROVE  2 * s * (IF off < 0 THEN -off ELSE off) <= d * (range + s)
<1> DEFINE abs == IF off < 0 THEN -off ELSE off
<1>1. abs \in Nat /\ 2 * abs <= d
  OBVIOUS
<1> HIDE DEF abs
<1>2. s * (2 * abs) <= s * d
  BY <1>1, TimesGrows
<1>3. d * (range + s) = d * range + s * d /\ d * range \in Nat
  BY TimesNat
<1>4. 2 * s * abs = s * (2 * abs)
  BY <1>1
<1>5. s * d \in Nat /\ s * (2 * abs) \in Int
  BY <1>1, TimesNat
<1>6. 2 * s * abs <= d * (range + s)
  BY <1>2, <1>3, <1>4, <1>5
<1> QED
  BY <1>6 DEF abs

\* And so is half a pixel and half a unit of the absolute coordinate.
LEMMA TwiceNear ==
  ASSUME NEW d \in Nat \ {0}, NEW n \in 0 .. d, NEW s \in Nat \ {0}, NEW range \in Nat
  PROVE  LET place == Rounded(Rounded(n * s, d) * range, s)
             off == place * d - n * range
         IN  2 * s * (IF off < 0 THEN -off ELSE off) <= d * (range + s)
<1> DEFINE p == Rounded(n * s, d)
           c == Rounded(p * range, s)
           off == c * d - n * range
           e == 2 * (p * d) - 2 * (n * s)
           f == 2 * (c * s) - 2 * (p * range)
<1>1. n \in Nat /\ n * s \in Nat /\ p \in Nat /\ p * range \in Nat
  <2>1. n \in Nat /\ n * s \in Nat /\ p \in Nat
    BY RoundedWithin
  <2> QED
    BY <2>1, TimesNat
<1>2. e \in Int /\ -d <= e /\ e <= d
  <2>1. /\ 2 * (p * d) <= 2 * (n * s) + d /\ 2 * (n * s) - d <= 2 * (p * d)
        /\ p * d \in Int
    BY <1>1, RoundedIs
  <2> HIDE DEF p
  <2> QED
    BY <1>1, <2>1
<1>3. c \in Int /\ f \in Int /\ -s <= f /\ f <= s
  <2> HIDE DEF p
  <2>1. c \in Int /\ 2 * (c * s) <= 2 * (p * range) + s /\ 2 * (p * range) - s <= 2 * (c * s)
    BY <1>1, RoundedIs
  <2>2. c * s \in Int
    BY <2>1
  <2> HIDE DEF c
  <2> QED
    BY <1>1, <2>1, <2>2
<1> HIDE DEF p, c
<1>4. 2 * s * off = d * f + range * e
  BY <1>1, <1>3
<1>5. off \in Int
  BY <1>1, <1>3
<1> HIDE DEF e, f, off
<1>6. d * f <= d * s /\ d * (-s) <= d * f
  BY <1>3, TimesGrows
<1>7. range * e <= range * d /\ range * (-d) <= range * e
  BY <1>2, TimesGrows
<1>8. d * (range + s) = range * d + d * s
  OBVIOUS
<1>9. d * (-s) = -(d * s) /\ range * (-d) = -(range * d)
  OBVIOUS
<1>10. {d * s, range * d, d * f, range * e} \subseteq Int
  BY <1>2, <1>3
<1>11. 2 * s * off <= d * (range + s) /\ -(d * (range + s)) <= 2 * s * off
  BY <1>4, <1>6, <1>7, <1>8, <1>9, <1>10
<1>12. 2 * s * (-off) = -(2 * s * off) /\ 2 * s * off \in Int
  BY <1>5
<1>13. 2 * s * (IF off < 0 THEN -off ELSE off) <= d * (range + s)
  BY <1>5, <1>11, <1>12, <1>8, <1>10
<1> QED
  BY <1>13 DEF off, c, p

\* The user's mouse and the picture are somewhere, and the host knows where.
PlaceInv ==
  /\ pointerX \in Int
  /\ size \in FrameSizes \cup {DefaultSize}
  /\ PointsWhereUserDoes

\* The greater of two products with one factor has the greater other one.
LEMMA TimesCancels ==
  ASSUME NEW k \in Nat \ {0}, NEW a \in Int, NEW b \in Int, k * a <= k * b
  PROVE  a <= b
<1> SUFFICES ASSUME b + 1 <= a PROVE FALSE
  OBVIOUS
<1>1. k * (b + 1) <= k * a
  BY TimesGrows
<1>2. k * (b + 1) = k * b + k /\ k * b \in Int
  OBVIOUS
<1> QED
  BY <1>1, <1>2

\* The whole pixels of the controller and the fractions with which the picture is drawn: of
\* a place inside both the two make the same part of the picture, but for a pixel; and the
\* edges are next to each other.  F is the number of parts of a pixel, T and D the width of
\* the two and x and X their left edges, all of them the middle of the surface but for what
\* the roundings leave.
LEMMA PlacesMeet ==
  ASSUME NEW p \in Int, NEW W \in Int, NEW F \in Nat \ {0}, NEW T \in Nat \ {0},
         NEW e \in 0 .. F, NEW D \in Int, D = F * T + e,
         NEW x \in Int, NEW X \in Int, NEW odd \in {0, 1},
         2 * x = W - T - odd, 2 * X = F * W - D
  PROVE  LET n == Clamp(p, x, x + T) - x
             m == Clamp(p * F, X, X + D) - X
         IN  n \in 0 .. T /\ m \in 0 .. D /\ m * T - n * D \in -(F * T) .. F * T
<1> DEFINE n == Clamp(p, x, x + T) - x
           m == Clamp(p * F, X, X + D) - X
<1>1. F * T \in Nat /\ D \in Nat
  <2>1. F * T \in Nat
    BY TimesNat
  <2> QED
    BY <2>1
<1>2. 2 * X = 2 * (F * x) + F * odd - e /\ F * odd \in 0 .. F /\ F * x \in Int
  <2>1. F * (2 * x) = F * W - F * T - F * odd
    OBVIOUS
  <2>2. F * (2 * x) = 2 * (F * x) /\ F * x \in Int /\ F * W \in Int /\ F * T \in Int
    OBVIOUS
  <2>3. F * odd \in 0 .. F
    <3>1. CASE odd = 0
      BY <3>1
    <3>2. CASE odd = 1
      BY <3>2
    <3> QED
      BY <3>1, <3>2
  <2> HIDE DEF n, m
  <2> QED
    BY <2>1, <2>2, <2>3
<1>3. n \in 0 .. T /\ m \in 0 .. D
  <2>1. n \in 0 .. T
    BY DEF Clamp
  <2>2. m \in 0 .. D
    <3> DEFINE q == p * F
    <3>1. q \in Int
      OBVIOUS
    <3> HIDE DEF q
    <3>2. Clamp(q, X, X + D) - X \in 0 .. D
      BY <1>1, <3>1 DEF Clamp
    <3> QED
      BY <3>2 DEF q
  <2> QED
    BY <2>1, <2>2
<1>4. ASSUME p < x PROVE m * T - n * D = 0
  <2>1. n = 0
    BY <1>4 DEF Clamp
  <2>2. p * F <= X
    <3>1. F * p <= F * (x - 1)
      BY <1>4, TimesGrows
    <3>2. F * (x - 1) = F * x - F /\ F * p = p * F /\ p * F \in Int
      OBVIOUS
    <3> HIDE DEF n, m
    <3> QED
      BY <1>2, <3>1, <3>2
  <2>3. m = 0
    <3> DEFINE q == p * F
    <3>1. q \in Int /\ q <= X
      BY <2>2
    <3> HIDE DEF q
    <3>2. Clamp(q, X, X + D) - X = 0
      BY <1>1, <3>1 DEF Clamp
    <3> QED
      BY <3>2 DEF q
  <2> HIDE DEF n, m
  <2> QED
    BY <1>1, <2>1, <2>3
<1>5. ASSUME p > x + T PROVE m * T - n * D = 0
  <2>1. n = T
    BY <1>5 DEF Clamp
  <2>2. X + D <= p * F
    <3>1. F * (x + T + 1) <= F * p
      BY <1>5, TimesGrows
    <3>2. F * (x + T + 1) = F * x + F * T + F /\ F * p = p * F /\ p * F \in Int
      OBVIOUS
    <3> HIDE DEF n, m
    <3> QED
      BY <1>1, <1>2, <3>1, <3>2
  <2>3. m = D
    <3> DEFINE q == p * F
    <3>1. q \in Int /\ X + D <= q
      BY <2>2
    <3> HIDE DEF q
    <3>2. Clamp(q, X, X + D) - X = D
      BY <1>1, <3>1 DEF Clamp
    <3> QED
      BY <3>2 DEF q
  <2> HIDE DEF n, m
  <2> QED
    BY <1>1, <2>1, <2>3
<1>6. ASSUME x <= p, p <= x + T PROVE m * T - n * D \in -(F * T) .. F * T
  <2> DEFINE k == e - F * odd
             there == p * F - X
             ahead == there * T - n * D
  <2>1. n = p - x
    BY <1>6 DEF Clamp
  <2>2. there \in Int /\ 2 * there = 2 * (F * n) + k /\ k \in -F .. F
    <3>1. F * n = p * F - F * x /\ p * F \in Int
      BY <2>1
    <3>2. e \in Int /\ 0 <= e /\ e <= F /\ F * odd \in Int /\ 0 <= F * odd /\ F * odd <= F
      BY <1>2
    <3> HIDE DEF n, m
    <3>3. k \in -F .. F
      BY <3>2
    <3>4. F * n \in Int /\ there \in Int
      BY <1>2, <3>1
    <3> QED
      BY <1>2, <3>1, <3>2, <3>3, <3>4
  <2>3. m = IF there < 0 THEN 0 ELSE IF there > D THEN D ELSE there
    <3> DEFINE q == p * F
    <3>1. q \in Int
      OBVIOUS
    <3> HIDE DEF q
    <3>2. Clamp(q, X, X + D) - X = IF q - X < 0 THEN 0 ELSE IF q - X > D THEN D ELSE q - X
      BY <1>1, <3>1 DEF Clamp
    <3> QED
      BY <3>2 DEF q
  <2> HIDE DEF k, there, n, m
  <2>4. 2 * ahead = T * k - 2 * (n * e) /\ ahead \in Int
    <3>1. (2 * there) * T = 2 * ((F * n) * T) + k * T
      BY <1>3, <2>2
    <3>2. n * D = n * (F * T) + n * e /\ n * (F * T) = (F * n) * T
      BY <1>3
    <3>3. (2 * there) * T = 2 * (there * T) /\ k * T = T * k
      BY <2>2
    <3>4. {there * T, n * D, (F * n) * T, T * k, n * e} \subseteq Int
      BY <1>1, <1>3, <2>2
    <3> QED
      BY <3>1, <3>2, <3>3, <3>4
  <2>5. ahead \in -(F * T) .. F * T
    <3>1. T * k <= T * e /\ T * (e - F) <= T * k
      <4>1. k <= e /\ e - F <= k /\ k \in Int
        BY <1>2 DEF k
      <4> QED
        BY <4>1, TimesGrows
    <3>2. e * n <= e * T /\ 0 <= e * n /\ e * n = n * e /\ e * T = T * e
      <4>1. n \in Nat /\ n <= T
        BY <1>3
      <4>2. e * n <= e * T /\ e * n \in Nat
        BY <4>1, TimesGrows, TimesNat
      <4> QED
        BY <4>1, <4>2
    <3>3. T * (e - F) = T * e - F * T /\ T * e <= T * F /\ T * F = F * T
      <4>1. T * e <= T * F
        BY TimesGrows
      <4> QED
        BY <4>1
    <3>4. {T * k, T * e, e * n, n * e} \subseteq Int
      BY <1>3, <2>2
    <3> HIDE DEF ahead
    <3> QED
      BY <1>1, <2>4, <3>1, <3>2, <3>3, <3>4
  <2>6. CASE there < 0
    <3>1. m = 0 /\ m * T - n * D = -(n * D) /\ n * D \in Nat
      <4>1. m = 0
        BY <2>3, <2>6
      <4>2. n * D \in Nat
        BY <1>1, <1>3, TimesNat
      <4> QED
        BY <4>1, <4>2
    <3>2. there * T <= 0 /\ there * T \in Int
      <4>1. T * there <= T * 0
        BY <2>2, <2>6, TimesGrows
      <4> QED
        BY <2>2, <4>1
    <3>3. ahead <= -(n * D)
      BY <3>1, <3>2
    <3> HIDE DEF ahead
    <3> QED
      BY <1>1, <2>5, <3>1, <3>3
  <2>7. CASE there > D
    <3>1. m = D
      BY <1>1, <2>2, <2>3, <2>7
    <3>2. D * T <= there * T /\ n * D <= D * T /\ {D * T, there * T, n * D} \subseteq Int
      <4>1. T * D <= T * there
        BY <1>1, <2>2, <2>7, TimesGrows
      <4>2. D * n <= D * T
        BY <1>1, <1>3, TimesGrows
      <4> QED
        BY <1>1, <1>3, <2>2, <4>1, <4>2
    <3>3. m * T - n * D <= ahead /\ 0 <= m * T - n * D /\ m * T - n * D \in Int
      BY <3>1, <3>2
    <3> HIDE DEF ahead
    <3> QED
      BY <1>1, <2>5, <3>3
  <2>8. CASE ~(there < 0) /\ ~(there > D)
    <3>1. m = there
      BY <2>3, <2>8
    <3> QED
      BY <2>5, <3>1
  <2> QED
    BY <2>6, <2>7, <2>8
<1> HIDE DEF n, m
<1>7. m * T - n * D \in -(F * T) .. F * T
  <2>1. 0 \in -(F * T) .. F * T
    BY <1>1
  <2> QED
    BY <1>4, <1>5, <1>6, <2>1
<1> QED
  BY <1>3, <1>7 DEF n, m

\* What is half a pixel of the picture and half a unit off the controller's place is no more
\* than a pixel of the surface further off the drawn one: g is what the host was told, of
\* range units, n the controller's place of T, and m the drawn one of D.
LEMMA PlacesAdd ==
  ASSUME NEW s \in Nat, NEW range \in Nat, NEW T \in Nat \ {0}, NEW D \in Nat,
         NEW F \in Nat, NEW g \in Int, NEW n \in Int, NEW m \in Int,
         m * T - n * D \in -(F * T) .. F * T,
         LET o == g * T - n * range
         IN  2 * s * (IF o < 0 THEN -o ELSE o) <= T * (range + s)
  PROVE  LET off == g * D - m * range
         IN  2 * s * (IF off < 0 THEN -off ELSE off) <= D * (range + s) + 2 * s * range * F
<1> DEFINE o == g * T - n * range
           c == m * T - n * D
           off == g * D - m * range
           B == range + s
           so == 2 * s * o
           sc == 2 * s * range
<1>1. o \in Int /\ c \in Int /\ off \in Int /\ B \in Nat /\ sc \in Nat /\ F * T \in Nat
  <2>1. 2 * s \in Nat /\ F * T \in Nat
    BY TimesNat
  <2>2. 2 * s * range \in Nat
    BY <2>1, TimesNat
  <2> QED
    BY <2>1, <2>2
<1>2. off * T = D * o - range * c
  <2>1. off * T = (g * D) * T - (m * range) * T
    OBVIOUS
  <2>2. D * o = D * (g * T) - D * (n * range) /\ range * c = range * (m * T) - range * (n * D)
    OBVIOUS
  <2>3. (g * D) * T = D * (g * T) /\ (m * range) * T = range * (m * T)
        /\ D * (n * range) = range * (n * D)
    OBVIOUS
  <2>4. {(g * D) * T, (m * range) * T, D * (n * range)} \subseteq Int
    OBVIOUS
  <2> HIDE DEF off, o, c
  <2> QED
    BY <2>1, <2>2, <2>3, <2>4
<1>3. so \in Int /\ so <= T * B /\ -(T * B) <= so /\ T * B \in Nat
  <2>1. 2 * s * (IF o < 0 THEN -o ELSE o) <= T * B
    OBVIOUS
  <2> HIDE DEF o, B
  <2>2. so \in Int /\ 2 * s * (-o) = -so
    BY <1>1
  <2>3. \/ so <= T * B /\ -(T * B) <= so
        \/ so < 0 /\ o >= 0
        \/ so > 0 /\ o < 0
    BY <1>1, <2>1, <2>2
  <2>4. o >= 0 => so >= 0
    <3>1. 2 * s \in Nat
      BY TimesNat
    <3>2. o >= 0 => (2 * s) * o \in Nat
      BY <1>1, <3>1, TimesNat
    <3> QED
      BY <3>2
  <2>5. o < 0 => so <= 0
    <3>1. 2 * s \in Nat
      BY TimesNat
    <3>2. o < 0 => (2 * s) * o <= (2 * s) * 0
      BY <1>1, <3>1, TimesGrows
    <3>3. (2 * s) * 0 = 0
      OBVIOUS
    <3> QED
      BY <3>2, <3>3
  <2>6. T * B \in Nat
    BY <1>1, TimesNat
  <2> HIDE DEF so
  <2> QED
    BY <2>2, <2>3, <2>4, <2>5, <2>6
<1> HIDE DEF o, c, off, B, sc
<1>4. 2 * s * (off * T) = D * so - sc * c
  <2>1. 2 * s * (off * T) = 2 * s * (D * o) - 2 * s * (range * c)
    BY <1>1, <1>2
  <2>2. 2 * s * (D * o) = D * so
    BY <1>1
  <2>3. 2 * s * (range * c) = sc * c
    BY <1>1 DEF sc
  <2> QED
    BY <2>1, <2>2, <2>3
<1>5. D * so <= D * (T * B) /\ D * (-(T * B)) <= D * so
  BY <1>3, TimesGrows
<1>6. sc * c <= sc * (F * T) /\ sc * (-(F * T)) <= sc * c
  BY <1>1, TimesGrows DEF c
<1> HIDE DEF so
<1> DEFINE all == D * B + sc * F
           soff == 2 * s * off
<1>7. /\ D * (T * B) = T * (D * B) /\ sc * (F * T) = T * (sc * F)
      /\ D * (-(T * B)) = -(T * (D * B)) /\ sc * (-(F * T)) = -(T * (sc * F))
  BY <1>1
<1>8. all \in Int /\ T * all = T * (D * B) + T * (sc * F) /\ T * (-all) = -(T * all)
  BY <1>1
<1>9. soff \in Int /\ 2 * s * (off * T) = T * soff
  BY <1>1
<1>10. {T * (D * B), T * (sc * F), D * so, sc * c, T * soff} \subseteq Int
  BY <1>1, <1>3, <1>9
<1> HIDE DEF all, soff
<1>11. T * soff <= T * all /\ T * (-all) <= T * soff
  BY <1>4, <1>5, <1>6, <1>7, <1>8, <1>9, <1>10
<1>12. soff <= all /\ -all <= soff
  <2>1. -all \in Int
    BY <1>8
  <2> QED
    BY <1>8, <1>9, <1>11, <2>1, TimesCancels
<1>13. 2 * s * (-off) = -soff
  BY <1>1 DEF soff
<1>14. 2 * s * (IF off < 0 THEN -off ELSE off) <= all
  BY <1>1, <1>8, <1>9, <1>12, <1>13 DEF soff
<1> QED
  BY <1>14 DEF off, all, B, sc

\* The picture's place on the surface is a number of pixels, and the one where it is drawn
\* a number of their parts, both in the middle.
LEMMA TargetIs ==
  ASSUME size \in FrameSizes \cup {DefaultSize}
  PROVE  /\ size.width \in Nat \ {0}
         /\ Surface.width \in Nat
         /\ TargetRect.w \in Int /\ TargetRect.x \in Int
         /\ DrawnUnit \in Nat \ {0}
         /\ DrawnRect.w \in Nat /\ DrawnRect.x \in Int
         /\ 2 * DrawnRect.x = DrawnUnit * Surface.width - DrawnRect.w
         /\ \E odd \in {0, 1} : 2 * TargetRect.x = Surface.width - TargetRect.w - odd
         /\ \E e \in 0 .. DrawnUnit : DrawnRect.w = DrawnUnit * TargetRect.w + e
<1> DEFINE k == size.height
           short == IF size \in FallsShort /\ Extent % k = 0 THEN 1 ELSE 0
           q == Extent \div k
           w == q - short
           W == Surface.width
<1>1. /\ size.width \in Nat \ {0} /\ k \in Nat \ {0}
      /\ W \in Nat \ {0} /\ Surface.height \in Nat \ {0}
  BY HostInputAssumption
<1>2. Extent \in Nat
  <2>1. W * k \in Nat /\ Surface.height * size.width \in Nat
    BY <1>1, TimesNat
  <2> QED
    BY <2>1 DEF Extent
<1>3. TargetRect = [x |-> (W - w) \div 2, w |-> w]
  BY DEF TargetRect
<1>4. DrawnUnit = 2 * k /\ DrawnRect = [x |-> W * k - Extent, w |-> 2 * Extent]
  BY DEF DrawnUnit, DrawnRect
<1>5. q \in Nat /\ Extent = k * q + (Extent % k) /\ Extent % k \in 0 .. k - 1
  <2> DEFINE x == Extent
  <2> HIDE DEF k, x
  <2>1. x \div k \in Nat /\ x = k * (x \div k) + (x % k) /\ x % k \in 0 .. k - 1
    BY <1>1, <1>2 DEF x
  <2> QED
    BY <2>1 DEF x
<1>6. short \in {0, 1} /\ (short = 1 => Extent % k = 0)
  OBVIOUS
<1> HIDE DEF k, q, short, W
<1>7. w \in Int /\ k * w = k * q - k * short /\ k * short \in {0, k} /\ (short = 0 => k * short = 0)
  <2>1. w \in Int /\ k * w = k * q - k * short
    BY <1>1, <1>5, <1>6
  <2>2. CASE short = 0
    BY <1>1, <2>1, <2>2
  <2>3. CASE short = 1
    BY <1>1, <2>1, <2>3
  <2> QED
    BY <1>6, <2>2, <2>3
<1> HIDE DEF w
<1>8. Extent - k * w \in 0 .. k
  <2>1. k * q \in Int /\ k * w \in Int
    BY <1>1, <1>5, <1>7
  <2>2. CASE short = 0
    BY <1>1, <1>5, <1>7, <2>1, <2>2
  <2>3. CASE short = 1
    <3>1. Extent % k = 0 /\ k * short = k
      BY <1>1, <1>6, <2>3
    <3>2. Extent = k * q
      BY <1>5, <2>1, <3>1
    <3> QED
      BY <1>1, <1>7, <2>1, <3>1, <3>2
  <2> QED
    BY <1>6, <2>2, <2>3
<1>9. \E e \in 0 .. DrawnUnit : DrawnRect.w = DrawnUnit * TargetRect.w + e
  <2> DEFINE e == 2 * (Extent - k * w)
  <2>1. e \in 0 .. 2 * k
    BY <1>1, <1>8
  <2>2. 2 * Extent = (2 * k) * w + e
    <3>1. (2 * k) * w = 2 * (k * w) /\ k * w \in Int
      BY <1>1, <1>7
    <3> QED
      BY <1>2, <3>1
  <2> QED
    BY <1>3, <1>4, <2>1, <2>2
<1>10. \E odd \in {0, 1} : 2 * ((W - w) \div 2) = W - w - odd
  <2> DEFINE y == W - w
  <2>1. y \in Int
    BY <1>1, <1>7
  <2> HIDE DEF y
  <2>2. y = 2 * (y \div 2) + (y % 2) /\ y % 2 \in {0, 1}
    BY <2>1
  <2>3. 2 * (y \div 2) = y - (y % 2)
    BY <2>1, <2>2
  <2>4. \E odd \in {0, 1} : 2 * (y \div 2) = y - odd
    BY <2>2, <2>3
  <2> QED
    BY <2>4 DEF y
<1>11. (W - w) \div 2 \in Int
  BY <1>1, <1>7
<1>12. 2 * (W * k - Extent) = (2 * k) * W - 2 * Extent
  <2>1. W * k \in Int /\ (2 * k) * W = 2 * (W * k)
    BY <1>1
  <2> QED
    BY <1>2, <2>1
<1>13. 2 * k \in Nat \ {0} /\ 2 * Extent \in Nat /\ W * k - Extent \in Int
  BY <1>1, <1>2
<1> QED
  BY <1>1, <1>3, <1>4, <1>7, <1>9, <1>10, <1>11, <1>12, <1>13 DEF W

\* What the host is told of the mouse is where it is (the encode_pointer of the three
\* protocols).
LEMMA EncodedPlace ==
  ASSUME protocol \in Protocols, size \in FrameSizes \cup {DefaultSize},
         UNCHANGED <<protocol, size, relativeMode>>, pointerX' \in Int, TargetRect.w > 0,
         NEW change, NEW button, Encode(change, button)
  PROVE  PointsWhereUserDoes'
<1> DEFINE d == TargetRect.w
           s == size.width
           n == Normalized
<1>1. s \in Nat \ {0} /\ d \in Nat \ {0} /\ TargetRect.x \in Int
  BY TargetIs
<1>2. n \in 0 .. d
  BY <1>1 DEF Normalized, Clamp
<1>3. DrawnRect' = DrawnRect /\ DrawnUnit' = DrawnUnit
  BY DEF DrawnRect, DrawnUnit, Extent
<1>4. ASSUME NEW low \in Int, NEW range \in Nat, guestX' \in Int,
             LET off == (guestX' - low) * d - n * range
             IN  2 * s * (IF off < 0 THEN -off ELSE off) <= d * (range + s)
      PROVE  At(guestX, low, range)'
  <2> DEFINE F == DrawnUnit
             D == DrawnRect.w
             X == DrawnRect.x
             m == Clamp(pointerX' * F, X, X + D) - X
             g == guestX' - low
  <2>1. /\ F \in Nat \ {0} /\ D \in Nat /\ X \in Int
        /\ Surface.width \in Nat /\ 2 * X = F * Surface.width - D
    BY TargetIs
  <2>2. PICK odd \in {0, 1} : 2 * TargetRect.x = Surface.width - d - odd
    BY TargetIs
  <2>3. PICK e \in 0 .. F : D = F * d + e
    BY TargetIs
  <2>4. n = Clamp(pointerX', TargetRect.x, TargetRect.x + d) - TargetRect.x
    BY DEF Normalized
  <2> DEFINE x == TargetRect.x
             p == pointerX'
             W == Surface.width
  <2> HIDE DEF F, D, X, n, d, s
  <2>5. m \in 0 .. D /\ m * d - n * D \in -(F * d) .. F * d
    <3>1. /\ p \in Int /\ W \in Int /\ F \in Nat \ {0} /\ d \in Nat \ {0} /\ e \in 0 .. F
          /\ D \in Int /\ D = F * d + e /\ x \in Int /\ X \in Int /\ odd \in {0, 1}
          /\ 2 * x = W - d - odd /\ 2 * X = F * W - D
      BY <1>1, <2>1, <2>2, <2>3
    <3>2. n = Clamp(p, x, x + d) - x /\ m = Clamp(p * F, X, X + D) - X
      BY <2>4
    <3> HIDE DEF p, x, W, m
    <3> QED
      BY <3>1, <3>2, PlacesMeet
  <2> HIDE DEF m
  <2>6. m \in Int /\ n \in Int /\ g \in Int
    BY <1>2, <1>4, <2>1, <2>5
  <2>7. LET o == g * d - n * range
        IN  2 * s * (IF o < 0 THEN -o ELSE o) <= d * (range + s)
    BY <1>4
  <2> HIDE DEF g
  <2>8. LET off == g * D - m * range
        IN  2 * s * (IF off < 0 THEN -off ELSE off) <= D * (range + s) + 2 * s * range * F
    BY <1>1, <2>1, <2>5, <2>6, <2>7, PlacesAdd
  <2>9. (2 * size.width)' = 2 * s /\ size' = size
    BY DEF s
  <2> QED
    BY <1>3, <2>8, <2>9 DEF At, F, D, X, m, g, s
<1> HIDE DEF n
<1>5. Rounded(n * s, d) \in 0 .. s /\ n * s \in Nat
  BY <1>1, <1>2, RoundedWithin
<1>6. FramePixel = Rounded(n * s, d)
  BY <1>1, <1>5 DEF FramePixel, Clamp, n
<1>7. CASE protocol = "megarac" /\ ~relativeMode
  <2> DEFINE c == Rounded(FramePixel * AbsoluteMax, s)
  <2>1. AbsoluteMax \in Nat
    BY HostInputAssumption
  <2>2. c \in 0 .. AbsoluteMax
    <3> DEFINE p == FramePixel
    <3>1. p \in 0 .. s
      BY <1>5, <1>6
    <3> HIDE DEF p
    <3>2. Rounded(p * AbsoluteMax, s) \in 0 .. AbsoluteMax
      BY <1>1, <2>1, <3>1, RoundedWithin
    <3> QED
      BY <3>2 DEF p
  <2>3. Clamp(FramePixel, 0, s) = FramePixel
    BY <1>1, <1>5, <1>6 DEF Clamp
  <2>4. AbsoluteCoordinate(FramePixel) = c
    BY <2>1, <2>2, <2>3 DEF AbsoluteCoordinate, Clamp
  <2>5. guestX' = c
    BY <1>7, <2>4 DEF Encode, EncodeMegarac
  <2>6. LET off == c * d - n * AbsoluteMax
        IN  2 * s * (IF off < 0 THEN -off ELSE off) <= d * (AbsoluteMax + s)
    BY <1>1, <1>2, <1>6, <2>1, TwiceNear
  <2> HIDE DEF c
  <2>7. (guestX' - 0) * d - n * AbsoluteMax = c * d - n * AbsoluteMax
    BY <2>2, <2>5
  <2>8. At(guestX, 0, AbsoluteMax)'
    BY <1>4, <2>1, <2>2, <2>5, <2>6, <2>7
  <2> QED
    BY <1>7, <2>8 DEF PointsWhereUserDoes
<1>8. CASE protocol = "megarac" /\ relativeMode
  BY <1>8 DEF PointsWhereUserDoes
<1>9. CASE protocol = "aten"
  <2> DEFINE off == (guestX' - 0) * d - n * s
  <2>1. guestX' = Rounded(n * s, d)
    BY <1>6, <1>9 DEF Encode, EncodeAten
  <2>2. off \in Int /\ 2 * off <= d /\ -(2 * off) <= d
    <3> DEFINE a == n * s
    <3>1. a \in Int /\ d \in Nat \ {0}
      BY <1>1, <1>5
    <3>2. off = Rounded(a, d) * d - a
      BY <1>1, <1>5, <2>1
    <3> HIDE DEF a, d, off
    <3> QED
      BY <3>1, <3>2, RoundedOff
  <2> HIDE DEF off
  <2>3. 2 * s * (IF off < 0 THEN -off ELSE off) <= d * (s + s)
    BY <1>1, <2>2, NearEnough
  <2>4. At(guestX, 0, s)'
    BY <1>1, <1>4, <1>5, <2>1, <2>3 DEF off
  <2> QED
    BY <1>9, <2>4 DEF PointsWhereUserDoes
<1>10. CASE protocol = "pikvm"
  <2> DEFINE r == PikvmRange
             a == PikvmMin * d + n * r
             off == (guestX' - PikvmMin) * d - n * r
  <2>1. PikvmMin \in Int /\ r \in Nat
    BY HostInputAssumption DEF PikvmMin, PikvmRange
  <2>2. guestX' = LRounded(a, d)
    BY <1>10 DEF Encode, EncodePikvm, PikvmCoordinate, n
  <2>3. a \in Int /\ n * r \in Int /\ PikvmMin * d \in Int
    BY <1>1, <1>2, <2>1
  <2>4. guestX' \in Int /\ 2 * (guestX' * d) <= 2 * a + d /\ 2 * a - d <= 2 * (guestX' * d)
    BY <1>1, <2>2, <2>3, LRoundedIs
  <2>5. off = guestX' * d - a
    <3> HIDE DEF r
    <3>1. (guestX' - PikvmMin) * d = guestX' * d - PikvmMin * d
      BY <1>1, <2>1, <2>4
    <3>2. guestX' * d \in Int
      BY <1>1, <2>4
    <3> QED
      BY <2>3, <3>1, <3>2
  <2>6. guestX' * d \in Int
    BY <1>1, <2>4
  <2> HIDE DEF off, a, r
  <2>7. off \in Int /\ 2 * off <= d /\ -(2 * off) <= d
    BY <1>1, <2>3, <2>4, <2>5, <2>6
  <2>8. 2 * s * (IF off < 0 THEN -off ELSE off) <= d * (r + s)
    BY <1>1, <2>1, <2>7, NearEnough
  <2>9. At(guestX, PikvmMin, PikvmRange)'
    BY <1>4, <2>1, <2>4, <2>8 DEF off, r
  <2> QED
    BY <1>10, <2>9 DEF PointsWhereUserDoes
<1> QED
  BY <1>7, <1>8, <1>9, <1>10 DEF Protocols

\* What was told stays true as long as nothing moves.
LEMMA PlaceSame ==
  ASSUME PointsWhereUserDoes, UNCHANGED <<protocol, live, size, relativeMode, guestX>>,
         fresh' => fresh /\ pointerX' = pointerX
  PROVE  PointsWhereUserDoes'
<1> SUFFICES ASSUME live, fresh, fresh', pointerX' = pointerX
             PROVE  PointsWhereUserDoes'
  BY DEF PointsWhereUserDoes
<1>1. DrawnRect' = DrawnRect /\ DrawnUnit' = DrawnUnit
  BY DEF DrawnRect, DrawnUnit, Extent
<1>2. \A low, range : At(guestX, low, range)' = At(guestX, low, range)
  BY <1>1 DEF At
<1>3. PikvmMin' = PikvmMin /\ PikvmRange' = PikvmRange
  BY DEF PikvmMin, PikvmRange
<1> QED
  BY <1>2, <1>3 DEF PointsWhereUserDoes

\* What is told of the mouse is true until the mouse or the picture is another.
LEMMA PlaceStep ==
  ASSUME protocol \in Protocols, ButtonInv, PlaceInv, HostInputNext
  PROVE  PlaceInv'
<1> USE DEF pointerVars, keyVars
<1>a. /\ UNCHANGED <<protocol, live, size, relativeMode, guestX>>
      /\ fresh' => fresh /\ pointerX' = pointerX
      => PointsWhereUserDoes'
  BY PlaceSame DEF PlaceInv
<1>1. CASE MoveMouse \/ PressButton \/ ReleaseButton \/ TurnWheel \/ HostChanges
  <2>1. CASE MoveMouse
    <3>1. PICK x \in Places : pointerX' = x
      BY <2>1 DEF MoveMouse
    <3>2. pointerX' \in Int
      BY <3>1, HostInputAssumption
    <3>3. CASE live /\ Points(buttons # {}) /\ Encode("move", "none")
      BY <2>1, <3>2, <3>3, EncodedPlace DEF MoveMouse, UsesMouse, Points, PlaceInv
    <3>4. CASE NothingEncoded /\ fresh' = (fresh /\ pointerX' = pointerX)
      BY <2>1, <3>2, <3>4, <1>a DEF MoveMouse, UsesMouse, NothingEncoded, PlaceInv
    <3> QED
      BY <2>1, <3>3, <3>4 DEF MoveMouse
  <2>2. CASE PressButton
    <3>1. UNCHANGED <<pointerX, size, protocol, relativeMode, live>>
      BY <2>2 DEF PressButton, UsesMouse
    <3>2. CASE Points(buttons # {}) /\ (\E button \in Buttons : Encode("press", button))
      BY <2>2, <3>1, <3>2, EncodedPlace DEF Points, PlaceInv
    <3>3. CASE NothingEncoded /\ UNCHANGED fresh
      BY <3>1, <3>3, <1>a DEF NothingEncoded, PlaceInv
    <3> QED
      BY <2>2, <3>2, <3>3 DEF PressButton
  <2>3. CASE ReleaseButton
    <3>1. UNCHANGED <<pointerX, size, protocol, relativeMode, live>>
      BY <2>3 DEF ReleaseButton, UsesMouse
    <3>2. CASE Points(TRUE) /\ (\E button \in heldButtons : Encode("release", button))
      BY <2>3, <3>1, <3>2, EncodedPlace DEF Points, PlaceInv
    <3>3. CASE NothingEncoded /\ UNCHANGED fresh
      BY <3>1, <3>3, <1>a DEF NothingEncoded, PlaceInv
    <3> QED
      BY <2>3, <3>2, <3>3 DEF ReleaseButton
  <2>4. CASE TurnWheel
    <3>1. UNCHANGED <<pointerX, size, protocol, relativeMode, live>>
      BY <2>4 DEF TurnWheel, UsesMouse
    <3>2. CASE Points(buttons # {}) /\ (Encode("wheel", "none"))
      BY <2>4, <3>1, <3>2, EncodedPlace DEF Points, PlaceInv
    <3>3. CASE NothingEncoded /\ UNCHANGED fresh
      BY <3>1, <3>3, <1>a DEF NothingEncoded, PlaceInv
    <3> QED
      BY <2>4, <3>2, <3>3 DEF TurnWheel
  <2>5. CASE HostChanges
    <3>1. ~fresh' /\ pointerX' = pointerX /\ size' \in FrameSizes \cup {DefaultSize}
      BY <2>5 DEF HostChanges, PlaceInv
    <3> QED
      BY <3>1 DEF PlaceInv, PointsWhereUserDoes
  <2> QED
    BY <1>1, <2>1, <2>2, <2>3, <2>4, <2>5
<1>2. CASE PressKeyboard \/ ReleaseKeyboard \/ LoseFocus
  <2>1. CASE PressKeyboard
    BY <2>1, <1>a DEF PlaceInv, PressKeyboard
  <2>2. CASE ReleaseKeyboard
    BY <2>2, <1>a DEF PlaceInv, ReleaseKeyboard
  <2>3. CASE LoseFocus
    BY <2>3, <1>a DEF PlaceInv, LoseFocus
  <2> QED
    BY <1>2, <2>1, <2>2, <2>3
<1>3. CASE LoseSession \/ SessionAgain \/ Reconnect
  <2>1. CASE LoseSession
    <3>1. ~fresh' /\ UNCHANGED <<pointerX, size>>
      BY <2>1 DEF LoseSession, ButtonInv
    <3> QED
      BY <3>1 DEF PlaceInv, PointsWhereUserDoes
  <2>2. CASE SessionAgain
    <3>1. ~fresh' /\ UNCHANGED <<pointerX, size>>
      BY <2>2 DEF SessionAgain, ButtonInv
    <3> QED
      BY <3>1 DEF PlaceInv, PointsWhereUserDoes
  <2>3. CASE Reconnect
    <3>1. ~fresh' /\ UNCHANGED <<pointerX, size>>
      BY <2>3 DEF Reconnect, ButtonInv
    <3> QED
      BY <3>1 DEF PlaceInv, PointsWhereUserDoes
  <2> QED
    BY <1>3, <2>1, <2>2, <2>3
<1> QED
  BY <1>1, <1>2, <1>3 DEF HostInputNext

\* In a behaviour that is not about input nothing of it happens.
HostInv ==
  IF link = "input"
  THEN protocol \in Protocols /\ ButtonInv /\ KeyInv /\ PlaceInv
  ELSE ~live

\* The first state.
LEMMA HostInit == WireInit => HostInv
<1> SUFFICES ASSUME WireInit
             PROVE  HostInv
  OBVIOUS
<1>1. CASE link # "input"
  <2>1. HostInputInit("none", "mouse")
    BY <1>1 DEF WireInit
  <2>2. ~live
    BY <2>1 DEF HostInputInit, Protocols
  <2> QED
    BY <1>1, <2>2 DEF HostInv
<1>2. CASE link = "input"
  <2>1. PICK some \in Protocols, with \in {"mouse", "keyboard"} : HostInputInit(some, with)
    BY <1>2 DEF WireInit
  <2>2. protocol \in Protocols /\ ButtonInv /\ KeyInv
    BY <2>1 DEF HostInputInit, ButtonInv, KeyInv
  <2>3. PlaceInv
    <3>1. ~fresh /\ pointerX = 0 /\ size = DefaultSize
      BY <2>1 DEF HostInputInit
    <3>2. PointsWhereUserDoes
      BY <3>1 DEF PointsWhereUserDoes
    <3> QED
      BY <3>1, <3>2 DEF PlaceInv
  <2> QED
    BY <1>2, <2>2, <2>3 DEF HostInv
<1> QED
  BY <1>1, <1>2

\* Every step keeps it.
LEMMA HostStep == HostInv /\ [WireNext]_wireVars => HostInv'
<1> SUFFICES ASSUME HostInv, [WireNext]_wireVars
             PROVE  HostInv'
  OBVIOUS
<1>1. CASE UNCHANGED <<link, hostInputVars>>
  <2>1. UNCHANGED <<protocol, device, live, swallowed, heldButtons, buttons, guestButtons,
                    fresh, wheelLet, heldKeys, keyDown, guestKeys, newKeys, size, pointerX,
                    relativeMode, guestX>>
    BY <1>1 DEF hostInputVars, pointerVars, keyVars
  <2>2. ButtonInv => ButtonInv'
    BY <2>1 DEF ButtonInv
  <2>3. KeyInv => KeyInv'
    BY <2>1 DEF KeyInv, Report, InSlots
  <2>4. PlaceInv => PlaceInv'
    BY <2>1, PlaceSame DEF PlaceInv
  <2> QED
    BY <1>1, <2>1, <2>2, <2>3, <2>4 DEF HostInv
<1>2. CASE link' = link /\ link = "input" /\ HostInputNext
  <2>1. protocol \in Protocols /\ ButtonInv /\ KeyInv /\ PlaceInv
    BY <1>2 DEF HostInv
  <2>2. protocol' = protocol
    BY <1>2 DEF HostInputNext, MoveMouse, PressButton, ReleaseButton, TurnWheel, HostChanges,
                UsesMouse, PressKeyboard, ReleaseKeyboard, LoseFocus, LoseSession,
                SessionAgain, Reconnect
  <2>3. ButtonInv' /\ KeyInv' /\ PlaceInv'
    BY <1>2, <2>1, ButtonStep, KeyStep, PlaceStep
  <2> QED
    BY <1>2, <2>1, <2>2, <2>3 DEF HostInv
<1> QED
  BY <1>1, <1>2 DEF WireNext, wireVars, hostInputVars

\* The host holds the buttons and the keys that the user does, those apart whose release
\* nobody heard, in whatever order events, lost sessions and lost focus come.
THEOREM HostCorrect == WireSpec => []HostHoldsWhatUserDoes
<1>1. HostInv => HostHoldsWhatUserDoes
  BY DEF HostInv, ButtonInv, KeyInv, HostHoldsWhatUserDoes, NoPhantomButton,
         ButtonsGetThrough, NoPhantomKey, KeysGetThrough
<1> QED
  BY <1>1, HostInit, HostStep, PTL DEF WireSpec

\* A click lands where the user sees the mouse in the picture that is drawn, to within half
\* a pixel of the picture, half a unit of the protocol and a pixel of the surface, for every
\* size of the window and of the picture and whichever widths the floats fall short of.
THEOREM PointerCorrect == WireSpec => []PointsWhereUserDoes
<1>1. HostInv => PointsWhereUserDoes
  BY DEF HostInv, PlaceInv, PointsWhereUserDoes
<1> QED
  BY <1>1, HostInit, HostStep, PTL DEF WireSpec

-----------------------------------------------------------------------------
\* The cursor.

\* The part of a cursor that is drawn is in the frame and in its pattern, if its size is
\* that of what is left of the pattern.
LEMMA InsideIfClipped ==
  ASSUME NEW cursor, NEW frame, frame.width \in Nat, frame.height \in Nat,
         cursor.x \in Nat, cursor.y \in Nat,
         cursor.visible =>
           /\ cursor.width \in Nat /\ cursor.height \in Nat
           /\ cursor.xOffset \in Nat /\ cursor.yOffset \in Nat
           /\ cursor.patternWidth \in Nat /\ cursor.patternHeight \in Nat
           /\ \/ cursor.pattern = NoPattern
              \/ /\ cursor.xOffset + cursor.width <= cursor.patternWidth
                 /\ cursor.yOffset + cursor.height <= cursor.patternHeight
  PROVE  ReadsInside(cursor, frame)
<1> DEFINE image == ImageOf(cursor, frame)
<1> SUFFICES ASSUME Drawn(cursor, frame)
             PROVE  /\ cursor.x + image.width <= frame.width
                    /\ cursor.y + image.height <= frame.height
                    /\ \/ image.fallback
                       \/ /\ cursor.xOffset + image.width <= cursor.patternWidth
                          /\ cursor.yOffset + image.height <= cursor.patternHeight
  BY DEF ReadsInside
<1>1. cursor.visible /\ image.width > 0 /\ image.height > 0
  BY DEF Drawn
<1> DEFINE w == IF cursor.pattern = NoPattern THEN Fallback ELSE cursor.width
           h == IF cursor.pattern = NoPattern THEN Fallback ELSE cursor.height
<1>2. w \in Nat /\ h \in Nat
  BY <1>1, CursorAssumption
<1>3. /\ image.width = AtMost(w, AtLeast(0, frame.width - cursor.x))
      /\ image.height = AtMost(h, AtLeast(0, frame.height - cursor.y))
      /\ image.fallback = (cursor.pattern = NoPattern)
  BY DEF ImageOf
<1> HIDE DEF image
<1>4. /\ image.width \in Nat /\ image.width <= w /\ cursor.x + image.width <= frame.width
      /\ image.height \in Nat /\ image.height <= h /\ cursor.y + image.height <= frame.height
  <2> HIDE DEF w, h
  <2> QED
    BY <1>1, <1>2, <1>3 DEF AtMost, AtLeast
<1>5. CASE cursor.pattern = NoPattern
  BY <1>3, <1>4, <1>5
<1>6. CASE cursor.pattern # NoPattern
  <2>1. w = cursor.width /\ h = cursor.height
    BY <1>6
  <2> HIDE DEF w, h
  <2>2. /\ cursor.xOffset \in Nat /\ cursor.width \in Nat /\ cursor.patternWidth \in Nat
        /\ cursor.yOffset \in Nat /\ cursor.height \in Nat /\ cursor.patternHeight \in Nat
        /\ cursor.xOffset + cursor.width <= cursor.patternWidth
        /\ cursor.yOffset + cursor.height <= cursor.patternHeight
    BY <1>1, <1>6
  <2>3. /\ cursor.xOffset + image.width <= cursor.patternWidth
        /\ cursor.yOffset + image.height <= cursor.patternHeight
    BY <1>4, <2>1, <2>2
  <2> QED
    BY <1>4, <2>3
<1> QED
  BY <1>5, <1>6

\* Clipped() leaves the pattern alone and makes the cursor no larger than it was asked to.
LEMMA ClippedIs ==
  ASSUME NEW cursor, {"visible", "width", "height"} \subseteq DOMAIN cursor,
         cursor.x \in Nat, cursor.y \in Nat,
         NEW width \in Nat, NEW height \in Nat,
         NEW source, source.width \in Nat, source.height \in Nat
  PROVE  LET clipped == Clipped(cursor, width, height, source)
         IN  /\ clipped.x = cursor.x /\ clipped.y = cursor.y
             /\ clipped.xOffset = cursor.xOffset /\ clipped.yOffset = cursor.yOffset
             /\ clipped.patternWidth = cursor.patternWidth
             /\ clipped.patternHeight = cursor.patternHeight
             /\ clipped.pattern = cursor.pattern
             /\ clipped.visible =>
                  clipped.width \in 0 .. width /\ clipped.height \in 0 .. height
<1> DEFINE clipped == Clipped(cursor, width, height, source)
           w == AtMost(source.width - cursor.x, width)
           h == AtMost(source.height - cursor.y, height)
<1>1. CASE cursor.x >= source.width \/ cursor.y >= source.height
  <2>1. clipped = [cursor EXCEPT !.visible = FALSE]
    BY <1>1 DEF Clipped
  <2> HIDE DEF clipped
  <2>2. ~clipped.visible
    BY <2>1
  <2> QED
    BY <2>1, <2>2 DEF clipped
<1>2. CASE ~(cursor.x >= source.width \/ cursor.y >= source.height)
  <2>1. clipped = [cursor EXCEPT !.width = w, !.height = h, !.visible = w > 0 /\ h > 0]
    BY <1>2 DEF Clipped
  <2>2. w \in 0 .. width /\ h \in 0 .. height
    BY <1>2 DEF AtMost
  <2> HIDE DEF clipped, w, h
  <2>3. clipped.width = w /\ clipped.height = h
    BY <2>1
  <2> QED
    BY <2>1, <2>2, <2>3 DEF clipped
<1> QED
  BY <1>1, <1>2

\* MegaRAC: whatever a cursor message says, and whatever the size of the frame it is drawn
\* over, no pixel beyond its pattern and none beyond the frame is read
\* (parse_hardware_cursor_packet, build_cursor_overlay).
THEOREM MegaracCursorInside ==
  ASSUME NEW message, message.x \in Nat, message.y \in Nat,
         message.xOffset \in Nat, message.yOffset \in Nat, NEW cached,
         NEW source, source.width \in Nat, source.height \in Nat,
         NEW frame, frame.width \in Nat, frame.height \in Nat
  PROVE  ReadsInside(MegaracCursor(message, cached, source), frame)
<1> DEFINE xOffset == AtMost(message.xOffset, PatternSize - 1)
           yOffset == AtMost(message.yOffset, PatternSize - 1)
           rest == PatternSize - xOffset
           width == IF message.type = 1 THEN rest ELSE AtMost(rest, Narrow)
           height == PatternSize - yOffset
           pattern == IF message.pattern # NoPattern THEN message.pattern ELSE cached
           cursor == [NoCursor EXCEPT
                        !.type = message.type, !.x = message.x, !.y = message.y,
                        !.xOffset = xOffset, !.yOffset = yOffset,
                        !.patternWidth = PatternSize, !.patternHeight = PatternSize,
                        !.pattern = pattern]
           clipped == Clipped(cursor, width, height, source)
<1>1. /\ PatternSize \in Nat \ {0} /\ xOffset \in 0 .. PatternSize - 1
      /\ yOffset \in 0 .. PatternSize - 1
      /\ width \in Nat /\ width <= PatternSize - xOffset
      /\ height \in Nat /\ height = PatternSize - yOffset
  BY CursorAssumption DEF AtMost
<1>2. MegaracCursor(message, cached, source) = clipped
  BY DEF MegaracCursor
<1> HIDE DEF xOffset, yOffset, width, height, pattern
<1>3. /\ cursor.x = message.x /\ cursor.y = message.y
      /\ cursor.xOffset = xOffset /\ cursor.yOffset = yOffset
      /\ cursor.patternWidth = PatternSize /\ cursor.patternHeight = PatternSize
      /\ {"visible", "width", "height"} \subseteq DOMAIN cursor
  <2>1. DOMAIN cursor = DOMAIN NoCursor
    OBVIOUS
  <2> QED
    BY <2>1 DEF NoCursor
<1> HIDE DEF cursor
<1>4. /\ clipped.x = message.x /\ clipped.y = message.y
      /\ clipped.xOffset = xOffset /\ clipped.yOffset = yOffset
      /\ clipped.patternWidth = PatternSize /\ clipped.patternHeight = PatternSize
      /\ clipped.visible => clipped.width \in 0 .. width /\ clipped.height \in 0 .. height
  BY <1>1, <1>3, ClippedIs
<1> HIDE DEF clipped
<1>5. ReadsInside(clipped, frame)
  BY <1>1, <1>4, InsideIfClipped
<1> QED
  BY <1>2, <1>5

\* ATEN: the same, if a message that has a pattern says how large it is.
THEOREM AtenCursorInside ==
  ASSUME NEW message, message.x \in Nat, message.y \in Nat,
         message.width \in Nat, message.height \in Nat,
         message.pattern # NoPattern => message.width > 0 /\ message.height > 0,
         NEW cached, cached.width \in Nat, cached.height \in Nat,
         cached.pattern # NoPattern => cached.width > 0 /\ cached.height > 0,
         NEW source, source.width \in Nat, source.height \in Nat,
         NEW frame, frame.width \in Nat, frame.height \in Nat
  PROVE  ReadsInside(AtenCursor(message, cached, source), frame)
<1> DEFINE own == message.pattern # NoPattern \/ cached.pattern = NoPattern
           w == IF own THEN message.width ELSE cached.width
           h == IF own THEN message.height ELSE cached.height
           pattern == IF own THEN message.pattern ELSE cached.pattern
           width == IF w > 0 THEN w ELSE Fallback
           height == IF h > 0 THEN h ELSE Fallback
           cursor == [NoCursor EXCEPT
                        !.type = message.type, !.x = message.x, !.y = message.y,
                        !.patternWidth = w, !.patternHeight = h, !.pattern = pattern]
           clipped == Clipped(cursor, width, height, source)
<1>1. /\ w \in Nat /\ h \in Nat /\ width \in Nat /\ height \in Nat
      /\ pattern # NoPattern => width = w /\ height = h
  BY CursorAssumption
<1>2. AtenCursor(message, cached, source) = clipped
  BY DEF AtenCursor
<1> HIDE DEF own, w, h, width, height, pattern
<1>3. /\ cursor.x = message.x /\ cursor.y = message.y
      /\ cursor.xOffset = 0 /\ cursor.yOffset = 0
      /\ cursor.patternWidth = w /\ cursor.patternHeight = h
      /\ cursor.pattern = pattern
      /\ {"visible", "width", "height"} \subseteq DOMAIN cursor
  <2>1. DOMAIN cursor = DOMAIN NoCursor
    OBVIOUS
  <2> QED
    BY <2>1 DEF NoCursor
<1> HIDE DEF cursor
<1>4. /\ clipped.x = message.x /\ clipped.y = message.y
      /\ clipped.xOffset = 0 /\ clipped.yOffset = 0
      /\ clipped.patternWidth = w /\ clipped.patternHeight = h
      /\ clipped.pattern = pattern
      /\ clipped.visible => clipped.width \in 0 .. width /\ clipped.height \in 0 .. height
  BY <1>1, <1>3, ClippedIs
<1> HIDE DEF clipped
<1>5. ReadsInside(clipped, frame)
  BY <1>1, <1>4, InsideIfClipped
<1> QED
  BY <1>2, <1>5

-----------------------------------------------------------------------------
\* Sequences and buffers.

\* A buffer whose offset is in its bytes.
IsBuffer(buffer) ==
  /\ buffer = [bytes |-> buffer.bytes, offset |-> buffer.offset]
  /\ buffer.bytes \in Seq(Nat)
  /\ buffer.offset \in 0 .. Len(buffer.bytes)

\* Part of a sequence.
LEMMA SliceIs ==
  ASSUME NEW S, NEW s \in Seq(S), NEW m \in Nat \ {0}, NEW n \in 0 .. Len(s)
  PROVE  /\ SubSeq(s, m, n) \in Seq(S)
         /\ Len(SubSeq(s, m, n)) = IF m <= n THEN n - m + 1 ELSE 0
         /\ \A i \in 1 .. n - m + 1 : SubSeq(s, m, n)[i] = s[m + i - 1]
<1>1. \A i \in m .. n : s[i] \in S
  OBVIOUS
<1> QED
  BY <1>1, SubSeqProperties

\* What lies in the first of two sequences that are joined.
LEMMA SliceOfFirst ==
  ASSUME NEW S, NEW s \in Seq(S), NEW t \in Seq(S),
         NEW m \in Nat \ {0}, NEW n \in 0 .. Len(s)
  PROVE  SubSeq(s \o t, m, n) = SubSeq(s, m, n)
<1>1. /\ s \o t \in Seq(S) /\ Len(s \o t) = Len(s) + Len(t)
      /\ \A i \in 1 .. Len(s) : (s \o t)[i] = s[i]
  BY ConcatProperties
<1>2. n \in 0 .. Len(s \o t)
  BY <1>1
<1>3. \A i \in 1 .. n - m + 1 : m + i - 1 \in 1 .. Len(s)
  OBVIOUS
<1> QED
  BY <1>1, <1>2, <1>3, SliceIs, SeqEqual

\* What is left of two sequences that are joined, from somewhere in the first.
LEMMA SliceToEnd ==
  ASSUME NEW S, NEW s \in Seq(S), NEW t \in Seq(S), NEW n \in 0 .. Len(s)
  PROVE  SubSeq(s \o t, n + 1, Len(s \o t)) = SubSeq(s, n + 1, Len(s)) \o t
<1> DEFINE u == s \o t
           l == SubSeq(u, n + 1, Len(u))
           f == SubSeq(s, n + 1, Len(s))
           r == f \o t
<1>1. /\ u \in Seq(S) /\ Len(u) = Len(s) + Len(t)
      /\ \A i \in 1 .. Len(s) + Len(t) : u[i] = IF i <= Len(s) THEN s[i] ELSE t[i - Len(s)]
  BY ConcatProperties
<1>2. Len(s) \in Nat /\ Len(t) \in Nat /\ n + 1 \in Nat \ {0}
  OBVIOUS
<1> HIDE DEF u
<1>3. /\ l \in Seq(S) /\ Len(l) = Len(u) - n /\ \A i \in 1 .. Len(u) - n : l[i] = u[n + i]
  BY <1>1, <1>2, SliceIs
<1>4. /\ f \in Seq(S) /\ Len(f) = Len(s) - n /\ \A i \in 1 .. Len(s) - n : f[i] = s[n + i]
  BY <1>2, SliceIs
<1> HIDE DEF l, f
<1>5. /\ r \in Seq(S) /\ Len(r) = Len(f) + Len(t)
      /\ \A i \in 1 .. Len(f) + Len(t) : r[i] = IF i <= Len(f) THEN f[i] ELSE t[i - Len(f)]
  BY <1>4, ConcatProperties
<1> HIDE DEF r
<1>6. ASSUME NEW i \in 1 .. Len(l) PROVE l[i] = r[i]
  <2>1. i \in 1 .. Len(u) - n /\ n + i \in 1 .. Len(s) + Len(t) /\ l[i] = u[n + i]
    BY <1>1, <1>2, <1>3
  <2>2. CASE n + i <= Len(s)
    <3>1. l[i] = s[n + i]
      BY <2>1, <2>2, <1>1
    <3>2. i \in 1 .. Len(s) - n /\ i <= Len(f) /\ i \in 1 .. Len(f) + Len(t)
      BY <2>1, <2>2, <1>1, <1>2, <1>4
    <3>3. f[i] = s[n + i] /\ r[i] = f[i]
      BY <3>2, <1>4, <1>5
    <3> QED BY <3>1, <3>3
  <2>3. CASE ~(n + i <= Len(s))
    <3>1. l[i] = t[n + i - Len(s)]
      BY <2>1, <2>3, <1>1
    <3>2. i \in 1 .. Len(f) + Len(t) /\ ~(i <= Len(f)) /\ r[i] = t[i - Len(f)]
      <4>1. Len(f) \in Nat /\ Len(f) = Len(s) - n /\ i \in Nat \ {0} /\ n \in Nat
        BY <2>1, <1>2, <1>4
      <4>2. n + i \in 1 .. Len(s) + Len(t) /\ ~(n + i <= Len(s))
        BY <2>1, <2>3
      <4>3. i \in 1 .. Len(f) + Len(t) /\ ~(i <= Len(f))
        BY <4>1, <4>2, <1>2
      <4> QED BY <4>3, <1>5
    <3>3. i - Len(f) = n + i - Len(s)
      BY <1>4, <1>2
    <3> QED BY <3>1, <3>2, <3>3
  <2> QED BY <2>2, <2>3
<1>7. Len(l) = Len(r)
  BY <1>1, <1>2, <1>3, <1>4, <1>5
<1>8. l = r
  BY <1>3, <1>5, <1>6, <1>7, SeqEqual
<1> QED BY <1>8 DEF u, l, r, f

\* What is left behind the first.
LEMMA SliceOfSecond ==
  ASSUME NEW S, NEW s \in Seq(S), NEW t \in Seq(S)
  PROVE  SubSeq(s \o t, Len(s) + 1, Len(s \o t)) = t
<1>1. Len(s) \in 0 .. Len(s)
  OBVIOUS
<1>2. SubSeq(s, Len(s) + 1, Len(s)) = <<>>
  BY SubSeqEmpty
<1>3. <<>> \o t = t
  BY ConcatEmptySeq
<1> QED
  BY <1>1, <1>2, <1>3, SliceToEnd

\* A sequence that is cut in two.
LEMMA CutIs ==
  ASSUME NEW S, NEW s \in Seq(S), NEW n \in 0 .. Len(s)
  PROVE  /\ SubSeq(s, 1, n) \in Seq(S) /\ Len(SubSeq(s, 1, n)) = n
         /\ SubSeq(s, n + 1, Len(s)) \in Seq(S)
         /\ Len(SubSeq(s, n + 1, Len(s))) = Len(s) - n
         /\ SubSeq(s, 1, n) \o SubSeq(s, n + 1, Len(s)) = s
<1>1. n + 1 \in Nat \ {0} /\ Len(s) \in 0 .. Len(s) /\ Len(s) \in Nat
  OBVIOUS
<1>4. /\ SubSeq(s, 1, n) \in Seq(S) /\ Len(SubSeq(s, 1, n)) = n
  BY <1>1, SliceIs
<1>5. /\ SubSeq(s, n + 1, Len(s)) \in Seq(S)
      /\ Len(SubSeq(s, n + 1, Len(s))) = Len(s) - n
  BY <1>1, SliceIs
<1> DEFINE f == SubSeq(s, 1, n)
           r == SubSeq(s, n + 1, Len(s))
           c == f \o r
<1>6. \A i \in 1 .. n : f[i] = s[i]
  BY <1>1, SliceIs
<1>7. \A i \in 1 .. Len(s) - n : r[i] = s[n + i]
  BY <1>1, SliceIs
<1> HIDE DEF f, r
<1>8. /\ c \in Seq(S) /\ Len(c) = Len(f) + Len(r)
      /\ \A i \in 1 .. Len(f) + Len(r) : c[i] = IF i <= Len(f) THEN f[i] ELSE r[i - Len(f)]
  BY <1>4, <1>5, ConcatProperties DEF f, r
<1> HIDE DEF c
<1>9. Len(f) = n /\ Len(r) = Len(s) - n
  BY <1>4, <1>5 DEF f, r
<1>10. ASSUME NEW i \in 1 .. Len(s) PROVE c[i] = s[i]
  <2>1. CASE i <= n
    BY <2>1, <1>1, <1>6, <1>8, <1>9
  <2>2. CASE ~(i <= n)
    <3>1. i - n \in 1 .. Len(s) - n /\ n + (i - n) = i
      BY <2>2, <1>1
    <3>2. r[i - n] = s[i]
      BY <3>1, <1>7
    <3>3. i \in 1 .. Len(f) + Len(r) /\ ~(i <= Len(f)) /\ i - Len(f) = i - n
      BY <2>2, <1>1, <1>9
    <3> QED BY <3>2, <3>3, <1>8
  <2> QED BY <2>1, <2>2
<1>11. c = s
  <2>1. Len(c) = Len(s)
    BY <1>1, <1>8, <1>9
  <2> QED BY <2>1, <1>8, <1>10, SeqEqual
<1> QED BY <1>4, <1>5, <1>11 DEF c, f, r

\* What is left of a sequence behind some of it.
LEMMA RestIs ==
  ASSUME NEW S, NEW s \in Seq(S), NEW n \in 0 .. Len(s)
  PROVE  /\ SubSeq(s, n + 1, Len(s)) \in Seq(S)
         /\ Len(SubSeq(s, n + 1, Len(s))) = Len(s) - n
         /\ \A i \in 1 .. Len(s) - n : SubSeq(s, n + 1, Len(s))[i] = s[n + i]
<1>1. n + 1 \in Nat \ {0} /\ Len(s) \in 0 .. Len(s) /\ Len(s) \in Nat
  OBVIOUS
<1> QED BY <1>1, SliceIs

\* What a buffer says of its bytes, it says of those that are still to be parsed.
LEMMA UnreadIs ==
  ASSUME NEW buffer, IsBuffer(buffer)
  PROVE  /\ Unread(buffer) \in Seq(Nat)
         /\ Len(Unread(buffer)) = Buffered(buffer)
         /\ Buffered(buffer) \in Nat
         /\ \A n : CanRead(buffer, n) <=> n \in 0 .. Len(Unread(buffer))
         /\ \A i \in 0 .. Buffered(buffer) - 1 : Byte(buffer, i) = Unread(buffer)[i + 1]
<1>1. /\ buffer.bytes \in Seq(Nat) /\ buffer.offset + 1 \in Nat \ {0}
      /\ Len(buffer.bytes) \in 0 .. Len(buffer.bytes) /\ buffer.offset \in Nat
      /\ buffer.offset <= Len(buffer.bytes) /\ Len(buffer.bytes) \in Nat
  BY DEF IsBuffer
<1>2. /\ Unread(buffer) \in Seq(Nat)
      /\ Len(Unread(buffer)) = Buffered(buffer)
      /\ \A i \in 1 .. Buffered(buffer) : Unread(buffer)[i] = buffer.bytes[buffer.offset + i]
  BY <1>1, RestIs DEF Unread, Buffered, IsBuffer
<1>3. Buffered(buffer) \in Nat
  BY <1>1 DEF Buffered
<1>4. ASSUME NEW i \in 0 .. Buffered(buffer) - 1 PROVE Byte(buffer, i) = Unread(buffer)[i + 1]
  <2> DEFINE o == buffer.offset
             k == Buffered(buffer)
  <2>1. i + 1 \in 1 .. k /\ o + (i + 1) = o + i + 1
    <3>1. o \in Nat /\ k \in Nat /\ i \in 0 .. k - 1
      BY <1>1, <1>3
    <3> HIDE DEF o, k
    <3> QED BY <3>1
  <2>2. Unread(buffer)[i + 1] = buffer.bytes[buffer.offset + (i + 1)]
    BY <2>1, <1>2
  <2> QED BY <2>1, <2>2 DEF Byte
<1> QED BY <1>2, <1>3, <1>4 DEF CanRead

\* Part of a buffer is part of what is still to be parsed.
LEMMA SliceUnread ==
  ASSUME NEW buffer, IsBuffer(buffer), NEW i \in Nat, NEW n \in Nat,
         i + n <= Buffered(buffer)
  PROVE  Slice(buffer, i, n) = SubSeq(Unread(buffer), i + 1, i + n)
<1>1. /\ buffer.bytes \in Seq(Nat) /\ buffer.offset \in Nat
      /\ buffer.offset + i + n \in 0 .. Len(buffer.bytes) /\ buffer.offset + i + 1 \in Nat \ {0}
  BY DEF IsBuffer, Buffered
<1>2. /\ Unread(buffer) \in Seq(Nat) /\ i + n \in 0 .. Len(Unread(buffer))
      /\ \A j \in 0 .. Buffered(buffer) - 1 : Byte(buffer, j) = Unread(buffer)[j + 1]
      /\ Buffered(buffer) \in Nat
  BY UnreadIs
<1> DEFINE l == Slice(buffer, i, n)
           r == SubSeq(Unread(buffer), i + 1, i + n)
<1>3. /\ l \in Seq(Nat) /\ Len(l) = n
      /\ \A j \in 1 .. n : l[j] = buffer.bytes[buffer.offset + i + 1 + j - 1]
  <2> DEFINE b == buffer.bytes
             from == buffer.offset + i + 1
             to == buffer.offset + i + n
  <2>1. l = SubSeq(b, from, to)
    BY DEF Slice
  <2>2. b \in Seq(Nat) /\ from \in Nat \ {0} /\ to \in 0 .. Len(b) /\ to = from + n - 1
    BY <1>1
  <2> HIDE DEF l, b, from, to
  <2>3. /\ l \in Seq(Nat) /\ Len(l) = IF from <= to THEN to - from + 1 ELSE 0
        /\ \A j \in 1 .. to - from + 1 : l[j] = b[from + j - 1]
    BY <2>1, <2>2, SliceIs
  <2>4. Len(l) = n /\ to - from + 1 = n
    BY <2>2, <2>3
  <2> QED BY <2>3, <2>4 DEF b, from
<1>4. /\ r \in Seq(Nat) /\ Len(r) = n
      /\ \A j \in 1 .. n : r[j] = Unread(buffer)[i + 1 + j - 1]
  BY <1>2, SliceIs
<1>5. ASSUME NEW j \in 1 .. n PROVE l[j] = r[j]
  <2>1. i + j - 1 \in 0 .. Buffered(buffer) - 1
    BY <1>2
  <2>2. Byte(buffer, i + j - 1) = Unread(buffer)[i + j - 1 + 1]
    BY <2>1, <1>2
  <2>3. /\ i + j - 1 + 1 = i + 1 + j - 1
        /\ buffer.offset + (i + j - 1) + 1 = buffer.offset + i + 1 + j - 1
    BY <1>1
  <2> QED BY <2>2, <2>3, <1>3, <1>4 DEF Byte
<1> HIDE DEF l, r
<1>6. l = r
  BY <1>3, <1>4, <1>5, SeqEqual
<1> QED BY <1>6 DEF l, r

\* What each operation of a buffer does to the bytes that are still to be parsed.
LEMMA AppendedIs ==
  ASSUME NEW buffer, IsBuffer(buffer), NEW bytes \in Seq(Nat)
  PROVE  /\ IsBuffer(Appended(buffer, bytes))
         /\ Unread(Appended(buffer, bytes)) = Unread(buffer) \o bytes
<1>1. /\ buffer.bytes \in Seq(Nat) /\ buffer.offset \in 0 .. Len(buffer.bytes)
      /\ Len(buffer.bytes) \in Nat /\ Len(bytes) \in Nat
  BY DEF IsBuffer
<1>2. Appended(buffer, bytes) = [bytes |-> buffer.bytes \o bytes, offset |-> buffer.offset]
  <2> DEFINE b == buffer.bytes
             o == buffer.offset
             c == b \o bytes
  <2>1. buffer = [bytes |-> b, offset |-> o]
    BY DEF IsBuffer
  <2>2. Appended(buffer, bytes) = [buffer EXCEPT !.bytes = c]
    BY DEF Appended
  <2> HIDE DEF b, o, c
  <2>3. [buffer EXCEPT !.bytes = c] = [bytes |-> c, offset |-> o]
    BY <2>1
  <2> QED BY <2>2, <2>3 DEF b, o, c
<1>3. /\ buffer.bytes \o bytes \in Seq(Nat)
      /\ Len(buffer.bytes \o bytes) = Len(buffer.bytes) + Len(bytes)
  BY <1>1, ConcatProperties
<1>4. IsBuffer(Appended(buffer, bytes))
  BY <1>1, <1>2, <1>3 DEF IsBuffer
<1>5. Unread(Appended(buffer, bytes)) = Unread(buffer) \o bytes
  <2> DEFINE b == buffer.bytes
             o == buffer.offset
  <2>1. b \in Seq(Nat) /\ o \in 0 .. Len(b)
    BY <1>1
  <2>2. /\ Unread(Appended(buffer, bytes)) = SubSeq(b \o bytes, o + 1, Len(b \o bytes))
        /\ Unread(buffer) = SubSeq(b, o + 1, Len(b))
    <3>1. Appended(buffer, bytes).bytes = b \o bytes /\ Appended(buffer, bytes).offset = o
      BY <1>2
    <3> QED BY <3>1 DEF Unread
  <2> HIDE DEF b, o
  <2> QED BY <2>1, <2>2, SliceToEnd
<1> QED BY <1>4, <1>5

\* Erasing what was parsed loses nothing else.
LEMMA ErasedIs ==
  ASSUME NEW buffer, IsBuffer(buffer)
  PROVE  IsBuffer(Erased(buffer)) /\ Unread(Erased(buffer)) = Unread(buffer)
<1>1. Unread(buffer) \in Seq(Nat) /\ Len(Unread(buffer)) \in Nat
  BY UnreadIs
<1>2. Erased(buffer).bytes = Unread(buffer) /\ Erased(buffer).offset = 0
  BY DEF Erased
<1>3. IsBuffer(Erased(buffer))
  BY <1>1 DEF IsBuffer, Erased
<1>4. Unread(Erased(buffer)) = SubSeq(Unread(buffer), 1, Len(Unread(buffer)))
  BY <1>2 DEF Unread
<1> QED BY <1>1, <1>3, <1>4, SubSeqFull

\* Compacting loses nothing.
LEMMA CompactIs ==
  ASSUME NEW buffer, IsBuffer(buffer)
  PROVE  /\ IsBuffer(MegaracCompact(buffer)) /\ Unread(MegaracCompact(buffer)) = Unread(buffer)
         /\ IsBuffer(AtenCompact(buffer)) /\ Unread(AtenCompact(buffer)) = Unread(buffer)
  BY ErasedIs DEF MegaracCompact, AtenCompact

\* Parsing on loses what was parsed and no more.
LEMMA ConsumedIs ==
  ASSUME NEW buffer, IsBuffer(buffer), NEW n \in 0 .. Buffered(buffer)
  PROVE  LET rest == SubSeq(Unread(buffer), n + 1, Len(Unread(buffer)))
         IN  /\ IsBuffer(MegaracConsumed(buffer, n)) /\ Unread(MegaracConsumed(buffer, n)) = rest
             /\ IsBuffer(AtenConsumed(buffer, n)) /\ Unread(AtenConsumed(buffer, n)) = rest
<1> DEFINE moved == [buffer EXCEPT !.offset = @ + n]
           rest == SubSeq(Unread(buffer), n + 1, Len(Unread(buffer)))
           from == buffer.offset + n
<1>1. /\ buffer.bytes \in Seq(Nat) /\ buffer.offset \in 0 .. Len(buffer.bytes)
      /\ Len(buffer.bytes) \in Nat /\ buffer.offset \in Nat
      /\ Buffered(buffer) = Len(buffer.bytes) - buffer.offset /\ from \in 0 .. Len(buffer.bytes)
  BY DEF IsBuffer, Buffered
<1>2. moved = [bytes |-> buffer.bytes, offset |-> from]
  BY DEF IsBuffer
<1>3. IsBuffer(moved)
  BY <1>1, <1>2 DEF IsBuffer
<1>4. Unread(moved) = rest
  <2> DEFINE u == Unread(buffer)
             v == Unread(moved)
  <2> DEFINE b == buffer.bytes
             o == buffer.offset
  <2>1. u = SubSeq(b, o + 1, Len(b)) /\ v = SubSeq(b, from + 1, Len(b))
    BY <1>2 DEF Unread
  <2>2. b \in Seq(Nat) /\ o \in 0 .. Len(b) /\ from \in 0 .. Len(b) /\ from = o + n
        /\ Len(b) \in Nat
    BY <1>1
  <2> HIDE DEF u, v, moved, b, o, from
  <2>3. /\ u \in Seq(Nat) /\ Len(u) = Len(b) - o
        /\ \A i \in 1 .. Len(b) - o : u[i] = b[o + i]
    BY <2>1, <2>2, RestIs
  <2>4. /\ v \in Seq(Nat) /\ Len(v) = Len(b) - from
        /\ \A i \in 1 .. Len(b) - from : v[i] = b[from + i]
    BY <2>1, <2>2, RestIs
  <2> DEFINE w == SubSeq(u, n + 1, Len(u))
  <2>5. n \in 0 .. Len(u)
    BY <2>2, <2>3
  <2>6. /\ w \in Seq(Nat) /\ Len(w) = Len(u) - n
        /\ \A i \in 1 .. Len(u) - n : w[i] = u[n + i]
    BY <2>3, <2>5, RestIs
  <2> HIDE DEF w
  <2>8. Len(w) = Len(v)
    BY <2>2, <2>3, <2>4, <2>6
  <2>9. ASSUME NEW i \in 1 .. Len(v) PROVE v[i] = w[i]
    <3>1. n \in Nat /\ o \in Nat /\ i \in Nat /\ i >= 1 /\ i <= Len(b) - from
      BY <2>2, <2>4
    <3>2. Len(u) - n = Len(b) - from
      BY <3>1, <2>2, <2>3
    <3>3. /\ i \in 1 .. Len(u) - n /\ i \in 1 .. Len(b) - from /\ n + i \in 1 .. Len(b) - o
          /\ o + (n + i) = from + i
      BY <3>1, <3>2, <2>2
    <3>4. w[i] = u[n + i] /\ v[i] = b[from + i] /\ u[n + i] = b[o + (n + i)]
      BY <3>3, <2>3, <2>4, <2>6
    <3> QED BY <3>3, <3>4
  <2>7. v = w
    BY <2>4, <2>6, <2>8, <2>9, SeqEqual
  <2> QED BY <2>7 DEF u, v, w
<1> HIDE DEF moved
<1>5. /\ MegaracConsumed(buffer, n) = MegaracCompact(moved)
      /\ AtenConsumed(buffer, n) = AtenCompact(moved)
  BY DEF MegaracConsumed, AtenConsumed, moved
<1> QED BY <1>3, <1>4, <1>5, CompactIs

\* Nothing is to be parsed in a new buffer.
LEMMA EmptyIs == IsBuffer(EmptyBuffer) /\ Unread(EmptyBuffer) = <<>>
<1>1. EmptyBuffer.bytes = <<>> /\ EmptyBuffer.offset = 0 /\ Len(<<>>) = 0 /\ <<>> \in Seq(Nat)
  BY DEF EmptyBuffer
<1>2. IsBuffer(EmptyBuffer)
  BY <1>1 DEF IsBuffer, EmptyBuffer
<1> QED BY <1>1, <1>2, SubSeqEmpty DEF Unread

-----------------------------------------------------------------------------
\* The MegaRAC stream.

\* What is read of the header of a packet.
LEMMA PacketHeader ==
  ASSUME NEW type \in Nat, NEW payload \in Seq(Nat), NEW rest \in Seq(Nat)
  PROVE  LET all == Packet(type, payload) \o rest
         IN  all[1] = type /\ all[2] = Len(payload)
<1> DEFINE packet == Packet(type, payload)
<1>1. packet \in Seq(Nat) /\ Len(packet) >= 2 /\ packet[1] = type /\ packet[2] = Len(payload)
  BY DEF Packet
<1> HIDE DEF packet
<1>2. (packet \o rest)[1] = packet[1] /\ (packet \o rest)[2] = packet[2]
  BY <1>1
<1> QED
  BY <1>1, <1>2 DEF packet

\* A packet at the front of a stream.
LEMMA PacketIs ==
  ASSUME NEW type \in Nat, NEW payload \in Seq(Nat), NEW rest \in Seq(Nat)
  PROVE  LET all == Packet(type, payload) \o rest
         IN  /\ Packet(type, payload) \in Seq(Nat)
             /\ Len(Packet(type, payload)) = MegaracHeader + Len(payload)
             /\ all \in Seq(Nat) /\ Len(all) = Len(Packet(type, payload)) + Len(rest)
             /\ SubSeq(all, MegaracHeader + 1, Len(Packet(type, payload))) = payload
             /\ SubSeq(all, Len(Packet(type, payload)) + 1, Len(all)) = rest
<1> DEFINE head == <<type, Len(payload)>>
           packet == Packet(type, payload)
           all == packet \o rest
<1>1. /\ head \in Seq(Nat) /\ Len(head) = 2 /\ head[1] = type /\ head[2] = Len(payload)
      /\ Len(payload) \in Nat /\ Len(rest) \in Nat
  OBVIOUS
<1>2. packet = head \o payload
  BY DEF Packet
<1> HIDE DEF head, packet
<1>3. /\ packet \in Seq(Nat) /\ Len(packet) = 2 + Len(payload)
      /\ packet[1] = type /\ packet[2] = Len(payload)
  <2>1. /\ packet \in Seq(Nat) /\ Len(packet) = Len(head) + Len(payload)
        /\ \A i \in 1 .. Len(head) + Len(payload) :
             packet[i] = IF i <= Len(head) THEN head[i] ELSE payload[i - Len(head)]
    <3> DEFINE c == head \o payload
    <3>1. /\ c \in Seq(Nat) /\ Len(c) = Len(head) + Len(payload)
          /\ \A i \in 1 .. Len(head) + Len(payload) :
               c[i] = IF i <= Len(head) THEN head[i] ELSE payload[i - Len(head)]
      BY <1>1, ConcatProperties
    <3> HIDE DEF c
    <3> QED BY <1>2, <3>1 DEF c
  <2>2. 1 \in 1 .. Len(head) + Len(payload) /\ 2 \in 1 .. Len(head) + Len(payload)
    BY <1>1
  <2> QED BY <1>1, <2>1, <2>2
<1>4. /\ all \in Seq(Nat) /\ Len(all) = Len(packet) + Len(rest)
      /\ \A i \in 1 .. Len(packet) : all[i] = packet[i]
  <2>1. /\ all \in Seq(Nat) /\ Len(all) = Len(packet) + Len(rest)
        /\ \A i \in 1 .. Len(packet) + Len(rest) :
             all[i] = IF i <= Len(packet) THEN packet[i] ELSE rest[i - Len(packet)]
    <3>1. packet \in Seq(Nat) /\ rest \in Seq(Nat)
      BY <1>3
    <3> QED BY <3>1, ConcatProperties
  <2> QED BY <1>1, <1>3, <2>1
<1>6. SubSeq(packet, MegaracHeader + 1, Len(packet)) = payload
  <2>1. MegaracHeader + 1 = Len(head) + 1
    BY <1>1 DEF MegaracHeader
  <2> QED BY <1>1, <1>2, <2>1, SliceOfSecond
<1>7. SubSeq(all, MegaracHeader + 1, Len(packet)) = payload
  <2>1. MegaracHeader + 1 \in Nat \ {0} /\ Len(packet) \in 0 .. Len(packet)
    BY <1>1, <1>3 DEF MegaracHeader
  <2> QED BY <1>3, <1>6, <2>1, SliceOfFirst
<1>8. SubSeq(all, Len(packet) + 1, Len(all)) = rest
  BY <1>3, SliceOfSecond
<1>9. Len(packet) = MegaracHeader + Len(payload)
  BY <1>3 DEF MegaracHeader
<1> QED BY <1>3, <1>4, <1>7, <1>8, <1>9 DEF packet

\* What a prefix is, element by element.
LEMMA PrefixIs ==
  ASSUME NEW S, NEW s \in Seq(S), NEW t \in Seq(S)
  PROVE  IsPrefix(s, t) <=> Len(s) <= Len(t) /\ \A i \in 1 .. Len(s) : s[i] = t[i]
<1>1. ASSUME Len(s) <= Len(t)
      PROVE  SubSeq(s, 1, Len(s)) = SubSeq(t, 1, Len(s)) <=> \A i \in 1 .. Len(s) : s[i] = t[i]
  <2>1. /\ Len(s) \in 0 .. Len(s) /\ Len(s) \in 0 .. Len(t) /\ Len(s) \in Nat /\ Len(t) \in Nat
        /\ 1 \in Nat \ {0}
    BY <1>1
  <2>2. SubSeq(s, 1, Len(s)) = s
    BY SubSeqFull
  <2> DEFINE u == SubSeq(t, 1, Len(s))
  <2>3. /\ u \in Seq(S) /\ Len(u) = Len(s)
        /\ \A i \in 1 .. Len(s) : u[i] = t[i]
    BY <2>1, SliceIs
  <2> HIDE DEF u
  <2>4. s = u <=> \A i \in 1 .. Len(s) : s[i] = u[i]
    BY <2>3, SeqEqual
  <2>5. s = u <=> \A i \in 1 .. Len(s) : s[i] = t[i]
    BY <2>3, <2>4
  <2> QED BY <2>2, <2>5 DEF u
<1> QED BY <1>1 DEF IsPrefix

\* A sequence that grows still begins as it did.
LEMMA PrefixGrows ==
  ASSUME NEW S, NEW s \in Seq(S), NEW t \in Seq(S), NEW e \in S, IsPrefix(s, t)
  PROVE  IsPrefix(s, Append(t, e))
<1>1. Len(s) <= Len(t) /\ \A i \in 1 .. Len(s) : s[i] = t[i]
  BY PrefixIs
<1>2. /\ Append(t, e) \in Seq(S) /\ Len(Append(t, e)) = Len(t) + 1
      /\ \A i \in 1 .. Len(t) : Append(t, e)[i] = t[i]
  BY AppendProperties
<1>3. Len(s) \in Nat /\ Len(t) \in Nat
  OBVIOUS
<1>4. \A i \in 1 .. Len(s) : i \in 1 .. Len(t)
  BY <1>1, <1>3
<1>5. Len(s) <= Len(Append(t, e)) /\ \A i \in 1 .. Len(s) : s[i] = Append(t, e)[i]
  BY <1>1, <1>2, <1>3, <1>4
<1> QED BY <1>2, <1>5, PrefixIs

\* A sequence begins with itself.
LEMMA PrefixSelf ==
  ASSUME NEW S, NEW s \in Seq(S) PROVE IsPrefix(s, s)
  BY PrefixIs

-----------------------------------------------------------------------------
\* A MegaRAC session and what is still to come over its connection: the bytes, the frames
\* that are out, the frame in fragments and the cursor's pattern.
Frames == Seq(Seq(Nat))

\* The frame in fragments, if there is one.
Partial == {<<>>} \cup {<<frame>> : frame \in [size : Nat, data : Seq(Nat)]}

\* What a session may come to hold, with the bytes that are to come by then.
Prospects == [stream : Seq(Nat), frames : Frames, current : Partial, pattern : Nat]

\* What the session holds and what is to come.
Here ==
  [stream |-> Unread(mBuffer) \o mWire, frames |-> mFrames, current |-> assembler,
   pattern |-> mPattern]

\* What handling a packet makes of the frame in fragments and of the frames, and of the
\* pattern.
FrameTaken(s, t, payload) ==
  LET frame == Assembled(s.current, payload)
  IN  /\ ~Refuses(s.current, payload)
      /\ IF Len(frame.data) < frame.size
         THEN t.current = <<frame>> /\ t.frames = s.frames
         ELSE /\ t.current = <<>>
              /\ t.frames = IF Supported(frame.data) THEN Append(s.frames, frame.data)
                            ELSE s.frames
      /\ t.pattern = s.pattern

\* And handling a cursor.
CursorTaken(s, t, payload) ==
  /\ t.current = s.current
  /\ t.frames = s.frames
  /\ t.pattern = IF Len(payload) > 1 /\ payload[2] # NoPattern THEN payload[2] ELSE s.pattern

\* One prospect is another after its first packet has been handled.
Taken(s, t) ==
  \E type \in {VideoType, CursorType}, payload \in Seq(Nat) :
    /\ Len(payload) < TooLarge
    /\ s.stream = Packet(type, payload) \o t.stream
    /\ IF type = VideoType THEN FrameTaken(s, t, payload) ELSE CursorTaken(s, t, payload)

\* The first packet is one that the viewer refuses.
Refused(s) ==
  \/ Len(s.stream) >= MegaracHeader /\ s.stream[2] >= TooLarge
  \/ \E payload \in Seq(Nat) :
       s.stream = Packet(VideoType, payload) /\ Refuses(s.current, payload)

\* All has been handled but what breaks the protocol, and the viewer is where the BMC is.
Sent(s) ==
  /\ IF bmcBroken THEN Refused(s) ELSE s.stream = <<>>
  /\ s.pattern = bmcPattern
  /\ IF bmcRest = <<>> THEN s.current = <<>> /\ s.frames = bmcFrames
     ELSE \E data \in Seq(Nat) :
            /\ Len(data) + Len(bmcRest) < TooLarge - 2
            /\ s.current = <<[size |-> Len(data) + Len(bmcRest), data |-> data]>>
            /\ bmcFrames = IF Supported(data \o bmcRest) THEN Append(s.frames, data \o bmcRest)
                           ELSE s.frames

\* From each of the prospects the next, one packet after the other, until all is handled.
Path(prospects) ==
  \A s \in prospects :
    /\ IsPrefix(s.frames, bmcFrames)
    /\ Sent(s) \/ \E t \in prospects : Taken(s, t)

\* The invariant of the MegaRAC stream.
StreamInv ==
  /\ IsBuffer(mBuffer)
  /\ mWire \in Seq(Nat)
  /\ mSource \in [width : Nat, height : Nat]
  /\ mFrames \in Frames /\ assembler \in Partial /\ mPattern \in Nat
  /\ bmcFrames \in Frames /\ bmcRest \in Seq(Nat) /\ bmcPattern \in Nat
  /\ bmcBroken \in BOOLEAN
  /\ mReading => ~PacketThere
  /\ mFailed => bmcBroken
  /\ mCursor # NoCursor => mCursor.pattern = mPattern
  /\ \A w, h \in Nat : ReadsInside(mCursor, [width |-> w, height |-> h])
  /\ \E prospects \in SUBSET Prospects : Here \in prospects /\ Path(prospects)

-----------------------------------------------------------------------------
\* The header in the buffer is that of the stream.
LEMMA HeaderIs ==
  ASSUME IsBuffer(mBuffer), mWire \in Seq(Nat), CanRead(mBuffer, MegaracHeader)
  PROVE  LET stream == Unread(mBuffer) \o mWire
         IN  /\ stream \in Seq(Nat) /\ Len(stream) >= MegaracHeader
             /\ Byte(mBuffer, 0) = stream[1] /\ PayloadSize = stream[2]
<1> DEFINE u == Unread(mBuffer)
           stream == u \o mWire
<1>1. /\ u \in Seq(Nat) /\ Len(u) = Buffered(mBuffer) /\ Buffered(mBuffer) \in Nat
      /\ MegaracHeader \in 0 .. Len(u)
      /\ \A i \in 0 .. Buffered(mBuffer) - 1 : Byte(mBuffer, i) = u[i + 1]
  BY UnreadIs
<1> HIDE DEF u
<1>2. Len(mWire) \in Nat /\ Len(u) \in Nat /\ Len(u) >= 2
  BY <1>1 DEF MegaracHeader
<1>3. Byte(mBuffer, 0) = u[1] /\ Byte(mBuffer, 1) = u[2]
  <2>1. 0 \in 0 .. Buffered(mBuffer) - 1 /\ 1 \in 0 .. Buffered(mBuffer) - 1
    BY <1>1, <1>2
  <2>2. Byte(mBuffer, 0) = u[0 + 1] /\ Byte(mBuffer, 1) = u[1 + 1]
    BY <1>1, <2>1
  <2> QED BY <2>2
<1>4. /\ stream \in Seq(Nat) /\ Len(stream) = Len(u) + Len(mWire)
      /\ \A i \in 1 .. Len(u) + Len(mWire) :
           stream[i] = IF i <= Len(u) THEN u[i] ELSE mWire[i - Len(u)]
  BY <1>1, ConcatProperties
<1> HIDE DEF stream
<1>5. stream[1] = u[1] /\ stream[2] = u[2] /\ Len(stream) >= 2
  BY <1>2, <1>4
<1> QED BY <1>3, <1>4, <1>5 DEF stream, u, PayloadSize, MegaracHeader

\* And so is the packet, once it is there.
LEMMA PacketFound ==
  ASSUME IsBuffer(mBuffer), mWire \in Seq(Nat), PacketThere,
         NEW type \in Nat, NEW payload \in Seq(Nat), NEW rest \in Seq(Nat),
         Unread(mBuffer) \o mWire = Packet(type, payload) \o rest
  PROVE  /\ Byte(mBuffer, 0) = type /\ PayloadSize = Len(payload) /\ Payload = payload
         /\ IsBuffer(MegaracConsumed(mBuffer, PacketSize))
         /\ Unread(MegaracConsumed(mBuffer, PacketSize)) \o mWire = rest
<1> DEFINE u == Unread(mBuffer)
           packet == Packet(type, payload)
           stream == packet \o rest
<1>1. /\ packet \in Seq(Nat) /\ Len(packet) = MegaracHeader + Len(payload)
      /\ stream \in Seq(Nat) /\ stream[1] = type /\ stream[2] = Len(payload)
      /\ SubSeq(stream, MegaracHeader + 1, Len(packet)) = payload
      /\ SubSeq(stream, Len(packet) + 1, Len(stream)) = rest
  <2>1. packet \in Seq(Nat) /\ Len(packet) = MegaracHeader + Len(payload)
    BY PacketIs
  <2>2. stream \in Seq(Nat)
    BY PacketIs
  <2>5. stream[1] = type /\ stream[2] = Len(payload)
    BY PacketHeader
  <2>3. SubSeq(stream, MegaracHeader + 1, Len(packet)) = payload
    BY PacketIs
  <2>4. SubSeq(stream, Len(packet) + 1, Len(stream)) = rest
    BY PacketIs
  <2> HIDE DEF packet, stream
  <2> QED BY <2>1, <2>2, <2>3, <2>4, <2>5
<1>2. CanRead(mBuffer, MegaracHeader) /\ CanRead(mBuffer, PacketSize)
  BY DEF PacketThere
<1>3. Byte(mBuffer, 0) = type /\ PayloadSize = Len(payload)
  BY <1>1, <1>2, HeaderIs
<1>4. PacketSize = Len(packet) /\ Len(payload) \in Nat
  BY <1>1, <1>3 DEF PacketSize
<1>5. /\ u \in Seq(Nat) /\ Len(u) = Buffered(mBuffer) /\ Buffered(mBuffer) \in Nat
      /\ Len(packet) \in 0 .. Len(u)
  BY <1>2, <1>4, UnreadIs
<1>6. u \o mWire = stream
  OBVIOUS
<1> HIDE DEF u, packet, stream
<1>7. Payload = payload
  <2>1. MegaracHeader \in Nat /\ MegaracHeader + Len(payload) <= Buffered(mBuffer)
    BY <1>1, <1>4, <1>5 DEF MegaracHeader
  <2>2. Payload = SubSeq(u, MegaracHeader + 1, MegaracHeader + Len(payload))
    BY <1>3, <1>4, <2>1, SliceUnread DEF Payload, u
  <2>3. MegaracHeader + 1 \in Nat \ {0}
    BY DEF MegaracHeader
  <2>4. SubSeq(stream, MegaracHeader + 1, Len(packet)) = SubSeq(u, MegaracHeader + 1, Len(packet))
    BY <1>5, <1>6, <2>3, SliceOfFirst
  <2> QED BY <1>1, <2>2, <2>4
<1>8. /\ IsBuffer(MegaracConsumed(mBuffer, PacketSize))
      /\ Unread(MegaracConsumed(mBuffer, PacketSize)) = SubSeq(u, Len(packet) + 1, Len(u))
  BY <1>4, <1>5, ConsumedIs DEF u
<1>9. SubSeq(u, Len(packet) + 1, Len(u)) \o mWire = rest
  BY <1>1, <1>5, <1>6, SliceToEnd
<1> QED BY <1>3, <1>7, <1>8, <1>9

\* The packet is there when all of the stream is.
LEMMA PacketComes ==
  ASSUME IsBuffer(mBuffer), mWire = <<>>,
         NEW type \in Nat, NEW payload \in Seq(Nat), NEW rest \in Seq(Nat),
         Unread(mBuffer) \o mWire = Packet(type, payload) \o rest
  PROVE  PacketThere
<1> DEFINE u == Unread(mBuffer)
           packet == Packet(type, payload)
           stream == packet \o rest
<1>1. /\ packet \in Seq(Nat) /\ Len(packet) = MegaracHeader + Len(payload)
      /\ stream \in Seq(Nat) /\ stream[2] = Len(payload)
      /\ Len(stream) = Len(packet) + Len(rest)
  <2>1. packet \in Seq(Nat) /\ Len(packet) = MegaracHeader + Len(payload)
    BY PacketIs
  <2>2. stream \in Seq(Nat) /\ stream[2] = Len(payload)
    BY PacketIs, PacketHeader
  <2>3. Len(stream) = Len(packet) + Len(rest)
    BY PacketIs
  <2> HIDE DEF packet, stream
  <2> QED BY <2>1, <2>2, <2>3
<1>2. u \in Seq(Nat) /\ \A n : CanRead(mBuffer, n) <=> n \in 0 .. Len(u)
  BY UnreadIs
<1>3. u = stream
  BY <1>2, ConcatEmptySeq
<1>4. /\ MegaracHeader + Len(payload) \in 0 .. Len(stream)
      /\ MegaracHeader \in 0 .. Len(stream)
  <2> HIDE DEF packet, stream
  <2>1. Len(payload) \in Nat /\ Len(rest) \in Nat
    OBVIOUS
  <2> QED BY <1>1, <2>1 DEF MegaracHeader
<1>5. CanRead(mBuffer, MegaracHeader) /\ CanRead(mBuffer, MegaracHeader + Len(payload))
  BY <1>2, <1>3, <1>4
<1>6. PayloadSize = Len(payload)
  <2>1. mWire \in Seq(Nat)
    OBVIOUS
  <2> QED BY <1>1, <1>5, <2>1, HeaderIs
<1> QED BY <1>5, <1>6 DEF PacketThere, PacketSize

-----------------------------------------------------------------------------
\* The cursor of a message has the pattern of the message, or the last one.
LEMMA CursorPattern ==
  ASSUME NEW payload \in Seq(Nat), payload # <<>>, NEW cached \in Nat,
         NEW source \in [width : Nat, height : Nat]
  PROVE  LET message == CursorMessageOf(payload)
             cursor == MegaracCursor(message, cached, source)
         IN  /\ message.pattern \in Nat
             /\ message.pattern = IF Len(payload) > 1 THEN payload[2] ELSE NoPattern
             /\ cursor.pattern = IF message.pattern # NoPattern THEN message.pattern ELSE cached
             /\ \A w, h \in Nat : ReadsInside(cursor, [width |-> w, height |-> h])
<1> DEFINE message == CursorMessageOf(payload)
           cursor == MegaracCursor(message, cached, source)
<1>1. /\ payload[1] \in Nat /\ Len(payload) > 1 => payload[2] \in Nat
  OBVIOUS
<1>2. /\ message.type = payload[1] /\ message.x = payload[1] /\ message.y = 0
      /\ message.xOffset = payload[1] /\ message.yOffset = PatternSize
      /\ message.pattern = IF Len(payload) > 1 THEN payload[2] ELSE NoPattern
  BY DEF CursorMessageOf
<1>3. /\ message.x \in Nat /\ message.y \in Nat
      /\ message.xOffset \in Nat /\ message.yOffset \in Nat /\ message.pattern \in Nat
  BY <1>1, <1>2, CursorAssumption DEF NoPattern
<1>4. source.width \in Nat /\ source.height \in Nat
  OBVIOUS
<1> HIDE DEF message
<1>5. ASSUME NEW w \in Nat, NEW h \in Nat
      PROVE  ReadsInside(cursor, [width |-> w, height |-> h])
  <2> DEFINE frame == [width |-> w, height |-> h]
  <2>1. frame.width \in Nat /\ frame.height \in Nat
    OBVIOUS
  <2> HIDE DEF frame
  <2>2. ReadsInside(MegaracCursor(message, cached, source), frame)
    BY <1>3, <1>4, <2>1, MegaracCursorInside
  <2> QED BY <2>2 DEF frame
<1>6. cursor.pattern = IF message.pattern # NoPattern THEN message.pattern ELSE cached
  <2> DEFINE xOffset == AtMost(message.xOffset, PatternSize - 1)
             yOffset == AtMost(message.yOffset, PatternSize - 1)
             rest == PatternSize - xOffset
             width == IF message.type = 1 THEN rest ELSE AtMost(rest, Narrow)
             height == PatternSize - yOffset
             pattern == IF message.pattern # NoPattern THEN message.pattern ELSE cached
             plain == [NoCursor EXCEPT
                         !.type = message.type, !.x = message.x, !.y = message.y,
                         !.xOffset = xOffset, !.yOffset = yOffset,
                         !.patternWidth = PatternSize, !.patternHeight = PatternSize,
                         !.pattern = pattern]
  <2>1. width \in Nat /\ height \in Nat
    <3>1. PatternSize \in Nat \ {0}
      BY CursorAssumption
    <3>2. xOffset \in 0 .. PatternSize - 1 /\ yOffset \in 0 .. PatternSize - 1
      BY <1>3, <3>1 DEF AtMost
    <3>3. rest \in Nat /\ height \in Nat
      BY <3>1, <3>2
    <3> HIDE DEF xOffset, yOffset, rest, height
    <3> QED BY <3>3, CursorAssumption DEF AtMost
  <2>2. cursor = Clipped(plain, width, height, source)
    BY DEF MegaracCursor
  <2> HIDE DEF xOffset, yOffset, width, height, pattern
  <2>3. /\ plain.x = message.x /\ plain.y = message.y /\ plain.pattern = pattern
        /\ {"visible", "width", "height"} \subseteq DOMAIN plain
    <3>1. DOMAIN plain = DOMAIN NoCursor
      OBVIOUS
    <3> QED BY <3>1 DEF NoCursor
  <2> HIDE DEF plain
  <2>4. Clipped(plain, width, height, source).pattern = plain.pattern
    BY <1>3, <1>4, <2>1, <2>3, ClippedIs
  <2> QED BY <2>2, <2>3, <2>4 DEF pattern
<1> QED BY <1>2, <1>3, <1>5, <1>6 DEF message

\* Handling a packet takes the path one step further.
LEMMA HandleStep == StreamInv /\ HandlePacket => StreamInv'
<1> SUFFICES ASSUME StreamInv, HandlePacket PROVE StreamInv'
  OBVIOUS
<1>1. /\ IsBuffer(mBuffer) /\ mWire \in Seq(Nat) /\ mSource \in [width : Nat, height : Nat]
      /\ mFrames \in Frames /\ assembler \in Partial /\ mPattern \in Nat
      /\ mCursor # NoCursor => mCursor.pattern = mPattern
      /\ \A w, h \in Nat : ReadsInside(mCursor, [width |-> w, height |-> h])
  BY DEF StreamInv
<1>2. PICK prospects \in SUBSET Prospects : Here \in prospects /\ Path(prospects)
  BY DEF StreamInv
<1>3. /\ ~mReading /\ ~Implausible /\ PacketThere
      /\ CASE Byte(mBuffer, 0) = VideoType -> VideoPacket
           [] Byte(mBuffer, 0) = CursorType -> CursorPacket
           [] OTHER -> UNCHANGED <<assembler, mPattern, mSource, mFrames, mCursor>>
      /\ mBuffer' = MegaracConsumed(mBuffer, PacketSize)
      /\ UNCHANGED <<mReading, mWire, mFailed, megaracBmcVars>>
  BY DEF HandlePacket
<1>4. /\ Here.stream = Unread(mBuffer) \o mWire /\ Here.frames = mFrames
      /\ Here.current = assembler /\ Here.pattern = mPattern
  BY DEF Here
<1>5. ASSUME Sent(Here) PROVE FALSE
  <2>1. CanRead(mBuffer, MegaracHeader)
    BY <1>3 DEF PacketThere
  <2>2. /\ Len(Here.stream) >= MegaracHeader /\ PayloadSize = Here.stream[2]
    BY <1>1, <1>4, <2>1, HeaderIs
  <2>3. Here.stream # <<>>
    BY <2>2 DEF MegaracHeader
  <2>4. Refused(Here)
    BY <1>5, <2>3 DEF Sent
  <2>5. ~(Here.stream[2] >= TooLarge)
    BY <1>3, <2>1, <2>2 DEF Implausible
  <2>6. PICK payload \in Seq(Nat) :
          Here.stream = Packet(VideoType, payload) /\ Refuses(assembler, payload)
    BY <1>4, <2>4, <2>5 DEF Refused
  <2>7. /\ Packet(VideoType, payload) \in Seq(Nat) /\ VideoType \in Nat
    BY PacketIs DEF VideoType
  <2>8. Unread(mBuffer) \o mWire = Packet(VideoType, payload) \o <<>>
    BY <1>4, <2>6, <2>7, ConcatEmptySeq
  <2>9. Byte(mBuffer, 0) = VideoType /\ Payload = payload
    <3>1. <<>> \in Seq(Nat)
      OBVIOUS
    <3> QED BY <1>1, <1>3, <2>7, <2>8, <3>1, PacketFound
  <2>10. ~Refuses(assembler, Payload)
    BY <1>3, <2>9 DEF VideoPacket, VideoType, CursorType
  <2> QED
    BY <2>6, <2>9, <2>10
<1>6. PICK next \in prospects : Taken(Here, next)
  BY <1>2, <1>5 DEF Path
<1>7. PICK type \in {VideoType, CursorType}, payload \in Seq(Nat) :
        /\ Here.stream = Packet(type, payload) \o next.stream
        /\ IF type = VideoType THEN FrameTaken(Here, next, payload)
           ELSE CursorTaken(Here, next, payload)
  BY <1>6 DEF Taken
<1>8. /\ next \in Prospects /\ next.stream \in Seq(Nat) /\ next.frames \in Frames
      /\ next.current \in Partial /\ next.pattern \in Nat
  BY <1>2 DEF Prospects
<1>9. /\ Byte(mBuffer, 0) = type /\ Payload = payload
      /\ IsBuffer(mBuffer') /\ Unread(mBuffer') \o mWire' = next.stream
  <2>1. type \in Nat
    BY DEF VideoType, CursorType
  <2>2. Unread(mBuffer) \o mWire = Packet(type, payload) \o next.stream
    BY <1>4, <1>7
  <2> QED
    BY <1>1, <1>3, <1>8, <2>1, <2>2, PacketFound
<1>10. /\ mFrames' = next.frames /\ assembler' = next.current /\ mPattern' = next.pattern
       /\ mSource' \in [width : Nat, height : Nat]
       /\ mCursor' # NoCursor => mCursor'.pattern = mPattern'
       /\ \A w, h \in Nat : ReadsInside(mCursor', [width |-> w, height |-> h])
  <2>1. CASE type = VideoType
    <3> DEFINE frame == Assembled(assembler, payload)
    <3>1. FrameTaken(Here, next, payload) /\ VideoPacket
      BY <1>3, <1>7, <1>9, <2>1 DEF VideoType, CursorType
    <3>2. /\ mPattern' = mPattern /\ mCursor' = mCursor /\ next.pattern = mPattern
          /\ ~Refuses(assembler, payload)
      BY <1>4, <1>9, <3>1 DEF VideoPacket, FrameTaken
    <3>3. CASE Len(frame.data) < frame.size
      <4>1. /\ assembler' = <<frame>> /\ mFrames' = mFrames /\ mSource' = mSource
            /\ next.current = <<frame>> /\ next.frames = mFrames
        BY <1>4, <1>9, <3>1, <3>3 DEF VideoPacket, FrameTaken
      <4> QED BY <1>1, <3>2, <4>1
    <3>4. CASE ~(Len(frame.data) < frame.size)
      <4>1. /\ assembler' = <<>> /\ next.current = <<>>
            /\ IF Supported(frame.data)
               THEN /\ mFrames' = Append(mFrames, frame.data)
                    /\ mSource' = [width |-> frame.size, height |-> frame.size]
               ELSE mFrames' = mFrames /\ mSource' = mSource
            /\ next.frames = IF Supported(frame.data) THEN Append(mFrames, frame.data)
                             ELSE mFrames
        BY <1>4, <1>9, <3>1, <3>4 DEF VideoPacket, FrameTaken
      <4>2. frame.size \in Nat
        <5>1. CASE assembler = <<>>
          <6>1. frame.size = payload[2] /\ Len(payload) >= FirstHeader
            BY <3>2, <5>1 DEF Assembled, Refuses, FirstHeader
          <6> QED BY <6>1 DEF FirstHeader
        <5>2. CASE assembler # <<>>
          <6>1. PICK part \in [size : Nat, data : Seq(Nat)] : assembler = <<part>>
            BY <1>1, <5>2 DEF Partial
          <6>2. frame = [part EXCEPT !.data = @ \o SubSeq(payload, NextHeader + 1, Len(payload))]
            BY <5>2, <6>1 DEF Assembled
          <6> QED BY <6>2
        <5> QED BY <5>1, <5>2
      <4> HIDE DEF frame
      <4>3. mSource' \in [width : Nat, height : Nat]
        BY <1>1, <4>1, <4>2
      <4>4. mFrames' = next.frames
        BY <4>1
      <4> QED BY <1>1, <3>2, <4>1, <4>3, <4>4
    <3> QED BY <3>3, <3>4
  <2>2. CASE type # VideoType
    <3>1. type = CursorType /\ CursorType # VideoType
      BY <2>2 DEF VideoType, CursorType
    <3>2. CursorTaken(Here, next, payload) /\ CursorPacket
      BY <1>3, <1>7, <1>9, <2>2, <3>1
    <3>3. /\ mFrames' = mFrames /\ assembler' = assembler /\ mSource' = mSource
          /\ next.frames = mFrames /\ next.current = assembler
          /\ next.pattern = IF Len(payload) > 1 /\ payload[2] # NoPattern THEN payload[2]
                            ELSE mPattern
      BY <1>4, <3>2 DEF CursorTaken, CursorPacket
    <3>4. CASE payload = <<>>
      <4>1. mCursor' = mCursor /\ mPattern' = mPattern
        BY <1>9, <3>2, <3>4 DEF CursorPacket
      <4>2. next.pattern = mPattern
        BY <3>3, <3>4
      <4> QED BY <1>1, <3>3, <4>1, <4>2
    <3>5. CASE payload # <<>>
      <4> DEFINE message == CursorMessageOf(payload)
      <4>1. /\ mCursor' = MegaracCursor(message, mPattern, mSource)
            /\ mPattern' = IF message.pattern # NoPattern THEN message.pattern ELSE mPattern
        BY <1>9, <3>2, <3>5 DEF CursorPacket
      <4>2. /\ message.pattern = IF Len(payload) > 1 THEN payload[2] ELSE NoPattern
            /\ mCursor'.pattern = IF message.pattern # NoPattern THEN message.pattern ELSE mPattern
        BY <1>1, <3>5, <4>1, CursorPattern
      <4>3. \A w, h \in Nat : ReadsInside(mCursor', [width |-> w, height |-> h])
        BY <1>1, <3>5, <4>1, CursorPattern
      <4> HIDE DEF message
      <4>4. mPattern' = next.pattern
        BY <3>3, <4>1, <4>2
      <4> QED BY <1>1, <3>3, <4>1, <4>2, <4>3, <4>4
    <3> QED BY <3>4, <3>5
  <2> QED BY <2>1, <2>2
<1>11. Here' = next
  <2>1. next = [stream |-> next.stream, frames |-> next.frames, current |-> next.current,
                pattern |-> next.pattern]
    BY <1>8 DEF Prospects
  <2> QED BY <1>9, <1>10, <2>1 DEF Here
<1>12. Path(prospects)'
  <2>1. /\ bmcFrames' = bmcFrames /\ bmcRest' = bmcRest /\ bmcPattern' = bmcPattern
        /\ bmcBroken' = bmcBroken
    BY <1>3 DEF megaracBmcVars
  <2> QED BY <1>2, <2>1 DEF Path, Sent
<1>13. /\ mWire' = mWire /\ mReading' = mReading /\ mFailed' = mFailed
       /\ bmcFrames' = bmcFrames /\ bmcRest' = bmcRest /\ bmcPattern' = bmcPattern
       /\ bmcBroken' = bmcBroken
  BY <1>3 DEF megaracBmcVars
<1>14. \E some \in SUBSET Prospects : Here' \in some /\ Path(some)'
  BY <1>6, <1>11, <1>12
<1>15. /\ IsBuffer(mBuffer)' /\ (mWire \in Seq(Nat))' /\ (mReading => ~PacketThere)'
       /\ (mFailed => bmcBroken)'
       /\ (bmcFrames \in Frames /\ bmcRest \in Seq(Nat) /\ bmcPattern \in Nat)'
       /\ (bmcBroken \in BOOLEAN)'
  BY <1>1, <1>3, <1>9, <1>13 DEF StreamInv
<1>16. (mFrames \in Frames /\ assembler \in Partial /\ mPattern \in Nat)'
  BY <1>8, <1>10
<1> QED
  BY <1>10, <1>14, <1>15, <1>16 DEF StreamInv

\* It does not matter which of three sequences are joined first.
LEMMA Joined ==
  \A s, t, u \in Seq(Nat) : (s \o t) \o u = s \o (t \o u)
  OBVIOUS

\* What is joined to the end of a sequence leaves its front alone.
LEMMA FrontStays ==
  ASSUME NEW s \in Seq(Nat), NEW t \in Seq(Nat), NEW i \in 1 .. Len(s)
  PROVE  (s \o t)[i] = s[i]
BY ConcatProperties

\* A prospect with more bytes behind what is to come.
Longer(s, bytes) == [s EXCEPT !.stream = @ \o bytes]

\* A prospect with more to come.
LEMMA LongerIs ==
  ASSUME NEW s \in Prospects, NEW bytes \in Seq(Nat)
  PROVE  /\ Longer(s, bytes) \in Prospects
         /\ Longer(s, bytes).stream = s.stream \o bytes
         /\ Longer(s, bytes).frames = s.frames
         /\ Longer(s, bytes).current = s.current
         /\ Longer(s, bytes).pattern = s.pattern
<1>1. /\ s.stream \in Seq(Nat) /\ s.frames \in Frames /\ s.current \in Partial
      /\ s.pattern \in Nat
  BY DEF Prospects
<1>2. s.stream \o bytes \in Seq(Nat)
  BY <1>1, ConcatProperties
<1> DEFINE all == s.stream \o bytes
<1>3. all \in Seq(Nat)
  BY <1>2
<1> HIDE DEF all
<1>4. /\ [s EXCEPT !.stream = all] \in Prospects
      /\ [s EXCEPT !.stream = all].stream = all
      /\ [s EXCEPT !.stream = all].frames = s.frames
      /\ [s EXCEPT !.stream = all].current = s.current
      /\ [s EXCEPT !.stream = all].pattern = s.pattern
  BY <1>3 DEF Prospects
<1> QED BY <1>4 DEF all, Longer

\* The first packet is taken off a longer stream all the same.
LEMMA TakenLonger ==
  ASSUME NEW s \in Prospects, NEW t \in Prospects, Taken(s, t), NEW bytes \in Seq(Nat)
  PROVE  Taken(Longer(s, bytes), Longer(t, bytes))
<1>1. PICK type \in {VideoType, CursorType}, payload \in Seq(Nat) :
        /\ Len(payload) < TooLarge
        /\ s.stream = Packet(type, payload) \o t.stream
        /\ IF type = VideoType THEN FrameTaken(s, t, payload) ELSE CursorTaken(s, t, payload)
  BY DEF Taken
<1> DEFINE u == Longer(s, bytes)
           v == Longer(t, bytes)
           p == Packet(type, payload)
           r == t.stream
<1>2. p \in Seq(Nat) /\ r \in Seq(Nat)
  <2>1. type \in Nat
    BY DEF VideoType, CursorType
  <2>2. r \in Seq(Nat)
    BY DEF Prospects
  <2>3. Packet(type, payload) \in Seq(Nat)
    BY <2>1, <2>2, PacketIs
  <2> QED BY <2>2, <2>3
<1>3. /\ u.stream = s.stream \o bytes /\ v.stream = r \o bytes
      /\ u.frames = s.frames /\ u.current = s.current /\ u.pattern = s.pattern
      /\ v.frames = t.frames /\ v.current = t.current /\ v.pattern = t.pattern
  BY LongerIs
<1>4. s.stream = p \o r
  BY <1>1
<1> HIDE DEF u, v, p, r
<1>5. u.stream = p \o v.stream
  <2>1. (p \o r) \o bytes = p \o (r \o bytes)
    BY <1>2, Joined, Zenon
  <2> QED BY <1>3, <1>4, <2>1
<1>6. IF type = VideoType THEN FrameTaken(u, v, payload) ELSE CursorTaken(u, v, payload)
  BY <1>1, <1>3 DEF FrameTaken, CursorTaken
<1>7. Taken(u, v)
  BY <1>1, <1>5, <1>6 DEF Taken, p
<1> QED BY <1>7 DEF u, v

\* A path goes on with what the BMC sends, if its end does.
LEMMA PathGrows ==
  ASSUME StreamInv, NEW bytes \in Seq(Nat), mWire' = mWire \o bytes,
         UNCHANGED megaracViewVars,
         (bmcFrames \in Frames /\ bmcRest \in Seq(Nat) /\ bmcPattern \in Nat)',
         bmcBroken' \in BOOLEAN, bmcBroken => bmcBroken',
         \A s \in Prospects : IsPrefix(s.frames, bmcFrames) => IsPrefix(s.frames, bmcFrames'),
         \A s \in Prospects :
           Sent(s) => \/ Sent(Longer(s, bytes))'
                      \/ \E t \in Prospects :
                           /\ Taken(Longer(s, bytes), t)
                           /\ Sent(t)'
                           /\ IsPrefix(t.frames, bmcFrames')
  PROVE  StreamInv'
<1>1. /\ mBuffer' = mBuffer /\ mReading' = mReading /\ assembler' = assembler
      /\ mPattern' = mPattern /\ mSource' = mSource /\ mFrames' = mFrames
      /\ mCursor' = mCursor /\ mFailed' = mFailed
  BY DEF megaracViewVars
<1>2. IsBuffer(mBuffer) /\ mWire \in Seq(Nat) /\ Unread(mBuffer) \in Seq(Nat)
  BY UnreadIs DEF StreamInv
<1>3. PICK prospects \in SUBSET Prospects : Here \in prospects /\ Path(prospects)
  BY DEF StreamInv
<1> DEFINE ends == {t \in Prospects : Sent(t)' /\ IsPrefix(t.frames, bmcFrames')}
           more == {Longer(s, bytes) : s \in prospects} \cup ends
<1>4. more \in SUBSET Prospects
  BY <1>3, LongerIs
<1>5. Here' \in more
  <2>1. (Unread(mBuffer) \o mWire) \o bytes = Unread(mBuffer) \o mWire'
    <3>1. (Unread(mBuffer) \o mWire) \o bytes = Unread(mBuffer) \o (mWire \o bytes)
      BY <1>2, Joined, Zenon
    <3> QED BY <3>1
  <2> DEFINE now == Unread(mBuffer) \o mWire
             then == Unread(mBuffer) \o mWire'
  <2>2. /\ Here = [stream |-> now, frames |-> mFrames, current |-> assembler,
                   pattern |-> mPattern]
        /\ Here' = [stream |-> then, frames |-> mFrames, current |-> assembler,
                    pattern |-> mPattern]
        /\ now \o bytes = then
    BY <1>1, <2>1 DEF Here
  <2> HIDE DEF now, then
  <2>3. Here' = Longer(Here, bytes)
    <3>1. Here.stream \o bytes = then
      BY <2>2
    <3>2. Longer(Here, bytes) = [Here EXCEPT !.stream = then]
      BY <3>1 DEF Longer
    <3> QED BY <2>2, <3>2
  <2> QED BY <1>3, <2>3
<1>6. ASSUME NEW u \in more
      PROVE  IsPrefix(u.frames, bmcFrames') /\ (Sent(u)' \/ \E t \in more : Taken(u, t))
  <2>1. CASE u \in ends
    BY <2>1
  <2>2. CASE u \notin ends
    <3>1. PICK s \in prospects : u = Longer(s, bytes)
      BY <2>2
    <3>2. /\ s \in Prospects /\ IsPrefix(s.frames, bmcFrames) /\ u.frames = s.frames
          /\ u.stream = s.stream \o bytes /\ u.current = s.current /\ u.pattern = s.pattern
      BY <1>3, <3>1, LongerIs DEF Path
    <3>3. CASE Sent(s)
      <4>1. Sent(u)' \/ \E t \in ends : Taken(u, t)
        BY <3>1, <3>2, <3>3
      <4> QED BY <3>2, <4>1
    <3>4. CASE ~Sent(s)
      <4>1. PICK t \in prospects : Taken(s, t)
        BY <1>3, <3>4 DEF Path
      <4> DEFINE v == Longer(t, bytes)
      <4>6. Taken(u, v)
        BY <1>3, <3>1, <4>1, TakenLonger
      <4>7. v \in more
        BY <4>1
      <4> QED BY <3>2, <4>6, <4>7
    <3> QED BY <3>3, <3>4
  <2> QED BY <2>1, <2>2
<1> HIDE DEF more
<1>7. PICK some \in SUBSET Prospects : some = more
  BY <1>4
<1>8. mWire' \in Seq(Nat)
  BY <1>2, ConcatProperties
<1>9. (mReading => ~PacketThere)'
  BY <1>1 DEF StreamInv, PacketThere, PacketSize, PayloadSize
<1>10. (mFailed => bmcBroken)'
  BY <1>1 DEF StreamInv
<1>11. Here' \in some /\ Path(some)'
  BY <1>5, <1>6, <1>7 DEF Path
<1>12. /\ IsBuffer(mBuffer)' /\ (mSource \in [width : Nat, height : Nat])'
       /\ (mFrames \in Frames /\ assembler \in Partial /\ mPattern \in Nat)'
       /\ (mCursor # NoCursor => mCursor.pattern = mPattern)'
       /\ (\A w, h \in Nat : ReadsInside(mCursor, [width |-> w, height |-> h]))'
  BY <1>1 DEF StreamInv
<1> QED BY <1>8, <1>9, <1>10, <1>11, <1>12 DEF StreamInv

\* The frame in fragments, before and after one more.
LEMMA SendFrameStep == StreamInv /\ SendFrame => StreamInv'
<1> SUFFICES ASSUME StreamInv, SendFrame PROVE StreamInv'
  OBVIOUS
<1>1. /\ ~bmcBroken /\ bmcRest = <<>> /\ UNCHANGED megaracViewVars
      /\ bmcPattern' = bmcPattern /\ bmcBroken' = bmcBroken
  BY DEF SendFrame
<1>12. PICK frame \in MegaracFrames : \E n \in 0 .. Len(frame) :
        /\ mWire' = mWire \o Packet(VideoType, <<0, Len(frame)>> \o SubSeq(frame, 1, n))
        /\ bmcFrames' = IF Supported(frame) THEN Append(bmcFrames, frame) ELSE bmcFrames
        /\ bmcRest' = SubSeq(frame, n + 1, Len(frame))
  BY DEF SendFrame
<1>2. PICK n \in 0 .. Len(frame) :
        /\ mWire' = mWire \o Packet(VideoType, <<0, Len(frame)>> \o SubSeq(frame, 1, n))
        /\ bmcFrames' = IF Supported(frame) THEN Append(bmcFrames, frame) ELSE bmcFrames
        /\ bmcRest' = SubSeq(frame, n + 1, Len(frame))
  BY <1>12
<1>3. /\ frame \in Seq(Nat) /\ Len(frame) \in 1 .. TooLarge - 3
      /\ bmcFrames \in Frames /\ bmcPattern \in Nat /\ bmcBroken \in BOOLEAN
  BY MegaracWireAssumption DEF StreamInv
<1> DEFINE data == SubSeq(frame, 1, n)
           payload == <<0, Len(frame)>> \o data
           bytes == Packet(VideoType, payload)
           total == Len(frame)
<1>4. /\ data \in Seq(Nat) /\ Len(data) = n /\ bmcRest' \in Seq(Nat)
      /\ Len(bmcRest') = total - n /\ data \o bmcRest' = frame
  BY <1>2, <1>3, CutIs
<1>5. /\ total \in Nat /\ total \in 1 .. TooLarge - 3 /\ n \in Nat /\ n <= total
  BY <1>3
<1>16. total = Len(frame)
  OBVIOUS
<1> HIDE DEF data, total
<1>6. /\ payload \in Seq(Nat) /\ Len(payload) = FirstHeader + n
      /\ payload[2] = total /\ SubSeq(payload, FirstHeader + 1, Len(payload)) = data
  <2> DEFINE head == <<0, total>>
  <2>1. head \in Seq(Nat) /\ Len(head) = 2 /\ head[2] = total
    BY <1>5
  <2> HIDE DEF total
  <2>2. payload = head \o data
    BY <1>16 DEF head
  <2> HIDE DEF head, payload
  <2>3. SubSeq(payload, Len(head) + 1, Len(payload)) = data
    BY <1>4, <2>1, <2>2, SliceOfSecond
  <2>4. payload \in Seq(Nat) /\ Len(payload) = 2 + n /\ payload[2] = head[2]
    <3>2. data \in Seq(Nat)
      BY <1>4
    <3>1. /\ head \o data \in Seq(Nat) /\ Len(head \o data) = Len(head) + Len(data)
          /\ \A i \in 1 .. Len(head) + Len(data) :
               (head \o data)[i] = IF i <= Len(head) THEN head[i] ELSE data[i - Len(head)]
      BY <2>1, <3>2, ConcatProperties
    <3>3. Len(data) = n /\ 2 \in 1 .. Len(head) + Len(data)
      BY <1>4, <1>5, <2>1
    <3> QED BY <2>1, <2>2, <3>1, <3>3
  <2> QED BY <2>1, <2>3, <2>4 DEF FirstHeader
<1>13. Len(payload) = 2 + n /\ payload[2] = total
  BY <1>6 DEF FirstHeader
<1>14. n \in Nat /\ n <= total /\ total \in 1 .. 96
  BY <1>5 DEF TooLarge
<1>15. Len(data) = n /\ Len(bmcRest') = total - n
  BY <1>4
<1>7. bytes \in Seq(Nat)
  BY <1>6, PacketIs DEF VideoType
<1>8. mWire' = mWire \o bytes
  BY <1>2 DEF data
<1> HIDE DEF payload, bytes
<1>9. (bmcFrames \in Frames /\ bmcRest \in Seq(Nat) /\ bmcPattern \in Nat)'
  <2>1. bmcFrames' \in Frames
    BY <1>2, <1>3 DEF Frames
  <2> QED BY <1>1, <1>3, <1>4, <2>1
<1>10. ASSUME NEW s \in Prospects, IsPrefix(s.frames, bmcFrames)
       PROVE  IsPrefix(s.frames, bmcFrames')
  <2>1. s.frames \in Seq(Seq(Nat)) /\ bmcFrames \in Seq(Seq(Nat))
    BY <1>3 DEF Prospects, Frames
  <2> QED BY <1>2, <1>3, <1>10, <2>1, PrefixGrows
<1>11. ASSUME NEW s \in Prospects, Sent(s)
       PROVE  \E t \in Prospects : /\ Taken(Longer(s, bytes), t) /\ Sent(t)'
                                   /\ IsPrefix(t.frames, bmcFrames')
  <2> DEFINE u == Longer(s, bytes)
             part == [size |-> total, data |-> data]
             whole == ~(n < total)
  <2>1. /\ s.stream = <<>> /\ s.pattern = bmcPattern /\ s.current = <<>>
        /\ s.frames = bmcFrames
    BY <1>1, <1>11 DEF Sent
  <2>2. /\ u.stream = s.stream \o bytes /\ u.frames = bmcFrames /\ u.current = <<>>
        /\ u.pattern = bmcPattern
    BY <1>7, <2>1, LongerIs
  <2>3. u.stream = bytes \o <<>>
    BY <1>7, <2>1, <2>2
  <2>4. part \in [size : Nat, data : Seq(Nat)] /\ part.size = total /\ part.data = data
    BY <1>4, <1>5
  <2> HIDE DEF u, part
  <2>5. PICK t \in Prospects :
          /\ t.stream = <<>>
          /\ t.frames = IF whole THEN bmcFrames' ELSE bmcFrames
          /\ t.current = IF whole THEN <<>> ELSE <<part>>
          /\ t.pattern = bmcPattern
    <3> DEFINE new == [stream |-> <<>>,
                       frames |-> IF whole THEN bmcFrames' ELSE bmcFrames,
                       current |-> IF whole THEN <<>> ELSE <<part>>,
                       pattern |-> bmcPattern]
    <3>1. <<part>> \in Partial /\ <<>> \in Partial /\ <<>> \in Seq(Nat)
      BY <2>4 DEF Partial
    <3>2. new \in Prospects
      BY <1>3, <1>9, <3>1 DEF Prospects
    <3> QED BY <3>2
  <2>6. Assembled(u.current, payload) = part /\ ~Refuses(u.current, payload)
    <3>1. Assembled(u.current, payload) = part
      BY <1>6, <2>2 DEF Assembled, part
    <3>2. Len(payload) >= FirstHeader /\ payload[2] \in 1 .. TooLarge - 1
      BY <1>13, <1>14 DEF FirstHeader, TooLarge
    <3>3. ~(Len(part.data) > part.size)
      BY <1>4, <1>5, <2>4
    <3> QED BY <2>2, <3>1, <3>2, <3>3 DEF Refuses, FirstHeader
  <2>7. FrameTaken(u, t, payload)
    <3>1. CASE whole
      <4>1. data = frame
        <5>1. n = total /\ Len(frame) = total
          BY <1>14, <1>16, <3>1
        <5>2. data = SubSeq(frame, 1, Len(frame))
          BY <5>1 DEF data
        <5> QED BY <1>3, <5>2, SubSeqFull
      <4>2. t.current = <<>> /\ t.frames = bmcFrames' /\ t.pattern = u.pattern
        BY <2>2, <2>5, <3>1
      <4>3. ~(Len(part.data) < part.size)
        BY <1>4, <2>4, <3>1
      <4> QED BY <1>2, <2>2, <2>4, <2>6, <4>1, <4>2, <4>3 DEF FrameTaken
    <3>2. CASE ~whole
      <4>1. t.current = <<part>> /\ t.frames = u.frames /\ t.pattern = u.pattern
        BY <2>2, <2>5, <3>2
      <4>2. Len(part.data) < part.size
        BY <1>4, <2>4, <3>2
      <4> QED BY <2>6, <4>1, <4>2 DEF FrameTaken
    <3> QED BY <3>1, <3>2
  <2>8. Taken(u, t)
    <3>1. Len(payload) < TooLarge
      BY <1>13, <1>14 DEF TooLarge
    <3>2. u.stream = Packet(VideoType, payload) \o t.stream
      BY <2>3, <2>5 DEF bytes
    <3> QED BY <1>6, <2>7, <3>1, <3>2 DEF Taken
  <2>9. Sent(t)'
    <3>1. t.stream = <<>> /\ t.pattern = bmcPattern' /\ ~bmcBroken'
      BY <1>1, <2>5
    <3>2. CASE whole
      <4>1. bmcRest' = <<>>
        BY <1>4, <1>5, <3>2
      <4>2. t.current = <<>> /\ t.frames = bmcFrames'
        BY <2>5, <3>2
      <4> QED BY <3>1, <4>1, <4>2 DEF Sent
    <3>3. CASE ~whole
      <4>1. bmcRest' # <<>>
        BY <1>4, <1>5, <3>3
      <4>2. t.current = <<part>> /\ t.frames = bmcFrames
        BY <2>5, <3>3
      <4>3. Len(data) + Len(bmcRest') = total /\ total < TooLarge - 2
        BY <1>14, <1>15 DEF TooLarge
      <4>4. t.current = <<[size |-> Len(data) + Len(bmcRest'), data |-> data]>>
        BY <4>2, <4>3 DEF part
      <4>5. bmcFrames' = IF Supported(data \o bmcRest') THEN Append(t.frames, data \o bmcRest')
                         ELSE t.frames
        BY <1>2, <1>4, <4>2
      <4> QED BY <1>4, <3>1, <4>1, <4>3, <4>4, <4>5 DEF Sent
    <3> QED BY <3>2, <3>3
  <2>10. IsPrefix(t.frames, bmcFrames')
    <3>1. bmcFrames \in Seq(Seq(Nat)) /\ bmcFrames' \in Seq(Seq(Nat))
      BY <1>3, <1>9 DEF Frames
    <3> QED BY <1>2, <1>3, <2>5, <3>1, PrefixSelf, PrefixGrows
  <2> QED BY <2>8, <2>9, <2>10 DEF u
<1> QED BY <1>1, <1>3, <1>7, <1>8, <1>9, <1>10, <1>11, PathGrows

\* A fragment that is sent joins the frame.
LEMMA SendFragmentStep == StreamInv /\ SendFragment => StreamInv'
<1> SUFFICES ASSUME StreamInv, SendFragment PROVE StreamInv'
  OBVIOUS
<1>1. /\ ~bmcBroken /\ bmcRest # <<>> /\ UNCHANGED megaracViewVars
      /\ bmcFrames' = bmcFrames /\ bmcPattern' = bmcPattern /\ bmcBroken' = bmcBroken
  BY DEF SendFragment
<1>2. PICK n \in 1 .. Len(bmcRest) :
        /\ mWire' = mWire \o Packet(VideoType, <<0>> \o SubSeq(bmcRest, 1, n))
        /\ bmcRest' = SubSeq(bmcRest, n + 1, Len(bmcRest))
  BY DEF SendFragment
<1>3. /\ bmcRest \in Seq(Nat) /\ bmcFrames \in Frames /\ bmcPattern \in Nat
      /\ bmcBroken \in BOOLEAN
  BY DEF StreamInv
<1> DEFINE more == SubSeq(bmcRest, 1, n)
           payload == <<0>> \o more
           bytes == Packet(VideoType, payload)
           rest == Len(bmcRest)
<1>4. /\ more \in Seq(Nat) /\ Len(more) = n /\ bmcRest' \in Seq(Nat)
      /\ Len(bmcRest') = rest - n /\ more \o bmcRest' = bmcRest
  <2>1. n \in 0 .. Len(bmcRest)
    BY <1>3
  <2> QED BY <1>2, <1>3, <2>1, CutIs
<1>5. rest \in Nat /\ n \in Nat /\ n >= 1 /\ n <= rest
  BY <1>3
<1>6. payload \in Seq(Nat) /\ Len(payload) = 1 + n
      /\ SubSeq(payload, NextHeader + 1, Len(payload)) = more
  <2> DEFINE head == <<0>>
  <2>1. head \in Seq(Nat) /\ Len(head) = 1
    OBVIOUS
  <2>2. payload = head \o more
    OBVIOUS
  <2> HIDE DEF head, payload, more
  <2>3. SubSeq(payload, Len(head) + 1, Len(payload)) = more
    BY <1>4, <2>1, <2>2, SliceOfSecond
  <2>4. head \o more \in Seq(Nat) /\ Len(head \o more) = Len(head) + Len(more)
    BY <1>4, <2>1, ConcatProperties
  <2> QED BY <1>4, <2>1, <2>2, <2>3, <2>4 DEF NextHeader
<1>7. bytes \in Seq(Nat)
  BY <1>6, PacketIs DEF VideoType
<1>8. mWire' = mWire \o bytes
  BY <1>2
<1>9. Len(more) = n /\ Len(bmcRest') = rest - n
  BY <1>4
<1> HIDE DEF payload, bytes, more
<1>10. Len(payload) = 1 + n
  BY <1>6
<1>11. ASSUME NEW s \in Prospects, Sent(s)
       PROVE  \E t \in Prospects : /\ Taken(Longer(s, bytes), t) /\ Sent(t)'
                                   /\ IsPrefix(t.frames, bmcFrames')
  <2>1. /\ s.stream = <<>> /\ s.pattern = bmcPattern
        /\ s.frames \in Frames
    BY <1>1, <1>11 DEF Sent, Prospects
  <2>2. PICK data \in Seq(Nat) :
          /\ Len(data) + Len(bmcRest) < TooLarge - 2
          /\ s.current = <<[size |-> Len(data) + Len(bmcRest), data |-> data]>>
          /\ bmcFrames = IF Supported(data \o bmcRest) THEN Append(s.frames, data \o bmcRest)
                         ELSE s.frames
    BY <1>1, <1>11 DEF Sent
  <2> DEFINE u == Longer(s, bytes)
             old == Len(data)
             total == old + rest
             both == data \o more
             part == [size |-> total, data |-> both]
             whole == ~(old + n < total)
  <2>3. /\ u.stream = s.stream \o bytes /\ u.frames = s.frames
        /\ u.current = <<[size |-> total, data |-> data]>> /\ u.pattern = bmcPattern
    BY <1>7, <2>1, <2>2, LongerIs
  <2>4. u.stream = bytes \o <<>>
    BY <1>7, <2>1, <2>3
  <2>5. old \in Nat /\ old + rest < 97
    BY <2>2 DEF TooLarge
  <2>6. both \in Seq(Nat) /\ Len(both) = old + n
    BY <1>4, ConcatProperties
  <2>7. both \o bmcRest' = data \o bmcRest
    <3>1. (data \o more) \o bmcRest' = data \o (more \o bmcRest')
      <4>1. more \in Seq(Nat) /\ bmcRest' \in Seq(Nat)
        BY <1>4
      <4> QED BY <4>1, Joined, Zenon
    <3> QED BY <1>4, <3>1
  <2> HIDE DEF u, both, old, rest
  <2>8. total \in Nat /\ total < 97 /\ old + n \in Nat /\ old + n <= total
    BY <1>5, <2>5
  <2>9. part \in [size : Nat, data : Seq(Nat)] /\ part.size = total /\ part.data = both
    BY <2>6, <2>8
  <2> HIDE DEF total, part
  <2>10. PICK t \in Prospects :
          /\ t.stream = <<>>
          /\ t.frames = IF whole THEN bmcFrames ELSE s.frames
          /\ t.current = IF whole THEN <<>> ELSE <<part>>
          /\ t.pattern = bmcPattern
    <3> DEFINE new == [stream |-> <<>>,
                       frames |-> IF whole THEN bmcFrames ELSE s.frames,
                       current |-> IF whole THEN <<>> ELSE <<part>>,
                       pattern |-> bmcPattern]
    <3>1. <<part>> \in Partial /\ <<>> \in Partial /\ <<>> \in Seq(Nat)
      BY <2>9 DEF Partial
    <3>2. new \in Prospects
      BY <1>3, <2>1, <3>1 DEF Prospects
    <3> QED BY <3>2
  <2>11. Assembled(u.current, payload) = part /\ ~Refuses(u.current, payload)
    <3>1. u.current # <<>> /\ u.current[1] = [size |-> total, data |-> data]
      BY <2>3
    <3>2. Assembled(u.current, payload) = part
      <4> DEFINE was == u.current[1]
      <4>1. Assembled(u.current, payload) = [was EXCEPT !.data = was.data \o more]
        BY <1>6, <3>1 DEF Assembled
      <4>2. was.data \o more = both
        BY <3>1 DEF both
      <4>3. was = [size |-> total, data |-> data]
        BY <3>1
      <4> HIDE DEF was
      <4>4. [was EXCEPT !.data = both] = part
        BY <4>3 DEF part
      <4> QED BY <4>1, <4>2, <4>4
    <3>3. ~(Len(payload) < NextHeader)
      BY <1>5, <1>10 DEF NextHeader
    <3>4. ~(Len(part.data) > part.size)
      BY <2>6, <2>8, <2>9
    <3> QED BY <3>1, <3>2, <3>3, <3>4 DEF Refuses
  <2>12. FrameTaken(u, t, payload)
    <3>1. CASE whole
      <4>1. both = data \o bmcRest
        <5>1. Len(bmcRest') = 0
          BY <1>5, <1>9, <2>5, <2>8, <3>1 DEF total
        <5>2. bmcRest' = <<>>
          BY <1>4, <5>1, EmptySeq
        <5>3. both \o <<>> = both
          BY <2>6, ConcatEmptySeq
        <5> QED BY <2>7, <5>2, <5>3
      <4>2. t.current = <<>> /\ t.pattern = u.pattern
            /\ t.frames = IF Supported(both) THEN Append(u.frames, both) ELSE u.frames
        BY <2>2, <2>3, <2>10, <3>1, <4>1
      <4>3. ~(Len(part.data) < part.size)
        BY <2>6, <2>9, <3>1
      <4> QED BY <2>9, <2>11, <4>2, <4>3 DEF FrameTaken
    <3>2. CASE ~whole
      <4>1. t.current = <<part>> /\ t.frames = u.frames /\ t.pattern = u.pattern
        BY <2>3, <2>10, <3>2
      <4>2. Len(part.data) < part.size
        BY <2>6, <2>9, <3>2
      <4> QED BY <2>11, <4>1, <4>2 DEF FrameTaken
    <3> QED BY <3>1, <3>2
  <2>13. Taken(u, t)
    <3>1. Len(payload) < TooLarge
      BY <1>5, <1>10, <2>5 DEF TooLarge
    <3>2. u.stream = Packet(VideoType, payload) \o t.stream
      BY <2>4, <2>10 DEF bytes
    <3> QED BY <1>6, <2>12, <3>1, <3>2 DEF Taken
  <2>14. Sent(t)'
    <3>1. t.stream = <<>> /\ t.pattern = bmcPattern' /\ ~bmcBroken'
      BY <1>1, <2>10
    <3>2. CASE whole
      <4>1. Len(bmcRest') = 0
        BY <1>5, <1>9, <2>5, <2>8, <3>2 DEF total
      <4>2. bmcRest' = <<>>
        BY <1>4, <4>1, EmptySeq
      <4>3. t.current = <<>> /\ t.frames = bmcFrames'
        BY <1>1, <2>10, <3>2
      <4> QED BY <3>1, <4>2, <4>3 DEF Sent
    <3>3. CASE ~whole
      <4>1. Len(both) + Len(bmcRest') = total
        BY <1>5, <1>9, <2>5, <2>6 DEF total
      <4>2. bmcRest' # <<>>
        <5>1. Len(bmcRest') # 0
          BY <1>5, <1>9, <2>5, <2>8, <3>3 DEF total
        <5> QED BY <5>1
      <4>3. t.current = <<part>> /\ t.frames = s.frames
        BY <2>10, <3>3
      <4>4. t.current = <<[size |-> Len(both) + Len(bmcRest'), data |-> both]>>
        BY <4>1, <4>3 DEF part
      <4>5. bmcFrames' = IF Supported(both \o bmcRest') THEN Append(t.frames, both \o bmcRest')
                         ELSE t.frames
        BY <1>1, <2>2, <2>7, <4>3
      <4>6. Len(both) + Len(bmcRest') < TooLarge - 2
        BY <2>8, <4>1 DEF TooLarge
      <4> QED BY <2>6, <3>1, <4>2, <4>4, <4>5, <4>6 DEF Sent
    <3> QED BY <3>2, <3>3
  <2>15. IsPrefix(t.frames, bmcFrames')
    <3>1. bmcFrames \in Seq(Seq(Nat)) /\ s.frames \in Seq(Seq(Nat)) /\ data \o bmcRest \in Seq(Nat)
      BY <1>3, <2>1, ConcatProperties DEF Frames
    <3>2. IsPrefix(s.frames, bmcFrames) /\ IsPrefix(bmcFrames, bmcFrames)
      BY <2>2, <3>1, PrefixSelf, PrefixGrows
    <3> QED BY <1>1, <2>10, <3>2
  <2> QED BY <2>13, <2>14, <2>15 DEF u
<1>12. (bmcFrames \in Frames /\ bmcRest \in Seq(Nat) /\ bmcPattern \in Nat)'
  BY <1>1, <1>3, <1>4
<1> QED BY <1>1, <1>3, <1>7, <1>8, <1>11, <1>12, PathGrows

\* A cursor that is sent is to come, after all that was sent before.
LEMMA SendCursorStep == StreamInv /\ SendCursor => StreamInv'
<1> SUFFICES ASSUME StreamInv, SendCursor PROVE StreamInv'
  OBVIOUS
<1>1. /\ ~bmcBroken /\ UNCHANGED megaracViewVars
      /\ bmcFrames' = bmcFrames /\ bmcRest' = bmcRest /\ bmcBroken' = bmcBroken
  BY DEF SendCursor
<1>2. PICK payload \in {<<>>, <<0>>, <<1>>, <<0, 1>>, <<1, 1>>} :
        /\ mWire' = mWire \o Packet(CursorType, payload)
        /\ bmcPattern' = IF Len(payload) = 2 THEN payload[2] ELSE bmcPattern
  BY DEF SendCursor
<1>3. /\ bmcRest \in Seq(Nat) /\ bmcFrames \in Frames /\ bmcPattern \in Nat
      /\ bmcBroken \in BOOLEAN
  BY DEF StreamInv
<1> DEFINE bytes == Packet(CursorType, payload)
<1>4. payload \in Seq(Nat) /\ Len(payload) <= 2 /\ (Len(payload) = 2 => payload[2] = 1)
  <2>1. CASE payload = <<>>
    BY <2>1
  <2>4. CASE payload = <<0>>
    BY <2>4
  <2>5. CASE payload = <<1>>
    BY <2>5
  <2>2. CASE payload = <<0, 1>>
    BY <2>2
  <2>3. CASE payload = <<1, 1>>
    BY <2>3
  <2> QED BY <1>2, <2>1, <2>2, <2>3, <2>4, <2>5
<1>5. bytes \in Seq(Nat)
  BY <1>4, PacketIs DEF CursorType
<1>6. bmcPattern' \in Nat
  BY <1>2, <1>3, <1>4
<1> HIDE DEF bytes
<1>7. ASSUME NEW s \in Prospects, Sent(s)
       PROVE  \E t \in Prospects :
                /\ Taken(Longer(s, bytes), t) /\ Sent(t)'
                /\ (IsPrefix(s.frames, bmcFrames) => IsPrefix(t.frames, bmcFrames'))
  <2>1. s.stream = <<>> /\ s.pattern = bmcPattern
    BY <1>1, <1>7 DEF Sent
  <2>2. s.frames \in Frames /\ s.current \in Partial
    BY DEF Prospects
  <2> DEFINE u == Longer(s, bytes)
  <2>3. /\ u.stream = bytes /\ u.frames = s.frames /\ u.current = s.current
        /\ u.pattern = bmcPattern
    <3>1. <<>> \o bytes = bytes
      BY <1>5, ConcatEmptySeq
    <3> QED BY <1>5, <2>1, <3>1, LongerIs
  <2>4. u.stream = bytes \o <<>>
    BY <1>5, <2>3, ConcatEmptySeq
  <2> HIDE DEF u
  <2>5. PICK t \in Prospects :
          /\ t.stream = <<>> /\ t.frames = s.frames /\ t.current = s.current
          /\ t.pattern = bmcPattern'
    <3> DEFINE new == [stream |-> <<>>, frames |-> s.frames, current |-> s.current,
                       pattern |-> bmcPattern']
    <3>1. new \in Prospects
      BY <1>6, <2>2 DEF Prospects
    <3> QED BY <3>1
  <2>6. CursorTaken(u, t, payload)
    <3>1. bmcPattern' = IF Len(payload) > 1 /\ payload[2] # NoPattern THEN payload[2]
                        ELSE bmcPattern
      BY <1>2, <1>4 DEF NoPattern
    <3> QED BY <2>3, <2>5, <3>1 DEF CursorTaken
  <2>7. Taken(u, t)
    <3>1. Len(payload) < TooLarge /\ CursorType # VideoType
      BY <1>4 DEF TooLarge, CursorType, VideoType
    <3>2. u.stream = Packet(CursorType, payload) \o t.stream
      BY <2>4, <2>5 DEF bytes
    <3> QED BY <1>4, <2>6, <3>1, <3>2 DEF Taken
  <2>8. Sent(t)'
    <3>1. CASE bmcRest = <<>>
      <4>1. s.current = <<>> /\ s.frames = bmcFrames
        BY <1>7, <3>1 DEF Sent
      <4> QED BY <1>1, <2>5, <3>1, <4>1 DEF Sent
    <3>2. CASE bmcRest # <<>>
      <4>1. PICK data \in Seq(Nat) :
              /\ Len(data) + Len(bmcRest) < TooLarge - 2
              /\ s.current = <<[size |-> Len(data) + Len(bmcRest), data |-> data]>>
              /\ bmcFrames = IF Supported(data \o bmcRest)
                             THEN Append(s.frames, data \o bmcRest) ELSE s.frames
        BY <1>7, <3>2 DEF Sent
      <4> QED BY <1>1, <2>5, <3>2, <4>1 DEF Sent
    <3> QED BY <3>1, <3>2
  <2> QED BY <1>1, <2>5, <2>7, <2>8 DEF u
<1>8. ASSUME NEW s \in Prospects, Sent(s)
      PROVE  IsPrefix(s.frames, bmcFrames)
  <2>1. s.frames \in Seq(Seq(Nat)) /\ bmcFrames \in Seq(Seq(Nat))
    BY <1>3 DEF Prospects, Frames
  <2>2. CASE bmcRest = <<>>
    <3>1. s.frames = bmcFrames
      BY <1>8, <2>2 DEF Sent
    <3> QED BY <2>1, <3>1, PrefixSelf
  <2>3. CASE bmcRest # <<>>
    <3>1. PICK data \in Seq(Nat) :
            bmcFrames = IF Supported(data \o bmcRest)
                        THEN Append(s.frames, data \o bmcRest) ELSE s.frames
      BY <1>8, <2>3 DEF Sent
    <3>2. data \o bmcRest \in Seq(Nat) /\ IsPrefix(s.frames, s.frames)
      BY <1>3, <2>1, ConcatProperties, PrefixSelf
    <3> QED BY <2>1, <3>1, <3>2, PrefixGrows
  <2> QED BY <2>2, <2>3
<1>9. (bmcFrames \in Frames /\ bmcRest \in Seq(Nat) /\ bmcPattern \in Nat)'
  BY <1>1, <1>3, <1>6
<1>10. mWire' = mWire \o bytes
  BY <1>2 DEF bytes
<1>11. \A s \in Prospects : Sent(s) =>
         \E t \in Prospects : /\ Taken(Longer(s, bytes), t) /\ Sent(t)'
                              /\ IsPrefix(t.frames, bmcFrames')
  BY <1>7, <1>8
<1> QED BY <1>1, <1>3, <1>5, <1>9, <1>10, <1>11, PathGrows

\* What breaks the protocol is to come, and is refused then.
LEMMA SendBrokenStep == StreamInv /\ SendBroken => StreamInv'
<1> SUFFICES ASSUME StreamInv, SendBroken PROVE StreamInv'
  OBVIOUS
<1> DEFINE large == <<OtherType, TooLarge>>
           nothing == <<>>
           much == IF bmcRest = <<>> THEN <<0, 0>> ELSE <<0>> \o bmcRest \o <<7>>
<1>1. /\ ~bmcBroken /\ bmcBroken' = TRUE /\ UNCHANGED megaracViewVars
      /\ bmcFrames' = bmcFrames /\ bmcRest' = bmcRest /\ bmcPattern' = bmcPattern
  BY DEF SendBroken
<1>2. PICK bytes \in {large, Packet(VideoType, nothing), Packet(VideoType, much)} :
        mWire' = mWire \o bytes
  BY DEF SendBroken
<1>3. /\ bmcRest \in Seq(Nat) /\ bmcFrames \in Frames /\ bmcPattern \in Nat
      /\ bmcBroken \in BOOLEAN
  BY DEF StreamInv
<1>4. nothing \in Seq(Nat) /\ much \in Seq(Nat) /\ large \in Seq(Nat)
  BY <1>3 DEF OtherType, TooLarge
<1>5. bytes \in Seq(Nat)
  <2>1. VideoType \in Nat
    BY DEF VideoType
  <2> HIDE DEF nothing, much, large
  <2>2. Packet(VideoType, nothing) \in Seq(Nat) /\ Packet(VideoType, much) \in Seq(Nat)
    BY <1>4, <2>1, PacketIs
  <2> QED BY <1>2, <1>4, <2>2
<1>6. ASSUME NEW s \in Prospects, Sent(s)
      PROVE  Sent(Longer(s, bytes))'
  <2> DEFINE u == Longer(s, bytes)
  <2>1. s.stream = <<>> /\ s.pattern = bmcPattern
    BY <1>1, <1>6 DEF Sent
  <2>2. /\ u.stream = bytes /\ u.frames = s.frames /\ u.current = s.current
        /\ u.pattern = bmcPattern
    <3>1. <<>> \o bytes = bytes
      BY <1>5, ConcatEmptySeq
    <3> QED BY <1>5, <2>1, <3>1, LongerIs
  <2> HIDE DEF u
  <2>3. Refused(u)
    <3>1. CASE bytes = large
      BY <2>2, <3>1 DEF Refused, MegaracHeader, TooLarge
    <3>2. CASE bytes = Packet(VideoType, nothing)
      <4>1. Refuses(u.current, nothing)
        BY DEF Refuses, FirstHeader, NextHeader
      <4> QED BY <1>4, <2>2, <3>2, <4>1 DEF Refused
    <3>3. CASE bytes = Packet(VideoType, much)
      <4>1. Refuses(u.current, much)
        <5>1. CASE bmcRest = <<>>
          <6>1. u.current = <<>> /\ much = <<0, 0>>
            BY <1>6, <2>2, <5>1 DEF Sent
          <6>2. Len(much) = 2 /\ much[2] = 0
            <7>1. Len(<<0, 0>>) = 2 /\ <<0, 0>>[2] = 0
              OBVIOUS
            <7> HIDE DEF much
            <7> QED BY <6>1, <7>1
          <6> HIDE DEF much
          <6> QED BY <6>1, <6>2 DEF Refuses, TooLarge, FirstHeader
        <5>2. CASE bmcRest # <<>>
          <6>1. PICK data \in Seq(Nat) :
                  s.current = <<[size |-> Len(data) + Len(bmcRest), data |-> data]>>
            BY <1>6, <5>2 DEF Sent
          <6> DEFINE was == [size |-> Len(data) + Len(bmcRest), data |-> data]
                     tail == bmcRest \o <<7>>
                     head == <<0>>
          <6>2. u.current # <<>> /\ u.current[1] = was
            BY <2>2, <6>1
          <6>3. tail \in Seq(Nat) /\ Len(tail) = Len(bmcRest) + 1
            BY <1>3
          <6>4. head \in Seq(Nat) /\ Len(head) = 1
            OBVIOUS
          <6>5. much = head \o tail
            <7>1. much = (<<0>> \o bmcRest) \o <<7>>
              BY <5>2
            <7>2. <<7>> \in Seq(Nat)
              OBVIOUS
            <7> QED BY <1>3, <6>4, <7>1, <7>2, Joined, Zenon
          <6> HIDE DEF was, tail, head, much
          <6>6. SubSeq(much, NextHeader + 1, Len(much)) = tail
            BY <6>3, <6>4, <6>5, SliceOfSecond DEF NextHeader
          <6>7. Assembled(u.current, much) = [was EXCEPT !.data = was.data \o tail]
            BY <6>2, <6>6 DEF Assembled
          <6>8. was.data = data /\ was.size = Len(data) + Len(bmcRest)
            BY DEF was
          <6>9. Len(data \o tail) = Len(data) + Len(tail)
            BY <6>3, ConcatProperties
          <6>10. /\ Assembled(u.current, much).data = data \o tail
                 /\ Assembled(u.current, much).size = Len(data) + Len(bmcRest)
            <7> DEFINE longer == data \o tail
            <7>1. Assembled(u.current, much) = [was EXCEPT !.data = longer]
              BY <6>7, <6>8
            <7> HIDE DEF longer
            <7>2. [was EXCEPT !.data = longer].data = longer
              BY DEF was
            <7>3. [was EXCEPT !.data = longer].size = was.size
              BY DEF was
            <7> QED BY <6>8, <7>1, <7>2, <7>3 DEF longer
          <6>11. Len(data \o tail) > Len(data) + Len(bmcRest)
            BY <1>3, <6>3, <6>9
          <6> QED BY <6>2, <6>10, <6>11 DEF Refuses
        <5> QED BY <5>1, <5>2
      <4> QED BY <1>4, <2>2, <3>3, <4>1 DEF Refused
    <3> QED BY <1>2, <3>1, <3>2, <3>3
  <2>4. CASE bmcRest = <<>>
    <3>1. u.current = <<>> /\ u.frames = bmcFrames
      BY <1>6, <2>2, <2>4 DEF Sent
    <3> QED BY <1>1, <2>2, <2>3, <2>4, <3>1 DEF Sent, u
  <2>5. CASE bmcRest # <<>>
    <3>1. PICK data \in Seq(Nat) :
            /\ Len(data) + Len(bmcRest) < TooLarge - 2
            /\ s.current = <<[size |-> Len(data) + Len(bmcRest), data |-> data]>>
            /\ bmcFrames = IF Supported(data \o bmcRest)
                           THEN Append(s.frames, data \o bmcRest) ELSE s.frames
      BY <1>6, <2>5 DEF Sent
    <3>2. Sent(u)'
      BY <1>1, <2>2, <2>3, <2>5, <3>1 DEF Sent
    <3> QED BY <3>2 DEF u
  <2> QED BY <2>4, <2>5
<1>7. (bmcFrames \in Frames /\ bmcRest \in Seq(Nat) /\ bmcPattern \in Nat)'
  BY <1>1, <1>3
<1>8. \A s \in Prospects : IsPrefix(s.frames, bmcFrames) => IsPrefix(s.frames, bmcFrames')
  BY <1>1
<1> QED BY <1>1, <1>2, <1>5, <1>6, <1>7, <1>8, PathGrows

\* Reading, and the end of the session, change nothing of the stream.
LEMMA MegaracReadStep == StreamInv /\ MegaracRead => StreamInv'
<1> SUFFICES ASSUME StreamInv, MegaracRead PROVE StreamInv'
  OBVIOUS
<1>1. PICK n \in 1 .. Len(mWire) :
        /\ mBuffer' = Appended(mBuffer, SubSeq(mWire, 1, n))
        /\ mWire' = SubSeq(mWire, n + 1, Len(mWire))
  BY DEF MegaracRead
<1>2. /\ mReading' = FALSE
      /\ assembler' = assembler /\ mPattern' = mPattern /\ mSource' = mSource
      /\ mFrames' = mFrames /\ mCursor' = mCursor /\ mFailed' = mFailed
      /\ bmcFrames' = bmcFrames /\ bmcRest' = bmcRest /\ bmcPattern' = bmcPattern
      /\ bmcBroken' = bmcBroken
  BY DEF MegaracRead, megaracBmcVars
<1>3. IsBuffer(mBuffer) /\ mWire \in Seq(Nat) /\ Unread(mBuffer) \in Seq(Nat)
  BY UnreadIs DEF StreamInv
<1> DEFINE come == SubSeq(mWire, 1, n)
           wait == SubSeq(mWire, n + 1, Len(mWire))
<1>4. come \in Seq(Nat) /\ wait \in Seq(Nat) /\ come \o wait = mWire
  <2>1. n \in 0 .. Len(mWire)
    BY <1>3
  <2> QED BY <1>3, <2>1, CutIs
<1>5. mBuffer' = Appended(mBuffer, come) /\ mWire' = wait
  BY <1>1
<1> HIDE DEF come, wait
<1>6. IsBuffer(mBuffer') /\ Unread(mBuffer') = Unread(mBuffer) \o come
  BY <1>3, <1>4, <1>5, AppendedIs
<1>7. Unread(mBuffer') \o mWire' = Unread(mBuffer) \o mWire
  <2>1. (Unread(mBuffer) \o come) \o wait = Unread(mBuffer) \o (come \o wait)
    <3>1. come \in Seq(Nat) /\ wait \in Seq(Nat)
      BY <1>4
    <3> QED BY <1>3, <3>1, Joined, Zenon
  <2> QED BY <1>4, <1>5, <1>6, <2>1
<1>8. Here' = Here
  BY <1>2, <1>7 DEF Here
<1>9. PICK prospects \in SUBSET Prospects : Here \in prospects /\ Path(prospects)
  BY DEF StreamInv
<1>10. Here' \in prospects /\ Path(prospects)'
  BY <1>2, <1>8, <1>9 DEF Path, Sent
<1>11. \E some \in SUBSET Prospects : Here' \in some /\ Path(some)'
  BY <1>10
<1>12. /\ IsBuffer(mBuffer)' /\ (mWire \in Seq(Nat))' /\ (mReading => ~PacketThere)'
       /\ (mSource \in [width : Nat, height : Nat])'
       /\ (mFrames \in Frames /\ assembler \in Partial /\ mPattern \in Nat)'
       /\ (bmcFrames \in Frames /\ bmcRest \in Seq(Nat) /\ bmcPattern \in Nat)'
       /\ (bmcBroken \in BOOLEAN)' /\ (mFailed => bmcBroken)'
       /\ (mCursor # NoCursor => mCursor.pattern = mPattern)'
       /\ (\A w, h \in Nat : ReadsInside(mCursor, [width |-> w, height |-> h]))'
  BY <1>2, <1>4, <1>5, <1>6 DEF StreamInv
<1> QED BY <1>11, <1>12 DEF StreamInv

\* What is said of the viewer does not depend on how far its buffer is compacted.
LEMMA SameStream ==
  ASSUME StreamInv, IsBuffer(mBuffer'), Unread(mBuffer') = Unread(mBuffer),
         UNCHANGED <<mWire, assembler, mPattern, mSource, mFrames, mCursor, megaracBmcVars>>,
         mReading' => ~PacketThere', mFailed' => bmcBroken
  PROVE  StreamInv'
<1>1. /\ mWire' = mWire /\ assembler' = assembler /\ mPattern' = mPattern
      /\ mSource' = mSource /\ mFrames' = mFrames /\ mCursor' = mCursor
      /\ bmcFrames' = bmcFrames /\ bmcRest' = bmcRest /\ bmcPattern' = bmcPattern
      /\ bmcBroken' = bmcBroken
  BY DEF megaracBmcVars
<1>2. Here' = Here
  BY <1>1 DEF Here
<1>3. PICK prospects \in SUBSET Prospects : Here \in prospects /\ Path(prospects)
  BY DEF StreamInv
<1>4. Here' \in prospects /\ Path(prospects)'
  BY <1>1, <1>2, <1>3 DEF Path, Sent
<1>5. \E some \in SUBSET Prospects : Here' \in some /\ Path(some)'
  BY <1>4
<1>6. /\ (mWire \in Seq(Nat))'
      /\ (mSource \in [width : Nat, height : Nat])'
      /\ (mFrames \in Frames /\ assembler \in Partial /\ mPattern \in Nat)'
      /\ (bmcFrames \in Frames /\ bmcRest \in Seq(Nat) /\ bmcPattern \in Nat)'
      /\ (bmcBroken \in BOOLEAN)'
      /\ (mCursor # NoCursor => mCursor.pattern = mPattern)'
      /\ (\A w, h \in Nat : ReadsInside(mCursor, [width |-> w, height |-> h]))'
  BY <1>1 DEF StreamInv
<1> QED BY <1>1, <1>5, <1>6 DEF StreamInv

\* There is a packet in what is unread, or there is none, wherever it lies.
LEMMA SamePacket ==
  ASSUME IsBuffer(mBuffer), IsBuffer(mBuffer'), Unread(mBuffer') = Unread(mBuffer)
  PROVE  PacketThere' <=> PacketThere
<1>1. \A n : CanRead(mBuffer, n) <=> n \in 0 .. Len(Unread(mBuffer))
  BY UnreadIs
<1>2. \A n : CanRead(mBuffer', n) <=> n \in 0 .. Len(Unread(mBuffer))
  BY UnreadIs
<1>3. ASSUME CanRead(mBuffer, MegaracHeader)
      PROVE  Byte(mBuffer', 1) = Byte(mBuffer, 1)
  <2>1. 1 \in 0 .. Buffered(mBuffer) - 1 /\ Buffered(mBuffer') = Buffered(mBuffer)
    <3>1. /\ Len(Unread(mBuffer)) = Buffered(mBuffer) /\ Buffered(mBuffer) \in Nat
          /\ Len(Unread(mBuffer')) = Buffered(mBuffer')
      BY UnreadIs
    <3> QED BY <1>1, <1>3, <3>1 DEF MegaracHeader
  <2>2. Byte(mBuffer, 1) = Unread(mBuffer)[1 + 1]
    BY <2>1, UnreadIs
  <2>3. Byte(mBuffer', 1) = Unread(mBuffer')[1 + 1]
    BY <2>1, UnreadIs
  <2> QED BY <2>2, <2>3
<1> QED
  BY <1>1, <1>2, <1>3 DEF PacketThere, PacketSize, PayloadSize

\* The loop of on_read() ends: the buffer is compacted.
LEMMA ReadOnStep == StreamInv /\ ReadOn => StreamInv'
<1> SUFFICES ASSUME StreamInv, ReadOn PROVE StreamInv'
  OBVIOUS
<1>1. IsBuffer(mBuffer) /\ ~PacketThere /\ mBuffer' = MegaracCompact(mBuffer)
      /\ mFailed' = mFailed /\ (mFailed => bmcBroken)
      /\ UNCHANGED <<mWire, assembler, mPattern, mSource, mFrames, mCursor, megaracBmcVars>>
  BY DEF ReadOn, StreamInv
<1>2. IsBuffer(mBuffer') /\ Unread(mBuffer') = Unread(mBuffer)
  BY <1>1, CompactIs
<1>3. ~PacketThere'
  BY <1>1, <1>2, SamePacket
<1> QED BY <1>1, <1>2, <1>3, SameStream

\* Only a BMC that has broken the protocol is refused.
LEMMA PacketThrowsStep == StreamInv /\ PacketThrows => StreamInv'
<1> SUFFICES ASSUME StreamInv, PacketThrows PROVE StreamInv'
  OBVIOUS
<1>1. /\ ~mReading
      /\ \/ Implausible
         \/ PacketThere /\ Byte(mBuffer, 0) = VideoType /\ Refuses(assembler, Payload)
      /\ mBuffer' = mBuffer /\ mReading' = mReading
      /\ UNCHANGED <<mWire, assembler, mPattern, mSource, mFrames, mCursor, megaracBmcVars>>
  BY DEF PacketThrows
<1>2. IsBuffer(mBuffer) /\ mWire \in Seq(Nat) /\ bmcBroken \in BOOLEAN
  BY DEF StreamInv
<1>3. PICK prospects \in SUBSET Prospects : Here \in prospects /\ Path(prospects)
  BY DEF StreamInv
<1>4. Here.stream = Unread(mBuffer) \o mWire /\ Here.current = assembler
  BY DEF Here
<1>5. CanRead(mBuffer, MegaracHeader)
  BY <1>1 DEF Implausible, PacketThere
<1>6. Len(Here.stream) >= MegaracHeader /\ PayloadSize = Here.stream[2]
  BY <1>2, <1>4, <1>5, HeaderIs
<1>7. ASSUME NEW next \in prospects, Taken(Here, next) PROVE FALSE
  <2>1. PICK type \in {VideoType, CursorType}, payload \in Seq(Nat) :
          /\ Len(payload) < TooLarge
          /\ Here.stream = Packet(type, payload) \o next.stream
          /\ IF type = VideoType THEN FrameTaken(Here, next, payload)
             ELSE CursorTaken(Here, next, payload)
    BY <1>7 DEF Taken
  <2>2. type \in Nat /\ next.stream \in Seq(Nat)
    BY <1>3 DEF VideoType, CursorType, Prospects
  <2>3. Here.stream[2] = Len(payload)
    <3>1. (Packet(type, payload) \o next.stream)[2] = Len(payload)
      BY <2>2, PacketHeader
    <3> QED BY <2>1, <3>1
  <2>4. ~Implausible
    <3>1. ~(PayloadSize >= TooLarge)
      BY <1>6, <2>1, <2>3 DEF TooLarge
    <3> QED BY <3>1 DEF Implausible
  <2>5. PacketThere /\ Byte(mBuffer, 0) = VideoType /\ Refuses(assembler, Payload)
    BY <1>1, <2>4
  <2>6. Byte(mBuffer, 0) = type /\ Payload = payload
    BY <1>2, <1>4, <2>1, <2>2, <2>5, PacketFound
  <2> QED
    BY <1>4, <2>1, <2>5, <2>6 DEF FrameTaken
<1>8. Sent(Here)
  BY <1>3, <1>7 DEF Path
<1>9. bmcBroken
  <2>1. Here.stream # <<>>
    BY <1>6 DEF MegaracHeader
  <2> QED BY <1>8, <2>1 DEF Sent
<1>10. mReading' => ~PacketThere'
  BY <1>1
<1>11. IsBuffer(mBuffer') /\ Unread(mBuffer') = Unread(mBuffer)
  BY <1>1, <1>2
<1> QED BY <1>1, <1>9, <1>10, <1>11, SameStream

\* The invariant of the MegaRAC stream holds in the beginning ...
LEMMA StreamInit == MegaracWireInit => StreamInv
<1> SUFFICES ASSUME MegaracWireInit PROVE StreamInv
  OBVIOUS
<1>1. /\ mWire = <<>> /\ mBuffer = EmptyBuffer /\ mReading = TRUE /\ assembler = <<>>
      /\ mPattern = NoPattern /\ mFrames = <<>> /\ mCursor = NoCursor /\ mFailed = FALSE
      /\ mSource = [width |-> PatternSize, height |-> PatternSize]
      /\ bmcFrames = <<>> /\ bmcRest = <<>> /\ bmcPattern = NoPattern /\ bmcBroken = FALSE
  BY DEF MegaracWireInit
<1>2. IsBuffer(mBuffer) /\ Unread(mBuffer) = <<>> /\ Unread(mBuffer) \o mWire = <<>>
  BY <1>1, EmptyIs
<1>3. <<>> \in Seq(Nat) /\ <<>> \in Frames /\ <<>> \in Partial /\ NoPattern \in Nat
  BY DEF Frames, Partial, NoPattern
<1>4. ~PacketThere
  <2>1. ~CanRead(mBuffer, MegaracHeader)
    BY <1>2, UnreadIs DEF MegaracHeader
  <2> QED BY <2>1 DEF PacketThere
<1>5. Here \in Prospects
  BY <1>1, <1>2, <1>3 DEF Here, Prospects
<1>6. Path({Here})
  <2>1. /\ Here.stream = <<>> /\ Here.frames = <<>> /\ Here.current = <<>>
        /\ Here.pattern = NoPattern
    BY <1>1, <1>2 DEF Here
  <2>2. Sent(Here)
    BY <1>1, <2>1 DEF Sent
  <2>3. IsPrefix(Here.frames, bmcFrames)
    <3>1. <<>> \in Seq(Nat)
      OBVIOUS
    <3> QED BY <1>1, <2>1, <3>1, PrefixSelf
  <2> QED BY <2>2, <2>3 DEF Path
<1>7. mSource \in [width : Nat, height : Nat]
  BY <1>1, CursorAssumption
<1>8. \A w, h \in Nat : ReadsInside(mCursor, [width |-> w, height |-> h])
  <2>1. ~NoCursor.visible
    BY DEF NoCursor
  <2> QED BY <1>1, <2>1 DEF ReadsInside, Drawn
<1> QED BY <1>1, <1>2, <1>3, <1>4, <1>5, <1>6, <1>7, <1>8 DEF StreamInv

\* ... and after every step.
LEMMA StreamStep == StreamInv /\ [MegaracWireNext]_megaracWireVars => StreamInv'
<1>1. StreamInv /\ UNCHANGED megaracWireVars => StreamInv'
  <2> SUFFICES ASSUME StreamInv, UNCHANGED megaracWireVars PROVE StreamInv'
    OBVIOUS
  <2>1. /\ mBuffer' = mBuffer /\ mReading' = mReading /\ mFailed' = mFailed
        /\ UNCHANGED <<mWire, assembler, mPattern, mSource, mFrames, mCursor, megaracBmcVars>>
    BY DEF megaracWireVars, megaracBmcVars
  <2>2. IsBuffer(mBuffer') /\ Unread(mBuffer') = Unread(mBuffer) /\ (mFailed' => bmcBroken)
    BY <2>1 DEF StreamInv
  <2>3. mReading' => ~PacketThere'
    BY <2>1, <2>2, SamePacket DEF StreamInv
  <2> QED BY <2>1, <2>2, <2>3, SameStream
<1> QED
  BY <1>1, SendFrameStep, SendFragmentStep, SendCursorStep, SendBrokenStep,
     MegaracReadStep, ReadOnStep, HandleStep, PacketThrowsStep DEF MegaracWireNext

\* The three facts of MegaRAC's stream.
LEMMA StreamSays ==
  StreamInv => /\ MegaracFramesInOrder /\ MegaracNothingKept /\ MegaracNeverRefused
<1> SUFFICES ASSUME StreamInv
             PROVE  MegaracFramesInOrder /\ MegaracNothingKept /\ MegaracNeverRefused
  OBVIOUS
<1>1. PICK prospects \in SUBSET Prospects : Here \in prospects /\ Path(prospects)
  BY DEF StreamInv
<1>2. /\ Here.stream = Unread(mBuffer) \o mWire /\ Here.frames = mFrames
      /\ Here.current = assembler /\ Here.pattern = mPattern
  BY DEF Here
<1>3. MegaracFramesInOrder
  BY <1>1, <1>2 DEF Path, MegaracFramesInOrder
<1>4. MegaracNeverRefused
  BY DEF StreamInv, MegaracNeverRefused
<1>5. ASSUME mReading, mWire = <<>>, ~bmcBroken
      PROVE  /\ bmcRest = <<>> => mFrames = bmcFrames
             /\ mPattern = bmcPattern
             /\ mCursor # NoCursor => mCursor.pattern = mPattern
  <2>1. ~PacketThere /\ IsBuffer(mBuffer)
    BY <1>5 DEF StreamInv
  <2>2. ASSUME NEW next \in prospects, Taken(Here, next) PROVE FALSE
    <3>1. PICK type \in {VideoType, CursorType}, payload \in Seq(Nat) :
            Here.stream = Packet(type, payload) \o next.stream
      BY <2>2 DEF Taken
    <3>2. type \in Nat /\ next.stream \in Seq(Nat)
      BY <1>1 DEF VideoType, CursorType, Prospects
    <3> QED BY <1>2, <1>5, <2>1, <3>1, <3>2, PacketComes
  <2>3. Sent(Here)
    BY <1>1, <2>2 DEF Path
  <2> QED BY <1>2, <2>3 DEF Sent, StreamInv
<1>6. MegaracNothingKept
  BY <1>5 DEF MegaracNothingKept
<1> QED BY <1>3, <1>4, <1>6

-----------------------------------------------------------------------------
\* Recursion, and the rectangles of an ATEN update.

\* A set of numbers that is not empty has a least one.
LEMMA LeastOf ==
  ASSUME NEW T \in SUBSET Nat, T # {}
  PROVE  \E n \in T : \A m \in T : n <= m
<1> DEFINE less == OpToRel(<, Nat)
<1>1. IsWellFoundedOn(less, Nat)
  BY NatLessThanWellFounded
<1>2. \A n, m \in Nat : n < m => <<n, m>> \in less
  BY DEF OpToRel
<1> HIDE DEF less
<1>3. PICK n \in T : \A m \in T : ~ (<<m, n>> \in less)
  BY <1>1, WFMin
<1>4. \A m \in T : ~(m < n)
  BY <1>2, <1>3
<1> QED BY <1>4

\* Induction, of a set of numbers.
LEMMA SetInduction ==
  ASSUME NEW T \in SUBSET Nat, 0 \in T, \A n \in T : n + 1 \in T
  PROVE  T = Nat
<1> SUFFICES ASSUME Nat \ T # {} PROVE FALSE
  OBVIOUS
<1>1. PICK n \in Nat \ T : \A m \in Nat \ T : n <= m
  BY LeastOf
<1>2. n - 1 \in Nat /\ n - 1 \notin Nat \ T
  BY <1>1
<1>3. (n - 1) + 1 \in T
  BY <1>2
<1> QED BY <1>1, <1>3

\* f is what the recursive definition from first by next describes.
Iterates(f, first, next) == f[0] = first /\ \A n \in Nat : f[n + 1] = next[f[n]]

\* A function over the numbers that begins with first and goes on with next does exist.
LEMMA Recursion ==
  ASSUME NEW S, NEW first \in S, NEW next \in [S -> S]
  PROVE  \E f \in [Nat -> S] : Iterates(f, first, next)
<1> DEFINE Upto(f, n) == /\ f \in [Nat -> S] /\ f[0] = first
                         /\ \A i \in Nat : i < n => f[i + 1] = next[f[i]]
           T == {n \in Nat : \E f \in [Nat -> S] : Upto(f, n)}
<1>1. 0 \in T
  <2>1. Upto([i \in Nat |-> first], 0)
    OBVIOUS
  <2> QED BY <2>1
<1>2. ASSUME NEW n \in T PROVE n + 1 \in T
  <2>1. PICK f \in [Nat -> S] : Upto(f, n)
    OBVIOUS
  <2> DEFINE g == [f EXCEPT ![n + 1] = next[f[n]]]
  <2>2. n \in Nat /\ n + 1 \in Nat /\ f[n] \in S /\ next[f[n]] \in S
    OBVIOUS
  <2>3. g \in [Nat -> S] /\ g[n + 1] = next[f[n]] /\ \A i \in Nat : i # n + 1 => g[i] = f[i]
    BY <2>2
  <2> HIDE DEF g
  <2>4. g[0] = first
    <3>1. 0 # n + 1 /\ 0 \in Nat
      BY <2>2
    <3> QED BY <2>1, <2>3, <3>1
  <2>5. ASSUME NEW i \in Nat, i < n + 1 PROVE g[i + 1] = next[g[i]]
    <3>1. g[i] = f[i]
      BY <2>2, <2>3, <2>5
    <3>2. CASE i = n
      BY <2>3, <3>1, <3>2
    <3>3. CASE i # n
      <4>1. i < n /\ i + 1 \in Nat /\ i + 1 # n + 1
        BY <2>2, <2>5, <3>3
      <4> QED BY <2>1, <2>3, <3>1, <4>1
    <3> QED BY <3>2, <3>3
  <2>6. Upto(g, n + 1)
    BY <2>3, <2>4, <2>5
  <2> QED BY <2>2, <2>3, <2>6
<1>3. T = Nat
  <2> HIDE DEF T
  <2>1. T \subseteq Nat
    BY DEF T
  <2> QED BY <1>1, <1>2, <2>1, SetInduction
\* Two of them agree as far as both go.
<1>4. ASSUME NEW n \in Nat, NEW m \in Nat, NEW f, NEW g, Upto(f, n), Upto(g, m)
      PROVE  \A i \in Nat : i <= n /\ i <= m => f[i] = g[i]
  <2> DEFINE A == {i \in Nat : i <= n /\ i <= m => f[i] = g[i]}
  <2>1. 0 \in A
    BY <1>4
  <2>2. ASSUME NEW i \in A PROVE i + 1 \in A
    <3> SUFFICES ASSUME i + 1 <= n, i + 1 <= m PROVE f[i + 1] = g[i + 1]
      OBVIOUS
    <3>1. i \in Nat /\ i < n /\ i < m /\ i <= n /\ i <= m
      OBVIOUS
    <3>2. f[i] = g[i]
      BY <3>1
    <3> QED BY <1>4, <3>1, <3>2
  <2>3. A = Nat
    <3> HIDE DEF A
    <3>1. A \subseteq Nat
      BY DEF A
    <3> QED BY <2>1, <2>2, <3>1, SetInduction
  <2> QED BY <2>3
<1> DEFINE h == [n \in Nat |-> CHOOSE f \in [Nat -> S] : Upto(f, n)]
           g == [n \in Nat |-> h[n][n]]
<1>5. \A n \in Nat : h[n] \in [Nat -> S] /\ Upto(h[n], n)
  <2>1. \A n \in Nat : \E f \in [Nat -> S] : Upto(f, n)
    BY <1>3
  <2> HIDE DEF Upto
  <2> QED BY <2>1
<1>6. g \in [Nat -> S]
  <2> HIDE DEF Upto, h
  <2> QED BY <1>5
<1>7. g[0] = first
  <2> HIDE DEF h
  <2>1. 0 \in Nat /\ g[0] = h[0][0]
    OBVIOUS
  <2> QED BY <1>5, <2>1
<1>8. ASSUME NEW n \in Nat PROVE g[n + 1] = next[g[n]]
  <2> HIDE DEF h
  <2>1. n + 1 \in Nat /\ g[n + 1] = h[n + 1][n + 1] /\ g[n] = h[n][n]
    OBVIOUS
  <2>2. Upto(h[n], n) /\ Upto(h[n + 1], n + 1)
    BY <1>5, <2>1
  <2> HIDE DEF g
  <2>3. h[n + 1][n] = h[n][n]
    <3>1. n <= n /\ n <= n + 1
      OBVIOUS
    <3> HIDE DEF Upto
    <3> QED BY <1>4, <2>1, <2>2, <3>1
  <2>4. n < n + 1
    OBVIOUS
  <2>5. h[n + 1][n + 1] = next[h[n + 1][n]]
    BY <2>2, <2>4
  <2> QED BY <2>1, <2>3, <2>5
<1> HIDE DEF g
<1> QED BY <1>6, <1>7, <1>8 DEF Iterates

\* Where the rectangles begin, one after the other.
LEMMA RectStartIs ==
  ASSUME NEW bytes \in Seq(Nat)
  PROVE  /\ RectStart(bytes)[0] = UpdateHeader
         /\ \A n \in Nat : RectStart(bytes)[n + 1] = AfterRect(bytes, RectStart(bytes)[n])
         /\ \A n \in Nat : RectStart(bytes)[n] \in Nat \cup {Beyond}
<1> DEFINE Right(f) ==
             f = [i \in Nat |-> IF i = 0 THEN UpdateHeader ELSE AfterRect(bytes, f[i - 1])]
<1>0. PICK S : S = Nat \cup {Beyond}
  OBVIOUS
<1>1. ASSUME NEW at \in S PROVE AfterRect(bytes, at) \in S
  <2>1. CASE at # Beyond /\ at + RectHeader <= Len(bytes)
    <3>1. at \in Nat /\ RectHeader = 2 /\ Len(bytes) \in Nat
      BY <1>0, <2>1 DEF RectHeader
    <3>2. at + RectHeader \in 1 .. Len(bytes)
      BY <2>1, <3>1
    <3>3. bytes[at + RectHeader] \in Nat
      BY <3>2
    <3>4. at + RectHeader + bytes[at + RectHeader] \in Nat
      BY <3>1, <3>3
    <3> QED BY <1>0, <2>1, <3>4 DEF AfterRect
  <2>2. CASE ~(at # Beyond /\ at + RectHeader <= Len(bytes))
    BY <1>0, <2>2 DEF AfterRect
  <2> QED BY <2>1, <2>2
<1>2. UpdateHeader \in S
  BY <1>0 DEF UpdateHeader
<1>10. PICK next \in [S -> S] : \A at \in S : next[at] = AfterRect(bytes, at)
  <2>1. [at \in S |-> AfterRect(bytes, at)] \in [S -> S]
    BY <1>1
  <2> QED BY <2>1
<1>11. PICK f \in [Nat -> S] : Iterates(f, UpdateHeader, next)
  BY <1>2, Recursion
<1>3. f[0] = UpdateHeader /\ \A n \in Nat : f[n + 1] = next[f[n]]
  BY <1>11 DEF Iterates
<1>4. Right(f)
  <2> DEFINE r == [i \in Nat |-> IF i = 0 THEN UpdateHeader ELSE AfterRect(bytes, f[i - 1])]
  <2>1. ASSUME NEW i \in Nat PROVE f[i] = r[i]
    <3>1. CASE i = 0
      BY <1>3, <3>1
    <3>2. CASE i # 0
      <4>1. i - 1 \in Nat /\ (i - 1) + 1 = i
        BY <3>2
      <4>2. f[i] = next[f[i - 1]] /\ f[i - 1] \in S
        BY <1>3, <4>1
      <4> QED BY <1>10, <3>2, <4>2
    <3> QED BY <3>1, <3>2
  <2>2. f = [i \in Nat |-> f[i]]
    OBVIOUS
  <2> QED BY <2>1, <2>2
<1>5. RectStart(bytes) = CHOOSE g : Right(g)
  BY DEF RectStart
<1> DEFINE g == RectStart(bytes)
<1>6. Right(g)
  <2> HIDE DEF Right
  <2> QED BY <1>4, <1>5
<1> HIDE DEF g
<1>7. g[0] = UpdateHeader
  <2>1. 0 \in Nat
    OBVIOUS
  <2> QED BY <1>6, <2>1
<1>8. \A n \in Nat : g[n + 1] = AfterRect(bytes, g[n])
  <2> TAKE n \in Nat
  <2>1. n + 1 \in Nat /\ n + 1 # 0 /\ (n + 1) - 1 = n
    OBVIOUS
  <2> QED BY <1>6, <2>1
<1>9. \A n \in Nat : g[n] \in S
  <2> DEFINE T == {n \in Nat : g[n] \in S}
  <2>1. 0 \in T
    BY <1>2, <1>7
  <2>2. ASSUME NEW n \in T PROVE n + 1 \in T
    <3>1. n \in Nat /\ g[n] \in S
      OBVIOUS
    <3>2. next[g[n]] \in S /\ next[g[n]] = AfterRect(bytes, g[n])
      BY <1>10, <3>1
    <3>3. g[n + 1] = AfterRect(bytes, g[n])
      BY <1>8, <3>1
    <3>4. n + 1 \in Nat
      BY <3>1
    <3> QED BY <3>2, <3>3, <3>4
  <2>3. T = Nat
    <3> HIDE DEF T
    <3>1. T \subseteq Nat
      BY DEF T
    <3> QED BY <2>1, <2>2, <3>1, SetInduction
  <2> QED BY <2>3
<1> QED BY <1>0, <1>7, <1>8, <1>9 DEF g

-----------------------------------------------------------------------------
\* The length of an ATEN message.

\* Where a rectangle begins is known once the bytes before it are there.
LEMMA RectStartLonger ==
  ASSUME NEW bytes \in Seq(Nat), NEW more \in Seq(Nat)
  PROVE  \A n \in Nat : RectStart(bytes)[n] # Beyond
                          => RectStart(bytes \o more)[n] = RectStart(bytes)[n]
<1> DEFINE all == bytes \o more
           start == RectStart(bytes)
           longer == RectStart(all)
           T == {n \in Nat : start[n] # Beyond => longer[n] = start[n]}
<1>1. /\ all \in Seq(Nat) /\ Len(all) = Len(bytes) + Len(more)
      /\ \A i \in 1 .. Len(bytes) : all[i] = bytes[i]
  BY ConcatProperties
<1> HIDE DEF all
<1>2. /\ start[0] = UpdateHeader /\ \A n \in Nat : start[n + 1] = AfterRect(bytes, start[n])
      /\ \A n \in Nat : start[n] \in Nat \cup {Beyond}
  BY RectStartIs
<1>3. longer[0] = UpdateHeader /\ \A n \in Nat : longer[n + 1] = AfterRect(all, longer[n])
  BY <1>1, RectStartIs
<1> HIDE DEF start, longer
<1>4. 0 \in T
  BY <1>2, <1>3
<1>5. ASSUME NEW n \in T PROVE n + 1 \in T
  <2>1. n \in Nat /\ n + 1 \in Nat
    OBVIOUS
  <2>2. ASSUME start[n + 1] # Beyond PROVE longer[n + 1] = start[n + 1]
    <3> DEFINE at == start[n]
    <3>1. start[n + 1] = AfterRect(bytes, at)
      BY <1>2, <2>1
    <3>2. at # Beyond /\ at + RectHeader <= Len(bytes)
      BY <2>2, <3>1 DEF AfterRect
    <3>3. at \in Nat /\ longer[n] = at
      BY <1>2, <2>1, <3>2
    <3>4. longer[n + 1] = AfterRect(all, at)
      BY <1>3, <2>1, <3>3
    <3> HIDE DEF at
    <3>5. at + RectHeader \in 1 .. Len(bytes) /\ Len(bytes) <= Len(all)
      <4>1. Len(bytes) \in Nat /\ Len(more) \in Nat /\ RectHeader = 2
        BY DEF RectHeader
      <4> QED BY <1>1, <3>2, <3>3, <4>1
    <3>6. all[at + RectHeader] = bytes[at + RectHeader] /\ at + RectHeader <= Len(all)
      <4>1. Len(bytes) \in Nat /\ Len(all) \in Nat
        BY <1>1
      <4> QED BY <1>1, <3>5, <4>1
    <3> QED BY <3>1, <3>2, <3>4, <3>6 DEF AfterRect
  <2> QED BY <2>1, <2>2
<1>6. T = Nat
  <2> HIDE DEF T
  <2>1. T \subseteq Nat
    BY DEF T
  <2> QED BY <1>4, <1>5, <2>1, SetInduction
<1>7. \A n \in Nat : start[n] # Beyond => longer[n] = start[n]
  BY <1>6
<1> QED BY <1>7 DEF start, longer, all

\* The length that is found is that of bytes that are there.
LEMMA LengthIs ==
  ASSUME NEW bytes \in Seq(Nat), bytes # <<>>, ~Rejected(bytes)
  PROVE  /\ LengthOf(bytes) \in 0 .. Len(bytes)
         /\ bytes[1] = UpdateType =>
              LengthOf(bytes) = IF Len(bytes) < 2 THEN 0
                                ELSE IF RectStart(bytes)[bytes[2]] \in 0 .. Len(bytes)
                                     THEN RectStart(bytes)[bytes[2]] ELSE 0
         /\ bytes[1] = CursorMessage =>
              LengthOf(bytes) = IF Len(bytes) < 4 THEN 0
                                ELSE IF bytes[2] = 1
                                     THEN IF 5 + bytes[4] \in 0 .. Len(bytes)
                                          THEN 5 + bytes[4] ELSE 0
                                     ELSE 4
         /\ bytes[1] \notin {UpdateType, CursorMessage} =>
              LengthOf(bytes) = IF bytes[1] = BellType THEN 1
                                ELSE IF 2 \in 0 .. Len(bytes) THEN 2 ELSE 0
<1>1. Len(bytes) \in Nat \ {0}
  BY EmptySeq
<1>2. bytes[1] = UpdateType =>
        LengthOf(bytes) = IF Len(bytes) < 2 THEN 0
                          ELSE IF RectStart(bytes)[bytes[2]] \in 0 .. Len(bytes)
                               THEN RectStart(bytes)[bytes[2]] ELSE 0
  BY DEF LengthOf, UpdateHeader, UpdateType, BellType, CursorMessage, LongTypes
<1>3. bytes[1] = CursorMessage =>
        LengthOf(bytes) = IF Len(bytes) < 4 THEN 0
                          ELSE IF bytes[2] = 1
                               THEN IF 5 + bytes[4] \in 0 .. Len(bytes)
                                    THEN 5 + bytes[4] ELSE 0
                               ELSE 4
  BY DEF LengthOf, CursorHeader, UpdateType, BellType, CursorMessage, LongTypes
<1>4. bytes[1] \notin {UpdateType, CursorMessage} =>
        LengthOf(bytes) = IF bytes[1] = BellType THEN 1
                          ELSE IF 2 \in 0 .. Len(bytes) THEN 2 ELSE 0
  BY DEF LengthOf, Rejected, Unknown, UpdateType, BellType, CursorMessage, LongTypes
<1>5. LengthOf(bytes) \in 0 .. Len(bytes)
  BY <1>1, <1>2, <1>3, <1>4
<1> QED BY <1>2, <1>3, <1>4, <1>5

\* A message that is complete stays so, whatever follows it.
LEMMA LengthLonger ==
  ASSUME NEW bytes \in Seq(Nat), NEW more \in Seq(Nat), LengthOf(bytes) > 0
  PROVE  LengthOf(bytes \o more) = LengthOf(bytes)
<1> DEFINE all == bytes \o more
           total == Len(bytes)
<1>1. /\ all \in Seq(Nat) /\ Len(all) = total + Len(more)
      /\ \A i \in 1 .. total : all[i] = bytes[i]
  BY ConcatProperties
<1>2. bytes # <<>> /\ ~Rejected(bytes)
  <2>1. ~(0 > 0) /\ ~(-1 > 0)
    OBVIOUS
  <2> QED BY <2>1 DEF LengthOf
<1>3. total \in Nat \ {0} /\ Len(more) \in Nat /\ \A i \in 1 .. total : bytes[i] \in Nat
  BY <1>2, EmptySeq
<1>4. \A n \in Nat : RectStart(bytes)[n] # Beyond
                       => RectStart(all)[n] = RectStart(bytes)[n]
  BY RectStartLonger
<1> HIDE DEF all
<1>5. all # <<>> /\ all[1] = bytes[1] /\ ~Rejected(all)
  <2>1. Len(all) > 0
    BY <1>1, <1>3
  <2>2. 1 \in 1 .. total
    BY <1>3
  <2>3. all # <<>> /\ all[1] = bytes[1]
    BY <1>1, <2>1, <2>2
  <2>4. ~Unknown(all)
    BY <1>2, <2>3 DEF Rejected, Unknown
  <2>5. ~OversizedCursor(all)
    <3> SUFFICES ASSUME all[1] = CursorMessage, all[2] = 1, all[4] > MaxPattern PROVE FALSE
      BY DEF OversizedCursor
    <3>1. LengthOf(bytes) = IF total < 4 THEN 0
                            ELSE IF bytes[2] = 1
                                 THEN IF 5 + bytes[4] \in 0 .. total THEN 5 + bytes[4] ELSE 0
                                 ELSE 4
      BY <1>2, <2>3, LengthIs
    <3> HIDE DEF total
    <3>2. 2 \in 1 .. total /\ 4 \in 1 .. total /\ total >= 4
      BY <1>3, <3>1
    <3>3. bytes[2] = 1 /\ bytes[4] > MaxPattern
      BY <1>1, <3>2
    <3> QED BY <1>2, <2>3, <3>2, <3>3 DEF Rejected, OversizedCursor, CursorHeader, total
  <2> QED BY <2>3, <2>4, <2>5 DEF Rejected
<1>6. CASE bytes[1] = UpdateType
  <2> DEFINE end == RectStart(bytes)[bytes[2]]
  <2>1. LengthOf(bytes) = IF total < 2 THEN 0 ELSE IF end \in 0 .. total THEN end ELSE 0
    BY <1>2, <1>6, LengthIs
  <2>2. LengthOf(all) = IF Len(all) < 2 THEN 0
                        ELSE IF RectStart(all)[all[2]] \in 0 .. Len(all)
                             THEN RectStart(all)[all[2]] ELSE 0
    BY <1>1, <1>5, <1>6, LengthIs
  <2> HIDE DEF total, end
  <2>3. total >= 2 /\ end \in 0 .. total /\ LengthOf(bytes) = end
    BY <1>3, <2>1
  <2>4. 2 \in 1 .. total /\ Len(all) >= 2 /\ end \in 0 .. Len(all)
    BY <1>1, <1>3, <2>3
  <2>5. all[2] = bytes[2] /\ bytes[2] \in Nat
    BY <1>1, <1>3, <2>4
  <2>6. RectStart(all)[all[2]] = end
    <3>1. end # Beyond
      BY <1>3, <2>3 DEF Beyond
    <3> QED BY <1>4, <2>5, <3>1 DEF end
  <2> QED BY <1>1, <1>3, <2>2, <2>3, <2>4, <2>6 DEF all
<1>7. CASE bytes[1] = CursorMessage
  <2>1. LengthOf(bytes) = IF total < 4 THEN 0
                          ELSE IF bytes[2] = 1
                               THEN IF 5 + bytes[4] \in 0 .. total THEN 5 + bytes[4] ELSE 0
                               ELSE 4
    BY <1>2, <1>7, LengthIs
  <2>2. LengthOf(all) = IF Len(all) < 4 THEN 0
                        ELSE IF all[2] = 1
                             THEN IF 5 + all[4] \in 0 .. Len(all) THEN 5 + all[4] ELSE 0
                             ELSE 4
    BY <1>1, <1>5, <1>7, LengthIs
  <2> HIDE DEF total
  <2>3. total >= 4 /\ (bytes[2] = 1 => 5 + bytes[4] \in 0 .. total)
    BY <1>3, <2>1
  <2>4. 2 \in 1 .. total /\ 4 \in 1 .. total /\ Len(all) >= 4
    BY <1>1, <1>3, <2>3
  <2>5. all[2] = bytes[2] /\ all[4] = bytes[4] /\ bytes[4] \in Nat
    BY <1>1, <1>3, <2>4
  <2>6. bytes[2] = 1 => 5 + all[4] \in 0 .. Len(all)
    BY <1>1, <1>3, <2>3, <2>5
  <2>7. LengthOf(all) = LengthOf(bytes)
    BY <2>1, <2>2, <2>3, <2>4, <2>5, <2>6
  <2> QED BY <2>7 DEF all
<1>8. CASE bytes[1] \notin {UpdateType, CursorMessage}
  <2>1. LengthOf(bytes) = IF bytes[1] = BellType THEN 1
                          ELSE IF 2 \in 0 .. total THEN 2 ELSE 0
    BY <1>2, <1>8, LengthIs
  <2>2. LengthOf(all) = IF all[1] = BellType THEN 1
                        ELSE IF 2 \in 0 .. Len(all) THEN 2 ELSE 0
    BY <1>1, <1>5, <1>8, LengthIs
  <2> HIDE DEF total
  <2>3. LengthOf(all) = LengthOf(bytes)
    BY <1>1, <1>3, <1>5, <2>1, <2>2
  <2> QED BY <2>3 DEF all
<1> QED BY <1>6, <1>7, <1>8

\* What is at the front of the bytes that have come, once all of it is there.
LEMMA FrontIs ==
  ASSUME NEW u \in Seq(Nat), NEW w \in Seq(Nat), NEW front \in Seq(Nat),
         NEW rest \in Seq(Nat), u \o w = front \o rest, Len(u) >= Len(front)
  PROVE  /\ SubSeq(u, 1, Len(front)) = front
         /\ SubSeq(u, Len(front) + 1, Len(u)) \o w = rest
<1> DEFINE all == u \o w
           total == Len(front)
<1>1. total \in 0 .. Len(u) /\ 1 \in Nat \ {0} /\ total \in 0 .. Len(front)
  OBVIOUS
<1>2. SubSeq(u, 1, total) = front
  <2>1. SubSeq(all, 1, total) = SubSeq(u, 1, total)
    BY <1>1, SliceOfFirst
  <2>2. SubSeq(front \o rest, 1, total) = SubSeq(front, 1, total)
    BY <1>1, SliceOfFirst
  <2>3. SubSeq(front, 1, Len(front)) = front
    BY SubSeqFull
  <2> QED BY <2>1, <2>2, <2>3
<1>3. SubSeq(u, total + 1, Len(u)) \o w = rest
  <2>1. SubSeq(all, total + 1, Len(all)) = SubSeq(u, total + 1, Len(u)) \o w
    BY <1>1, SliceToEnd
  <2>2. SubSeq(front \o rest, Len(front) + 1, Len(front \o rest)) = rest
    BY SliceOfSecond
  <2> QED BY <2>1, <2>2
<1> QED BY <1>2, <1>3

\* What the parser finds at the front of what has come of a stream that begins with a message.
LEMMA LengthFound ==
  ASSUME NEW u \in Seq(Nat), NEW w \in Seq(Nat), NEW message \in Seq(Nat), WellFormed(message),
         NEW rest \in Seq(Nat), u \o w = message \o rest
  PROVE  /\ u = <<>> => LengthOf(u) = 0
         /\ Rejected(message) => LengthOf(u) \in {-1, 0}
         /\ Rejected(message) /\ Len(u) >= Len(message) => LengthOf(u) = -1
         /\ ~Rejected(message) /\ Len(u) < Len(message) => LengthOf(u) = 0
         /\ ~Rejected(message) /\ Len(u) >= Len(message) =>
              /\ LengthOf(u) = Len(message) /\ Len(message) > 0
              /\ SubSeq(u, 1, Len(message)) = message
              /\ SubSeq(u, Len(message) + 1, Len(u)) \o w = rest
<1> DEFINE all == u \o w
           total == Len(message)
<1>1. message # <<>> /\ total \in Nat \ {0} /\ Len(u) \in Nat /\ Len(w) \in Nat /\ Len(rest) \in Nat
  BY DEF WellFormed
<1>2. /\ all \in Seq(Nat) /\ Len(all) = Len(u) + Len(w)
      /\ \A i \in 1 .. Len(u) : all[i] = u[i]
  <2>1. all \in Seq(Nat) /\ Len(all) = Len(u) + Len(w)
    BY ConcatProperties
  <2>2. \A i \in 1 .. Len(u) + Len(w) : all[i] = IF i <= Len(u) THEN u[i] ELSE w[i - Len(u)]
    BY ConcatProperties
  <2> HIDE DEF all
  <2>3. \A i \in 1 .. Len(u) : i \in 1 .. Len(u) + Len(w) /\ i <= Len(u)
    BY <1>1
  <2> QED BY <2>1, <2>2, <2>3
<1>3. /\ Len(all) = total + Len(rest)
      /\ \A i \in 1 .. total : all[i] = message[i]
  BY ConcatProperties
<1>4. u = <<>> => LengthOf(u) = 0
  BY DEF LengthOf
<1>5. \A i \in 1 .. Len(u) : i \in 1 .. total => u[i] = message[i]
  <2> HIDE DEF all
  <2> QED BY <1>2, <1>3
<1>5a. u # <<>> => 1 \in 1 .. Len(u) /\ 1 \in 1 .. total /\ u[1] = message[1]
  <2>1. u # <<>> => Len(u) # 0
    OBVIOUS
  <2> QED BY <1>1, <1>5, <2>1
<1>5b. u # <<>> => (Unknown(u) <=> Unknown(message))
  BY <1>5a DEF Unknown
<1>5c. OversizedCursor(message) /\ Len(u) >= 4 => OversizedCursor(u)
  <2> SUFFICES ASSUME OversizedCursor(message), Len(u) >= 4 PROVE OversizedCursor(u)
    OBVIOUS
  <2>1. total >= 4 /\ message[1] = CursorMessage /\ message[2] = 1 /\ message[4] > MaxPattern
    BY DEF OversizedCursor, CursorHeader
  <2>2. /\ 1 \in 1 .. Len(u) /\ 2 \in 1 .. Len(u) /\ 4 \in 1 .. Len(u)
        /\ 1 \in 1 .. total /\ 2 \in 1 .. total /\ 4 \in 1 .. total
    <3> HIDE DEF total
    <3> QED BY <1>1, <2>1
  <2>3. u[1] = message[1] /\ u[2] = message[2] /\ u[4] = message[4]
    BY <1>5, <2>2
  <2> QED BY <2>1, <2>3 DEF OversizedCursor, CursorHeader
<1>5d. OversizedCursor(u) /\ total >= 4 => OversizedCursor(message)
  <2> SUFFICES ASSUME OversizedCursor(u), total >= 4 PROVE OversizedCursor(message)
    OBVIOUS
  <2>1. Len(u) >= 4 /\ u[1] = CursorMessage /\ u[2] = 1 /\ u[4] > MaxPattern
    BY DEF OversizedCursor, CursorHeader
  <2>2. /\ 1 \in 1 .. Len(u) /\ 2 \in 1 .. Len(u) /\ 4 \in 1 .. Len(u)
        /\ 1 \in 1 .. total /\ 2 \in 1 .. total /\ 4 \in 1 .. total
    <3> HIDE DEF total
    <3> QED BY <1>1, <2>1
  <2>3. u[1] = message[1] /\ u[2] = message[2] /\ u[4] = message[4]
    BY <1>5, <2>2
  <2> QED BY <2>1, <2>3 DEF OversizedCursor, CursorHeader
<1>5e. ASSUME Rejected(message) PROVE LengthOf(u) \in {-1, 0}
  <2>1. CASE u = <<>>
    BY <1>4, <2>1
  <2>2. CASE u # <<>> /\ Rejected(u)
    BY <2>2 DEF LengthOf
  <2>3. CASE u # <<>> /\ ~Rejected(u)
    <3>1. ~Unknown(message) /\ OversizedCursor(message)
      BY <1>5b, <1>5e, <2>3 DEF Rejected
    <3>2. ~(Len(u) >= 4)
      BY <1>5c, <2>3, <3>1 DEF Rejected
    <3>3. u[1] = CursorMessage
      BY <1>5a, <2>3, <3>1 DEF OversizedCursor
    <3>4. LengthOf(u) = IF Len(u) < 4 THEN 0
                        ELSE IF u[2] = 1
                             THEN IF 5 + u[4] \in 0 .. Len(u) THEN 5 + u[4] ELSE 0
                             ELSE 4
      BY <2>3, <3>3, LengthIs
    <3> QED BY <1>1, <3>2, <3>4
  <2> QED BY <2>1, <2>2, <2>3
<1>5f. ASSUME Rejected(message), Len(u) >= Len(message) PROVE LengthOf(u) = -1
  <2>1. u # <<>>
    BY <1>1, <1>5f
  <2>2. OversizedCursor(message) => Len(u) >= 4
    BY <1>1, <1>5f DEF OversizedCursor, CursorHeader
  <2>3. Rejected(u)
    BY <1>5b, <1>5c, <1>5f, <2>1, <2>2 DEF Rejected
  <2> QED BY <2>1, <2>3 DEF LengthOf
<1>6. ASSUME ~Rejected(message), Len(u) < Len(message) PROVE LengthOf(u) = 0
  <2> SUFFICES ASSUME LengthOf(u) # 0 PROVE FALSE
    OBVIOUS
  <2>1. u # <<>>
    BY DEF LengthOf
  <2>4. ~Rejected(u)
    <3>1. OversizedCursor(u) => total >= 4
      BY <1>1, <1>6 DEF OversizedCursor, CursorHeader
    <3> QED BY <1>5b, <1>5d, <1>6, <2>1, <3>1 DEF Rejected
  <2>5. LengthOf(u) \in 0 .. Len(u)
    BY <2>1, <2>4, LengthIs
  <2>6. LengthOf(u) > 0
    BY <1>1, <2>5
  <2> DEFINE more == SubSeq(message, Len(u) + 1, Len(message))
  <2>7. Len(u) \in 0 .. total
    BY <1>1, <1>6
  <2>8. SubSeq(message, 1, Len(u)) = u
    <3>1. 1 \in Nat \ {0} /\ Len(u) \in 0 .. Len(u)
      BY <1>1
    <3>2. SubSeq(all, 1, Len(u)) = SubSeq(u, 1, Len(u))
      BY <3>1, SliceOfFirst
    <3>3. SubSeq(message \o rest, 1, Len(u)) = SubSeq(message, 1, Len(u))
      BY <2>7, <3>1, SliceOfFirst
    <3>4. SubSeq(u, 1, Len(u)) = u
      BY SubSeqFull
    <3> QED BY <3>2, <3>3, <3>4
  <2>9. more \in Seq(Nat) /\ u \o more = message
    BY <2>7, <2>8, CutIs
  <2> HIDE DEF more
  <2>10. LengthOf(message) = LengthOf(u)
    BY <2>6, <2>9, LengthLonger
  <2>11. LengthOf(message) = total
    BY <1>6 DEF WellFormed
  <2> QED BY <1>1, <1>6, <2>5, <2>10, <2>11
<1>7. ASSUME ~Rejected(message), Len(u) >= Len(message)
      PROVE  /\ LengthOf(u) = Len(message)
             /\ SubSeq(u, 1, Len(message)) = message
             /\ SubSeq(u, Len(message) + 1, Len(u)) \o w = rest
  <2>1. total \in 0 .. Len(u)
    BY <1>1, <1>7
  <2>2. SubSeq(u, 1, total) = message
    BY <1>7, FrontIs
  <2>3. SubSeq(u, total + 1, Len(u)) \o w = rest
    BY <1>7, FrontIs
  <2>4. LengthOf(u) = total
    <3> DEFINE more == SubSeq(u, total + 1, Len(u))
    <3>1. more \in Seq(Nat) /\ SubSeq(u, 1, total) \o more = u
      BY <2>1, CutIs
    <3>2. LengthOf(message) = total
      BY <1>7 DEF WellFormed
    <3>3. message \o more = u
      BY <2>2, <3>1
    <3>4. message \in Seq(Nat) /\ LengthOf(message) > 0
      <4>1. total > 0
        BY <1>1
      <4> QED BY <1>1, <3>2, <4>1
    <3> HIDE DEF more
    <3>5. LengthOf(message \o more) = LengthOf(message)
      BY <3>1, <3>4, LengthLonger
    <3> QED BY <3>2, <3>3, <3>5
  <2> QED BY <2>2, <2>3, <2>4
<1> QED BY <1>1, <1>4, <1>5e, <1>5f, <1>6, <1>7

-----------------------------------------------------------------------------
\* The ATEN stream.

\* An ATEN session and what is still to come over its connection.
AtenProspects == [stream : Seq(Nat), handled : Seq(Seq(Nat))]

\* From each of the prospects the next, one message after the other.
AtenPath(prospects, all) ==
  \A s \in prospects :
    /\ IsPrefix(s.handled, all)
    /\ \/ s.stream = <<>> /\ s.handled = all
       \/ \E message \in AtenMessages, t \in prospects :
            /\ s.stream = message \o t.stream
            /\ t.handled = Append(s.handled, message)

\* What is to come holds the messages that have not been handled, one after the other.
Ahead(stream, done, all) ==
  \E prospects \in SUBSET AtenProspects :
    /\ [stream |-> stream, handled |-> done] \in prospects
    /\ AtenPath(prospects, all)

\* What a BMC may send.
LEMMA AtenMessageIs ==
  ASSUME NEW message \in AtenMessages PROVE message \in Seq(Nat) /\ WellFormed(message)
  BY AtenWireAssumption

\* Nothing is to come when all has been handled.
LEMMA AheadStart ==
  ASSUME NEW all \in Seq(Seq(Nat)) PROVE Ahead(<<>>, all, all)
<1> DEFINE s == [stream |-> <<>>, handled |-> all]
<1>1. <<>> \in Seq(Nat)
  OBVIOUS
<1>2. s \in AtenProspects /\ s.stream = <<>> /\ s.handled = all
  BY <1>1 DEF AtenProspects
<1>3. IsPrefix(all, all)
  BY PrefixSelf
<1> HIDE DEF s
<1>4. AtenPath({s}, all)
  BY <1>2, <1>3 DEF AtenPath
<1>5. \E prospects \in SUBSET AtenProspects : s \in prospects /\ AtenPath(prospects, all)
  BY <1>2, <1>4
<1> QED BY <1>5 DEF Ahead, s

\* A message that is sent is to come, after the others.
LEMMA AheadGrows ==
  ASSUME NEW stream, NEW done, NEW all \in Seq(Seq(Nat)), Ahead(stream, done, all),
         NEW message \in AtenMessages
  PROVE  Ahead(stream \o message, done, Append(all, message))
<1> DEFINE here == [stream |-> stream, handled |-> done]
           more == Append(all, message)
           end == [stream |-> <<>>, handled |-> more]
           On(s) == [stream |-> s.stream \o message, handled |-> s.handled]
<1>1. PICK prospects \in SUBSET AtenProspects : here \in prospects /\ AtenPath(prospects, all)
  BY DEF Ahead
<1>2. message \in Seq(Nat)
  BY AtenMessageIs
<1>3. more \in Seq(Seq(Nat))
  BY <1>2, AppendProperties
<1>4. ASSUME NEW s \in prospects
      PROVE  /\ On(s) \in AtenProspects /\ On(s).stream = s.stream \o message
             /\ On(s).handled = s.handled
             /\ s.stream \in Seq(Nat) /\ s.handled \in Seq(Seq(Nat))
  <2>1. s.stream \in Seq(Nat) /\ s.handled \in Seq(Seq(Nat))
    BY DEF AtenProspects
  <2>2. s.stream \o message \in Seq(Nat)
    BY <1>2, <2>1, ConcatProperties
  <2> QED BY <2>1, <2>2 DEF AtenProspects
<1>5. end \in AtenProspects /\ end.stream = <<>> /\ end.handled = more
  <2>1. <<>> \in Seq(Nat)
    OBVIOUS
  <2> HIDE DEF more
  <2> QED BY <1>3, <2>1 DEF AtenProspects
<1> HIDE DEF more, end, On, here
<1> DEFINE longer == {On(s) : s \in prospects} \cup {end}
<1>6. longer \in SUBSET AtenProspects
  BY <1>4, <1>5
<1>7. ASSUME NEW s \in prospects
      PROVE  /\ IsPrefix(On(s).handled, more)
             /\ \E m \in AtenMessages, t \in longer :
                  On(s).stream = m \o t.stream /\ t.handled = Append(On(s).handled, m)
  <2>1. IsPrefix(s.handled, all)
    BY <1>1 DEF AtenPath
  <2>2. IsPrefix(s.handled, more)
    BY <1>2, <1>4, <2>1, PrefixGrows DEF more
  <2>3. CASE s.stream = <<>> /\ s.handled = all
    <3>1. On(s).stream = message \o <<>>
      <4>1. <<>> \o message = message /\ message \o <<>> = message
        BY <1>2, ConcatEmptySeq
      <4> QED BY <1>4, <2>3, <4>1
    <3>2. end.handled = Append(On(s).handled, message)
      BY <1>4, <1>5, <2>3 DEF more
    <3>3. end \in longer
      OBVIOUS
    <3> HIDE DEF longer
    <3> QED BY <1>4, <1>5, <2>2, <3>1, <3>2, <3>3
  <2>4. CASE ~(s.stream = <<>> /\ s.handled = all)
    <3>1. PICK m \in AtenMessages, t \in prospects :
            s.stream = m \o t.stream /\ t.handled = Append(s.handled, m)
      BY <1>1, <2>4 DEF AtenPath
    <3>2. m \in Seq(Nat) /\ t.stream \in Seq(Nat)
      BY <1>4, AtenMessageIs
    <3>3. (m \o t.stream) \o message = m \o (t.stream \o message)
      BY <1>2, <3>2, Joined, Zenon
    <3>4. On(t) \in longer
      OBVIOUS
    <3> HIDE DEF longer
    <3>5. On(s).stream = m \o On(t).stream /\ On(t).handled = Append(On(s).handled, m)
      BY <1>4, <3>1, <3>3
    <3> QED BY <1>4, <2>2, <3>4, <3>5
  <2> QED BY <2>3, <2>4
<1>8. AtenPath(longer, more)
  <2>1. IsPrefix(more, more)
    BY <1>3, PrefixSelf
  <2>2. \A s \in longer : s = end \/ \E r \in prospects : s = On(r)
    OBVIOUS
  <2> HIDE DEF longer
  <2> SUFFICES ASSUME NEW s \in longer
               PROVE  /\ IsPrefix(s.handled, more)
                      /\ \/ s.stream = <<>> /\ s.handled = more
                         \/ \E m \in AtenMessages, t \in longer :
                              s.stream = m \o t.stream /\ t.handled = Append(s.handled, m)
    BY DEF AtenPath
  <2>3. CASE s = end
    BY <1>5, <2>1, <2>3
  <2>4. CASE \E r \in prospects : s = On(r)
    BY <1>7, <2>4
  <2> QED BY <2>2, <2>3, <2>4
<1>9. On(here) \in longer /\ On(here) = [stream |-> stream \o message, handled |-> done]
  BY <1>1 DEF On, here
<1> HIDE DEF longer
<1>10. \E some \in SUBSET AtenProspects :
         [stream |-> stream \o message, handled |-> done] \in some /\ AtenPath(some, more)
  BY <1>6, <1>8, <1>9
<1> QED BY <1>10 DEF Ahead, more

\* Either nothing is to come, or a message and what follows it.
LEMMA AheadIs ==
  ASSUME NEW stream, NEW done, NEW all \in Seq(Seq(Nat)), Ahead(stream, done, all)
  PROVE  /\ stream \in Seq(Nat) /\ done \in Seq(Seq(Nat)) /\ IsPrefix(done, all)
         /\ \/ stream = <<>> /\ done = all
            \/ \E message \in AtenMessages, rest \in Seq(Nat) :
                 /\ stream = message \o rest
                 /\ Ahead(rest, Append(done, message), all)
<1> DEFINE here == [stream |-> stream, handled |-> done]
<1>1. PICK prospects \in SUBSET AtenProspects : here \in prospects /\ AtenPath(prospects, all)
  BY DEF Ahead
<1>2. here.stream = stream /\ here.handled = done
  OBVIOUS
<1> HIDE DEF here
<1>3. stream \in Seq(Nat) /\ done \in Seq(Seq(Nat)) /\ IsPrefix(done, all)
  BY <1>1, <1>2 DEF AtenProspects, AtenPath
<1>4. ASSUME ~(stream = <<>> /\ done = all)
      PROVE  \E message \in AtenMessages, rest \in Seq(Nat) :
               stream = message \o rest /\ Ahead(rest, Append(done, message), all)
  <2>1. PICK message \in AtenMessages, t \in prospects :
          stream = message \o t.stream /\ t.handled = Append(done, message)
    BY <1>1, <1>2, <1>4 DEF AtenPath
  <2>2. t.stream \in Seq(Nat) /\ t = [stream |-> t.stream, handled |-> t.handled]
    BY <1>1 DEF AtenProspects
  <2>3. Ahead(t.stream, t.handled, all)
    <3>1. [stream |-> t.stream, handled |-> t.handled] \in prospects
      BY <2>2
    <3> QED BY <1>1, <3>1 DEF Ahead
  <2> QED BY <2>1, <2>2, <2>3
<1> QED BY <1>3, <1>4

\* The steps of the handshake.
HandshakeSteps == {"banner", "security", "challenge", "result", "init"}

\* What the two ends have to say to each other during the handshake: nothing, what the step
\* reads, or ServerInit and the messages after it.
Greeting(bytes) ==
  \/ bmcStep = step /\ bytes = <<>> /\ sent = <<>>
  \/ bmcStep = "waits" /\ step # "init" /\ bytes = Hello(step) /\ sent = <<>>
  \/ /\ bmcStep = "running" /\ step = "init"
     /\ \E rest \in Seq(Nat) : bytes = Hello(step) \o rest /\ Ahead(rest, <<>>, sent)

\* A pattern that is cached has a size.
CacheInv ==
  /\ atenCache.width \in Nat /\ atenCache.height \in Nat
  /\ atenCache.pattern # NoPattern => atenCache.width > 0 /\ atenCache.height > 0

\* The invariant of the ATEN stream.
AtenStreamInv ==
  /\ offer \in Offers
  /\ step \in HandshakeSteps \cup {"running", "failed"}
  /\ IsBuffer(shake) /\ IsBuffer(parser) /\ aWire \in Seq(Nat)
  /\ handled \in Seq(Seq(Nat)) /\ sent \in Seq(Seq(Nat)) /\ IsPrefix(handled, sent)
  /\ step \in HandshakeSteps => handled = <<>> /\ Greeting(Unread(shake) \o aWire)
  /\ step = "running" => Ahead(Unread(parser) \o aWire, handled, sent)
  /\ step = "running" /\ ~drainPosted => MessageLength = 0
  /\ AtenRefusalIsDue
  /\ CacheInv
  /\ \A w, h \in Nat : ReadsInside(atenCursor, [width |-> w, height |-> h])

-----------------------------------------------------------------------------

\* What a BMC may be like.
LEMMA OfferIs ==
  ASSUME offer \in Offers
  PROVE  /\ offer.version \in Nat /\ offer.types \in Seq(Nat) /\ offer.result \in Nat
         /\ UsesSecurityTypes(Answer) \/ Len(offer.types) = 1
  BY AtenWireAssumption DEF Answer

\* What it says is numbers.
LEMMA HelloIs ==
  ASSUME offer \in Offers, step \in HandshakeSteps
  PROVE  Hello(step) \in Seq(Nat)
<1>1. /\ offer.version \in Nat /\ offer.types \in Seq(Nat) /\ offer.result \in Nat
  BY OfferIs
<1>2. CASE step = "banner"
  <2>1. Hello(step) = <<offer.version>>
    BY <1>2 DEF Hello
  <2> QED BY <1>1, <2>1
<1>3. CASE step = "security"
  <2>1. Hello(step) = IF UsesSecurityTypes(Answer)
                      THEN <<Len(offer.types)>> \o offer.types ELSE offer.types
    BY <1>3 DEF Hello
  <2>2. <<Len(offer.types)>> \o offer.types \in Seq(Nat)
    <3>1. <<Len(offer.types)>> \in Seq(Nat)
      BY <1>1
    <3> QED BY <1>1, <3>1, ConcatProperties
  <2> QED BY <1>1, <2>1, <2>2
<1>4. CASE step = "challenge"
  <2>1. Hello(step) = <<70, 71>>
    BY <1>4 DEF Hello
  <2> QED BY <2>1
<1>5. CASE step = "result"
  <2>1. Hello(step) = <<offer.result>>
    BY <1>5 DEF Hello
  <2> QED BY <1>1, <2>1
<1>6. CASE step = "init"
  <2>1. Hello(step) = <<80, 2, 1, 4>> \o IF selected \in InsydeTypes THEN <<90, 91>> ELSE <<>>
    BY <1>6 DEF Hello
  <2> DEFINE front == <<80, 2, 1, 4>>
             extension == IF selected \in InsydeTypes THEN <<90, 91>> ELSE <<>>
  <2>2. front \in Seq(Nat) /\ extension \in Seq(Nat)
    OBVIOUS
  <2> HIDE DEF front, extension
  <2>3. front \o extension \in Seq(Nat)
    BY <2>2, ConcatProperties
  <2> QED BY <2>1, <2>3 DEF front, extension
<1> QED BY <1>2, <1>3, <1>4, <1>5, <1>6 DEF HandshakeSteps

\* A step that has read what it wants has read what the BMC said, all of it.
LEMMA WantedIs ==
  ASSUME offer \in Offers, step \in HandshakeSteps, IsBuffer(shake),
         CanRead(shake, Wanted(step)), NEW w \in Seq(Nat), NEW rest \in Seq(Nat),
         Unread(shake) \o w = Hello(step) \o rest
  PROVE  Wanted(step) = Len(Hello(step))
<1> DEFINE u == Unread(shake)
           h == Hello(step)
           all == u \o w
<1>1. /\ offer.version \in Nat /\ offer.types \in Seq(Nat) /\ offer.result \in Nat
      /\ UsesSecurityTypes(Answer) \/ Len(offer.types) = 1
  BY OfferIs
<1>2. h \in Seq(Nat)
  BY HelloIs
<1>3. /\ u \in Seq(Nat) /\ \A n : CanRead(shake, n) <=> n \in 0 .. Len(u)
      /\ Len(u) = Buffered(shake) /\ Buffered(shake) \in Nat
      /\ \A i \in 0 .. Buffered(shake) - 1 : Byte(shake, i) = u[i + 1]
  BY UnreadIs
<1>4. \A i \in 1 .. Len(u) : all[i] = u[i]
  <2> HIDE DEF u
  <2> QED BY <1>3, FrontStays
<1>5. \A i \in 1 .. Len(h) : all[i] = h[i]
  <2>1. all = h \o rest
    OBVIOUS
  <2> HIDE DEF all, h
  <2> QED BY <1>2, <2>1, FrontStays
<1>6. Wanted(step) \in 0 .. Len(u)
  BY <1>3
<1> HIDE DEF u, h, all
<1>7. ASSUME NEW i \in 0 .. Len(u) - 1, i + 1 \in 1 .. Len(h) PROVE Byte(shake, i) = h[i + 1]
  <2>1. i + 1 \in 1 .. Len(u) /\ i \in 0 .. Buffered(shake) - 1
    BY <1>3
  <2> QED BY <1>3, <1>4, <1>5, <1>7, <2>1
<1>8. CASE step = "banner"
  <2>1. Wanted(step) = 1 /\ h = <<offer.version>>
    BY <1>8 DEF Wanted, Hello, h
  <2> QED BY <2>1 DEF h
<1>9. CASE step = "challenge"
  <2>1. Wanted(step) = 2 /\ h = <<70, 71>>
    BY <1>9 DEF Wanted, Hello, h
  <2> QED BY <2>1 DEF h
<1>10. CASE step = "result"
  <2>1. Wanted(step) = 1 /\ h = <<offer.result>>
    BY <1>10 DEF Wanted, Hello, h
  <2> QED BY <2>1 DEF h
<1>11. CASE step = "security"
  <2>1. Wanted(step) = IF UsesSecurityTypes(Answer) /\ CanRead(shake, 1)
                       THEN 1 + Byte(shake, 0) ELSE 1
    BY <1>11 DEF Wanted
  <2>2. h = IF UsesSecurityTypes(Answer) THEN <<Len(offer.types)>> \o offer.types
            ELSE offer.types
    BY <1>11 DEF Hello, h
  <2>3. CASE UsesSecurityTypes(Answer)
    <3>1. CanRead(shake, 1)
      <4>1. ~CanRead(shake, 1) => Wanted(step) = 1
        BY <2>1
      <4> QED BY <4>1
    <3>2. h = <<Len(offer.types)>> \o offer.types
      BY <2>2, <2>3
    <3>3. h[1] = Len(offer.types) /\ Len(h) = 1 + Len(offer.types) /\ Len(offer.types) \in Nat
      BY <1>1, <3>2
    <3>4. 0 \in 0 .. Len(u) - 1 /\ 0 + 1 \in 1 .. Len(h)
      <4>1. 1 \in 0 .. Len(u)
        BY <1>3, <3>1
      <4> QED BY <1>3, <3>3, <4>1
    <3>5. Byte(shake, 0) = h[0 + 1]
      BY <1>7, <3>4
    <3>6. Byte(shake, 0) = Len(offer.types)
      BY <3>3, <3>5
    <3> QED BY <2>1, <2>3, <3>1, <3>3, <3>6 DEF h
  <2>4. CASE ~UsesSecurityTypes(Answer)
    BY <1>1, <2>1, <2>2, <2>4 DEF h
  <2> QED BY <2>3, <2>4
<1>12. CASE step = "init"
  <2> DEFINE extension == IF selected \in InsydeTypes THEN 2 ELSE 0
  <2>1. Wanted(step) = 2 + (IF CanRead(shake, 2) THEN Byte(shake, 1) ELSE 0) + extension
    BY <1>12 DEF Wanted
  <2>2. h = <<80, 2, 1, 4>> \o IF selected \in InsydeTypes THEN <<90, 91>> ELSE <<>>
    BY <1>12 DEF Hello, h
  <2>3. h[2] = 2 /\ Len(h) = 4 + extension
    <3> DEFINE front == <<80, 2, 1, 4>>
               more == IF selected \in InsydeTypes THEN <<90, 91>> ELSE <<>>
    <3>1. /\ front \in Seq(Nat) /\ Len(front) = 4 /\ front[2] = 2
          /\ more \in Seq(Nat) /\ Len(more) = extension
      OBVIOUS
    <3>2. h = front \o more
      BY <2>2
    <3> HIDE DEF front, more
    <3>3. h[2] = front[2] /\ Len(h) = Len(front) + Len(more)
      <4>1. 2 \in 1 .. Len(front) + Len(more) /\ 2 <= Len(front)
        BY <3>1
      <4> QED BY <3>1, <3>2, <4>1, ConcatProperties
    <3> QED BY <3>1, <3>3
  <2>4. extension \in {0, 2}
    OBVIOUS
  <2> HIDE DEF extension
  <2>5. CanRead(shake, 2)
    <3>1. ASSUME ~CanRead(shake, 2) PROVE Len(u) >= 2
      <4>1. Wanted(step) = 2 + 0 + extension
        BY <2>1, <3>1
      <4> QED BY <1>3, <1>6, <2>4, <4>1
    <3>2. Len(u) >= 2 => 2 \in 0 .. Len(u)
      BY <1>3
    <3> QED BY <1>3, <3>1, <3>2
  <2>6. 1 \in 0 .. Len(u) - 1 /\ 1 + 1 \in 1 .. Len(h)
    <3>1. 2 \in 0 .. Len(u)
      BY <1>3, <2>5
    <3> QED BY <1>3, <2>3, <2>4, <3>1
  <2>7. Byte(shake, 1) = h[1 + 1]
    BY <1>7, <2>6
  <2>8. Byte(shake, 1) = 2
    BY <2>3, <2>7
  <2> QED BY <2>1, <2>3, <2>4, <2>5, <2>8 DEF h
<1> QED BY <1>8, <1>9, <1>10, <1>11, <1>12 DEF HandshakeSteps

\* Every step wants something.
LEMMA WantsSome ==
  ASSUME step \in HandshakeSteps, IsBuffer(shake), CanRead(shake, Wanted(step))
  PROVE  Unread(shake) # <<>>
<1> SUFFICES ASSUME Unread(shake) = <<>> PROVE FALSE
  OBVIOUS
<1>1. \A n : CanRead(shake, n) => n = 0
  <2>1. Len(Unread(shake)) = 0
    OBVIOUS
  <2>2. \A n : CanRead(shake, n) => n \in 0 .. 0
    BY <2>1, UnreadIs
  <2> QED BY <2>2
<1>2. ~CanRead(shake, 1) /\ ~CanRead(shake, 2)
  BY <1>1
<1>3. Wanted(step) = 0
  BY <1>1
<1>4. Wanted(step) \in {1, 2, 4}
  BY <1>2 DEF Wanted, HandshakeSteps
<1> QED BY <1>3, <1>4

\* The type that is chosen is offered and known to the BMC's own client, and none such is
\* greater.
LEMMA ChoiceIs ==
  ASSUME NEW types \in Seq(Nat)
  PROVE  /\ Choice(types) = 0 \/ (Choice(types) \in ToSet(types) /\ JsType(Choice(types)))
         /\ \A type \in ToSet(types) : JsType(type) => Choice(types) >= type
<1> DEFINE S == {0} \cup {types[i] : i \in {j \in DOMAIN types : JsType(types[j])}}
           T == {n \in Nat : \E x \in S : n = 22 - x}
<1>1. ASSUME NEW x \in S PROVE x \in 0 .. 22
  <2>1. CASE x = 0
    BY <2>1
  <2>2. CASE x # 0
    <3>1. PICK j \in DOMAIN types : JsType(types[j]) /\ x = types[j]
      BY <2>2
    <3>2. x \in Nat /\ JsType(x)
      BY <3>1
    <3> QED BY <3>2 DEF JsType
  <2> QED BY <2>1, <2>2
<1>2. ASSUME NEW x \in S PROVE 22 - x \in T
  <2>1. 22 - x \in Nat
    BY <1>1
  <2> QED BY <2>1
<1>3. 0 \in S
  OBVIOUS
<1>4. \A n \in T : \E x \in S : n = 22 - x
  OBVIOUS
<1> HIDE DEF T
<1>5. T \in SUBSET Nat /\ T # {}
  BY <1>2, <1>3 DEF T
<1>6. PICK n \in T : \A m \in T : n <= m
  BY <1>5, LeastOf
<1>7. PICK x \in S : n = 22 - x
  BY <1>4
<1> HIDE DEF S
<1>8. \A y \in S : x >= y
  <2> TAKE y \in S
  <2>1. 22 - x <= 22 - y
    BY <1>2, <1>6, <1>7
  <2>2. x \in 0 .. 22 /\ y \in 0 .. 22
    BY <1>1
  <2> QED BY <2>1, <2>2
<1>9. Max(S) \in S /\ \A y \in S : Max(S) >= y
  BY <1>8 DEF Max
<1>10. Choice(types) = Max(S)
  BY DEF Choice, S
<1> QED BY <1>9, <1>10 DEF S, ToSet

\* What the invariant says of the cursor does not change while the cursor does not.
LEMMA SameCursor ==
  ASSUME AtenStreamInv, UNCHANGED <<atenCache, atenCursor>>
  PROVE  CacheInv' /\ (\A w, h \in Nat : ReadsInside(atenCursor, [width |-> w, height |-> h]))'
  BY DEF AtenStreamInv, CacheInv

\* An excuse that was good stays good.
LEMMA SameExcuse ==
  ASSUME AtenStreamInv, offer' = offer, step' = step, sent' = sent,
         selected' = selected, handled' = handled
  PROVE  AtenRefusalIsDue'
  BY DEF AtenStreamInv, AtenRefusalIsDue, Answer

\* The BMC says what the handshake waits for.
LEMMA BmcGreetsStep == AtenStreamInv /\ BmcGreets => AtenStreamInv'
<1> SUFFICES ASSUME AtenStreamInv, BmcGreets PROVE AtenStreamInv'
  OBVIOUS
<1>1. /\ bmcStep = step /\ step \notin {"running", "failed"}
      /\ aWire' = aWire \o Hello(step)
      /\ bmcStep' = IF step = "init" THEN "running" ELSE "waits"
      /\ offer' = offer /\ step' = step /\ selected' = selected /\ shake' = shake
      /\ parser' = parser /\ handled' = handled /\ sent' = sent
      /\ UNCHANGED <<atenCache, atenCursor>>
  BY DEF BmcGreets, atenSessionVars
<1>2. /\ offer \in Offers /\ step \in HandshakeSteps /\ IsBuffer(shake) /\ IsBuffer(parser)
      /\ aWire \in Seq(Nat) /\ handled = <<>> /\ Greeting(Unread(shake) \o aWire)
      /\ handled \in Seq(Seq(Nat)) /\ sent \in Seq(Seq(Nat)) /\ IsPrefix(handled, sent)
  BY <1>1 DEF AtenStreamInv
<1>3. Unread(shake) \o aWire = <<>> /\ sent = <<>>
  BY <1>1, <1>2 DEF Greeting, HandshakeSteps
<1>4. Unread(shake) \in Seq(Nat) /\ Hello(step) \in Seq(Nat)
  BY <1>2, UnreadIs, HelloIs
<1>5. Unread(shake) = <<>> /\ aWire = <<>>
  <2> DEFINE u == Unread(shake)
  <2>1. u \in Seq(Nat) /\ u \o aWire = <<>>
    BY <1>3, <1>4
  <2> HIDE DEF u
  <2>2. Len(u) + Len(aWire) = 0 /\ Len(u) \in Nat /\ Len(aWire) \in Nat
    BY <1>2, <2>1, ConcatProperties
  <2>3. Len(u) = 0 /\ Len(aWire) = 0
    BY <2>2
  <2>4. u = <<>> /\ aWire = <<>>
    BY <1>2, <2>1, <2>3, EmptySeq
  <2> QED BY <2>4 DEF u
<1>6. Hello(step)' = Hello(step)
  BY <1>1 DEF Hello, Answer
<1>7. aWire' = Hello(step) /\ Unread(shake') \o aWire' = Hello(step)
  <2>1. <<>> \o Hello(step) = Hello(step)
    BY <1>4, ConcatEmptySeq
  <2> QED BY <1>1, <1>5, <2>1
<1>8. Greeting(Unread(shake) \o aWire)'
  <2>1. CASE step = "init"
    <3>1. Ahead(<<>>, <<>>, sent)
      BY <1>2, <1>3, AheadStart
    <3>2. Hello(step) = Hello(step) \o <<>> /\ <<>> \in Seq(Nat)
      BY <1>4, ConcatEmptySeq
    <3>3. Ahead(<<>>, <<>>, sent')
      BY <1>1, <3>1
    <3> QED BY <1>1, <1>6, <1>7, <2>1, <3>2, <3>3 DEF Greeting
  <2>2. CASE step # "init"
    BY <1>1, <1>3, <1>6, <1>7, <2>2 DEF Greeting
  <2> QED BY <2>1, <2>2
<1>9. AtenRefusalIsDue'
  BY <1>1, SameExcuse
<1>10. CacheInv' /\ (\A w, h \in Nat : ReadsInside(atenCursor, [width |-> w, height |-> h]))'
  BY <1>1, SameCursor
<1>11. /\ (offer \in Offers)' /\ (step \in HandshakeSteps \cup {"running", "failed"})'
       /\ IsBuffer(shake)' /\ IsBuffer(parser)' /\ (aWire \in Seq(Nat))'
       /\ (handled \in Seq(Seq(Nat)))' /\ (sent \in Seq(Seq(Nat)))' /\ IsPrefix(handled, sent)'
       /\ handled' = <<>>
  BY <1>1, <1>2, <1>4, <1>7
<1>12. step' # "running"
  BY <1>1
<1> QED BY <1>8, <1>9, <1>10, <1>11, <1>12 DEF AtenStreamInv

\* A message is sent, which may be behind ServerInit still.
LEMMA BmcSaysStep == AtenStreamInv /\ BmcSays => AtenStreamInv'
<1> SUFFICES ASSUME AtenStreamInv, BmcSays PROVE AtenStreamInv'
  OBVIOUS
<1>1. PICK message \in AtenMessages :
        aWire' = aWire \o message /\ sent' = Append(sent, message)
  BY DEF BmcSays
<1>2. /\ bmcStep = "running" /\ bmcStep' = bmcStep
      /\ offer' = offer /\ step' = step /\ selected' = selected /\ shake' = shake
      /\ parser' = parser /\ handled' = handled /\ drainPosted' = drainPosted
      /\ UNCHANGED <<atenCache, atenCursor>>
  BY DEF BmcSays, atenSessionVars
<1>3. /\ offer \in Offers /\ step \in HandshakeSteps \cup {"running", "failed"}
      /\ IsBuffer(shake) /\ IsBuffer(parser)
      /\ aWire \in Seq(Nat) /\ handled \in Seq(Seq(Nat)) /\ sent \in Seq(Seq(Nat))
      /\ IsPrefix(handled, sent)
  BY DEF AtenStreamInv
<1>4. message \in Seq(Nat)
  BY AtenMessageIs
<1>5. aWire' \in Seq(Nat) /\ sent' \in Seq(Seq(Nat)) /\ IsPrefix(handled', sent')
  <2>1. aWire \o message \in Seq(Nat)
    BY <1>3, <1>4, ConcatProperties
  <2>2. Append(sent, message) \in Seq(Seq(Nat))
    BY <1>3, <1>4, AppendProperties
  <2>3. IsPrefix(handled, Append(sent, message))
    BY <1>3, <1>4, PrefixGrows
  <2> QED BY <1>1, <1>2, <2>1, <2>2, <2>3
<1>6. Unread(shake) \in Seq(Nat) /\ Unread(parser) \in Seq(Nat)
  BY <1>3, UnreadIs
<1>7. ASSUME step \in HandshakeSteps PROVE handled' = <<>> /\ Greeting(Unread(shake) \o aWire)'
  <2> DEFINE stream == Unread(shake) \o aWire
  <2>1. handled = <<>> /\ Greeting(stream)
    BY <1>7 DEF AtenStreamInv
  <2>2. step = "init" /\ \E rest \in Seq(Nat) : stream = Hello(step) \o rest
                                               /\ Ahead(rest, <<>>, sent)
    BY <1>2, <1>7, <2>1 DEF Greeting, HandshakeSteps
  <2>3. PICK rest \in Seq(Nat) : stream = Hello(step) \o rest /\ Ahead(rest, <<>>, sent)
    BY <2>2
  <2>4. Ahead(rest \o message, <<>>, sent')
    BY <1>1, <1>3, <2>3, AheadGrows
  <2>5. rest \o message \in Seq(Nat)
    BY <1>4, ConcatProperties
  <2>6. Hello(step)' = Hello(step) /\ Hello(step) \in Seq(Nat)
    <3>1. Hello(step)' = Hello(step)
      BY <1>2 DEF Hello, Answer
    <3> QED BY <1>3, <1>7, <3>1, HelloIs
  <2>7. (Unread(shake) \o aWire)' = Hello(step)' \o (rest \o message)
    <3>1. (Unread(shake) \o aWire) \o message = Unread(shake) \o (aWire \o message)
      BY <1>3, <1>4, <1>6, Joined, Zenon
    <3>2. (Hello(step) \o rest) \o message = Hello(step) \o (rest \o message)
      BY <1>4, <2>6, Joined, Zenon
    <3>3. (Unread(shake) \o aWire)' = stream \o message
      BY <1>1, <1>2, <3>1
    <3> QED BY <2>3, <2>6, <3>2, <3>3
  <2> QED BY <1>2, <2>1, <2>2, <2>4, <2>5, <2>7 DEF Greeting
<1>8. ASSUME step = "running" PROVE Ahead(Unread(parser) \o aWire, handled, sent)'
  <2>1. Ahead(Unread(parser) \o aWire, handled, sent)
    BY <1>8 DEF AtenStreamInv
  <2>2. Ahead((Unread(parser) \o aWire) \o message, handled, Append(sent, message))
    BY <1>3, <2>1, AheadGrows
  <2>3. (Unread(parser) \o aWire) \o message = Unread(parser) \o (aWire \o message)
    BY <1>3, <1>4, <1>6, Joined, Zenon
  <2>4. Ahead(Unread(parser) \o (aWire \o message), handled, Append(sent, message))
    BY <2>2, <2>3
  <2> QED BY <1>1, <1>2, <2>4
<1>9. AtenRefusalIsDue'
  <2> DEFINE n == Len(handled) + 1
  <2>1. Len(sent') = Len(sent) + 1 /\ \A i \in 1 .. Len(sent) : sent'[i] = sent[i]
    BY <1>1, <1>3, <1>4, AppendProperties
  <2>2. Len(handled) \in Nat /\ Len(sent) \in Nat
    BY <1>3
  <2>3. Len(handled) < Len(sent) => Len(handled) < Len(sent') /\ sent'[n] = sent[n]
    BY <2>1, <2>2
  <2>4. AtenRefusalIsDue
    BY DEF AtenStreamInv
  <2>5. Answer' = Answer /\ handled' = handled /\ selected' = selected
    BY <1>2 DEF Answer
  <2> QED BY <1>2, <2>3, <2>4, <2>5 DEF AtenRefusalIsDue
<1>10. CacheInv' /\ (\A w, h \in Nat : ReadsInside(atenCursor, [width |-> w, height |-> h]))'
  BY <1>2, SameCursor
<1>11. (step = "running" /\ ~drainPosted => MessageLength = 0)'
  BY <1>2 DEF AtenStreamInv, MessageLength
<1>12. /\ (offer \in Offers)' /\ (step \in HandshakeSteps \cup {"running", "failed"})'
       /\ IsBuffer(shake)' /\ IsBuffer(parser)' /\ (handled \in Seq(Seq(Nat)))'
  BY <1>2, <1>3
<1>13. (step \in HandshakeSteps => handled = <<>> /\ Greeting(Unread(shake) \o aWire))'
  BY <1>2, <1>7
<1>14. (step = "running" => Ahead(Unread(parser) \o aWire, handled, sent))'
  BY <1>2, <1>8
<1> QED BY <1>5, <1>9, <1>10, <1>11, <1>12, <1>13, <1>14 DEF AtenStreamInv

\* What is read moves from the connection into a buffer.
LEMMA ReadIs ==
  ASSUME NEW buffer, IsBuffer(buffer), NEW wire \in Seq(Nat), NEW n \in 1 .. Len(wire)
  PROVE  LET read == Appended(buffer, SubSeq(wire, 1, n))
             left == SubSeq(wire, n + 1, Len(wire))
         IN  /\ IsBuffer(read) /\ left \in Seq(Nat)
             /\ Unread(read) \o left = Unread(buffer) \o wire
<1> DEFINE bytes == SubSeq(wire, 1, n)
           left == SubSeq(wire, n + 1, Len(wire))
<1>1. n \in 0 .. Len(wire)
  OBVIOUS
<1>2. bytes \in Seq(Nat) /\ left \in Seq(Nat)
  BY <1>1, CutIs
<1>3. bytes \o left = wire
  BY <1>1, CutIs
<1> HIDE DEF bytes, left
<1>4. IsBuffer(Appended(buffer, bytes)) /\ Unread(Appended(buffer, bytes)) = Unread(buffer) \o bytes
  BY <1>2, AppendedIs
<1>5. Unread(buffer) \in Seq(Nat)
  BY UnreadIs
<1>6. (Unread(buffer) \o bytes) \o left = Unread(buffer) \o (bytes \o left)
  BY <1>2, <1>5, Joined, Zenon
<1> QED BY <1>2, <1>3, <1>4, <1>6 DEF bytes, left

\* The handshake reads whatever the websocket gives it.
LEMMA HandshakeReadsStep == AtenStreamInv /\ HandshakeReads => AtenStreamInv'
<1> SUFFICES ASSUME AtenStreamInv, HandshakeReads PROVE AtenStreamInv'
  OBVIOUS
<1>1. PICK n \in 1 .. Len(aWire) :
        /\ shake' = Appended(shake, SubSeq(aWire, 1, n))
        /\ aWire' = SubSeq(aWire, n + 1, Len(aWire))
  BY DEF HandshakeReads
<1>2. /\ step \notin {"running", "failed"} /\ bmcStep' = bmcStep
      /\ offer' = offer /\ step' = step /\ selected' = selected
      /\ parser' = parser /\ handled' = handled /\ sent' = sent
      /\ UNCHANGED <<atenCache, atenCursor>>
  BY DEF HandshakeReads, atenSessionVars
<1>3. /\ offer \in Offers /\ step \in HandshakeSteps
      /\ IsBuffer(shake) /\ IsBuffer(parser)
      /\ aWire \in Seq(Nat) /\ handled \in Seq(Seq(Nat)) /\ sent \in Seq(Seq(Nat))
      /\ IsPrefix(handled, sent) /\ handled = <<>> /\ Greeting(Unread(shake) \o aWire)
  BY <1>2 DEF AtenStreamInv
<1>4. IsBuffer(shake') /\ aWire' \in Seq(Nat)
  BY <1>1, <1>3, ReadIs
<1>5. Unread(shake') \o aWire' = Unread(shake) \o aWire
  BY <1>1, <1>3, ReadIs
<1>6. Greeting(Unread(shake) \o aWire)'
  <2>1. Hello(step)' = Hello(step)
    BY <1>2 DEF Hello, Answer
  <2> QED BY <1>2, <1>3, <1>5, <2>1 DEF Greeting
<1>7. AtenRefusalIsDue'
  BY <1>2, SameExcuse
<1>8. CacheInv' /\ (\A w, h \in Nat : ReadsInside(atenCursor, [width |-> w, height |-> h]))'
  BY <1>2, SameCursor
<1>9. /\ (offer \in Offers)' /\ (step \in HandshakeSteps \cup {"running", "failed"})'
      /\ IsBuffer(parser)'
      /\ (handled \in Seq(Seq(Nat)))' /\ (sent \in Seq(Seq(Nat)))' /\ IsPrefix(handled, sent)'
      /\ handled' = <<>> /\ step' # "running"
  BY <1>2, <1>3
<1> QED BY <1>4, <1>6, <1>7, <1>8, <1>9 DEF AtenStreamInv

\* And so does the session, which then parses.
LEMMA SessionReadsStep == AtenStreamInv /\ SessionReads => AtenStreamInv'
<1> SUFFICES ASSUME AtenStreamInv, SessionReads PROVE AtenStreamInv'
  OBVIOUS
<1>1. PICK n \in 1 .. Len(aWire) :
        /\ parser' = Appended(parser, SubSeq(aWire, 1, n))
        /\ aWire' = SubSeq(aWire, n + 1, Len(aWire))
  BY DEF SessionReads
<1>2. /\ step = "running" /\ drainPosted' = TRUE
      /\ offer' = offer /\ step' = step /\ shake' = shake
      /\ handled' = handled /\ sent' = sent /\ selected' = selected
      /\ UNCHANGED <<atenCache, atenCursor>>
  BY DEF SessionReads
<1>3. /\ offer \in Offers /\ IsBuffer(shake) /\ IsBuffer(parser)
      /\ aWire \in Seq(Nat) /\ handled \in Seq(Seq(Nat)) /\ sent \in Seq(Seq(Nat))
      /\ IsPrefix(handled, sent) /\ Ahead(Unread(parser) \o aWire, handled, sent)
  BY <1>2 DEF AtenStreamInv
<1>4. IsBuffer(parser') /\ aWire' \in Seq(Nat)
  BY <1>1, <1>3, ReadIs
<1>5. Unread(parser') \o aWire' = Unread(parser) \o aWire
  BY <1>1, <1>3, ReadIs
<1>6. Ahead(Unread(parser) \o aWire, handled, sent)'
  BY <1>2, <1>3, <1>5
<1>7. AtenRefusalIsDue'
  BY <1>2, SameExcuse
<1>8. CacheInv' /\ (\A w, h \in Nat : ReadsInside(atenCursor, [width |-> w, height |-> h]))'
  BY <1>2, SameCursor
<1>9. /\ (offer \in Offers)' /\ (step \in HandshakeSteps \cup {"running", "failed"})'
      /\ IsBuffer(shake)' /\ (handled \in Seq(Seq(Nat)))' /\ (sent \in Seq(Seq(Nat)))'
      /\ IsPrefix(handled, sent)' /\ (step \notin HandshakeSteps)' /\ drainPosted'
  BY <1>2, <1>3 DEF HandshakeSteps
<1> QED BY <1>4, <1>6, <1>7, <1>8, <1>9 DEF AtenStreamInv

\* What the handshake gives up on is one of the reasons it may have.
LEMMA ExcuseIs ==
  ASSUME offer \in Offers, step \in HandshakeSteps, NEW type,
         type = IF step # "security" THEN selected
                ELSE IF UsesSecurityTypes(Answer) THEN Choice(Tail(Hello(step)))
                     ELSE Hello(step)[1],
         Unacceptable(type, Hello(step))
  PROVE  \/ Answer = 0
         \/ offer.result # 0
         \/ ToSet(offer.types) \cap Implemented = {}
         \/ \E some \in ToSet(offer.types) : JsType(some) /\ some \notin Implemented
<1>1. /\ offer.version \in Nat /\ offer.types \in Seq(Nat) /\ offer.result \in Nat
      /\ UsesSecurityTypes(Answer) \/ Len(offer.types) = 1
  BY OfferIs
<1>2. CASE step = "banner"
  BY <1>2 DEF Unacceptable
<1>3. CASE step \in {"challenge", "init"}
  BY <1>3 DEF Unacceptable
<1>4. CASE step = "result"
  <2>1. Hello(step) = <<offer.result>>
    BY <1>4 DEF Hello
  <2>2. Hello(step)[1] # 0
    BY <1>4 DEF Unacceptable
  <2> QED BY <2>1, <2>2
<1>5. CASE step = "security"
  <2>1. type \notin Implemented
    BY <1>5 DEF Unacceptable
  <2>2. Hello(step) = IF UsesSecurityTypes(Answer)
                      THEN <<Len(offer.types)>> \o offer.types ELSE offer.types
    BY <1>5 DEF Hello
  <2>3. CASE UsesSecurityTypes(Answer)
    <3>1. Tail(Hello(step)) = offer.types
      <4>1. Hello(step) = <<Len(offer.types)>> \o offer.types
        BY <2>2, <2>3
      <4>2. Tail(<<Len(offer.types)>> \o offer.types) = offer.types
        BY <1>1
      <4> QED BY <4>1, <4>2
    <3>2. type = Choice(offer.types)
      BY <1>5, <2>3, <3>1
    <3>3. /\ type = 0 \/ (type \in ToSet(offer.types) /\ JsType(type))
          /\ \A some \in ToSet(offer.types) : JsType(some) => type >= some
      BY <1>1, <3>2, ChoiceIs
    <3>4. ASSUME type = 0, NEW some \in ToSet(offer.types), some \in Implemented PROVE FALSE
      <4>1. JsType(some) /\ some \in Nat /\ some > 0
        BY <3>4 DEF Implemented, NoneType, InsydeTypes, JsType
      <4> QED BY <3>3, <3>4, <4>1
    <3> QED BY <2>1, <3>3, <3>4
  <2>4. CASE ~UsesSecurityTypes(Answer)
    <3>1. type = offer.types[1] /\ Len(offer.types) = 1
      BY <1>1, <1>5, <2>2, <2>4
    <3>2. \A some \in ToSet(offer.types) : some = offer.types[1]
      BY <1>1, <3>1 DEF ToSet
    <3> QED BY <2>1, <3>1, <3>2
  <2> QED BY <2>3, <2>4
<1> QED BY <1>2, <1>3, <1>4, <1>5 DEF HandshakeSteps

\* A step of the handshake takes what it wanted and leaves what follows it.
LEMMA HandshakeStepStep == AtenStreamInv /\ HandshakeStep => AtenStreamInv'
<1> SUFFICES ASSUME AtenStreamInv, HandshakeStep PROVE AtenStreamInv'
  OBVIOUS
<1> DEFINE read == Slice(shake, 0, Wanted(step))
           type == IF step # "security" THEN selected
                   ELSE IF UsesSecurityTypes(Answer) THEN Choice(Tail(read)) ELSE read[1]
           left == AtenConsumed(shake, Wanted(step))
           u == Unread(shake)
           h == Hello(step)
<1>1. /\ step \notin {"running", "failed"} /\ CanRead(shake, Wanted(step))
      /\ selected' = type
      /\ step' = IF Unacceptable(type, read) THEN "failed" ELSE After(step, type)
      /\ IF step' = "running"
         THEN /\ shake' = EmptyBuffer
              /\ parser' = Appended(EmptyBuffer, Unread(left))
              /\ drainPosted' = TRUE
         ELSE shake' = left /\ parser' = parser /\ drainPosted' = drainPosted
      /\ bmcStep' = IF bmcStep = "waits" THEN step' ELSE bmcStep
      /\ offer' = offer /\ aWire' = aWire /\ handled' = handled /\ sent' = sent
      /\ UNCHANGED <<atenCache, atenCursor>>
  BY DEF HandshakeStep
<1> HIDE DEF read, type, left, u, h
<1>2. /\ offer \in Offers /\ step \in HandshakeSteps /\ IsBuffer(shake) /\ IsBuffer(parser)
      /\ aWire \in Seq(Nat) /\ handled = <<>> /\ Greeting(u \o aWire)
      /\ handled \in Seq(Seq(Nat)) /\ sent \in Seq(Seq(Nat)) /\ IsPrefix(handled, sent)
  BY <1>1 DEF AtenStreamInv, u
<1>3. h \in Seq(Nat) /\ u \in Seq(Nat) /\ Len(u) = Buffered(shake) /\ Buffered(shake) \in Nat
  BY <1>2, HelloIs, UnreadIs DEF h, u
<1>4. PICK rest \in Seq(Nat) :
        /\ u \o aWire = h \o rest
        /\ \/ bmcStep = "waits" /\ step # "init" /\ rest = <<>> /\ sent = <<>>
           \/ bmcStep = "running" /\ step = "init" /\ Ahead(rest, <<>>, sent)
  <2>1. CASE bmcStep = step /\ u \o aWire = <<>>
    <3>1. u # <<>>
      BY <1>1, <1>2, WantsSome DEF u
    <3>2. Len(u) = 0
      <4>1. Len(u) + Len(aWire) = 0 /\ Len(u) \in Nat /\ Len(aWire) \in Nat
        BY <1>2, <1>3, <2>1, ConcatProperties
      <4> QED BY <4>1
    <3> QED BY <1>3, <3>1, <3>2, EmptySeq
  <2>2. CASE bmcStep = "waits" /\ step # "init" /\ u \o aWire = h /\ sent = <<>>
    <3>1. h \o <<>> = h /\ <<>> \in Seq(Nat)
      BY <1>3, ConcatEmptySeq
    <3> QED BY <2>2, <3>1
  <2>3. CASE /\ bmcStep = "running" /\ step = "init"
             /\ \E rest \in Seq(Nat) : u \o aWire = h \o rest /\ Ahead(rest, <<>>, sent)
    BY <2>3
  <2> QED BY <1>2, <2>1, <2>2, <2>3 DEF Greeting, h
<1>5. Wanted(step) = Len(h)
  BY <1>1, <1>2, <1>4, WantedIs DEF h, u
<1>6. Len(h) \in Nat /\ Len(h) <= Len(u) /\ Len(h) \in 0 .. Buffered(shake)
  <2>1. Len(h) \in 0 .. Len(u)
    BY <1>1, <1>2, <1>5, UnreadIs DEF u
  <2> QED BY <1>3, <2>1
<1>7. read = h
  <2>1. 0 \in Nat /\ 0 + Len(h) <= Buffered(shake)
    BY <1>6
  <2>2. read = SubSeq(u, 0 + 1, 0 + Len(h))
    BY <1>2, <1>5, <1>6, <2>1, SliceUnread DEF read, u
  <2>3. SubSeq(u, 1, Len(h)) = h
    BY <1>2, <1>3, <1>4, <1>6, FrontIs
  <2> QED BY <1>6, <2>2, <2>3
<1>8. IsBuffer(left) /\ Unread(left) \o aWire = rest
  <2>1. IsBuffer(left) /\ Unread(left) = SubSeq(u, Len(h) + 1, Len(u))
    BY <1>2, <1>5, <1>6, ConsumedIs DEF left, u
  <2>2. SubSeq(u, Len(h) + 1, Len(u)) \o aWire = rest
    BY <1>2, <1>3, <1>4, <1>6, FrontIs
  <2> QED BY <2>1, <2>2
<1>9. CacheInv' /\ (\A w, k \in Nat : ReadsInside(atenCursor, [width |-> w, height |-> k]))'
  BY <1>1, SameCursor
<1>10. /\ (offer \in Offers)' /\ (aWire \in Seq(Nat))' /\ (handled \in Seq(Seq(Nat)))'
       /\ (sent \in Seq(Seq(Nat)))' /\ IsPrefix(handled, sent)' /\ handled' = <<>>
  BY <1>1, <1>2
<1>11. CASE Unacceptable(type, read)
  <2>1. step' = "failed" /\ shake' = left /\ parser' = parser
    BY <1>1, <1>11
  <2>2. AtenRefusalIsDue'
    <3>1. type = IF step # "security" THEN selected
                 ELSE IF UsesSecurityTypes(Answer) THEN Choice(Tail(Hello(step)))
                      ELSE Hello(step)[1]
      BY <1>7 DEF type, h
    <3>2. Unacceptable(type, Hello(step))
      BY <1>7, <1>11 DEF h
    <3>3. \/ Answer = 0
          \/ offer.result # 0
          \/ ToSet(offer.types) \cap Implemented = {}
          \/ \E some \in ToSet(offer.types) : JsType(some) /\ some \notin Implemented
      BY <1>2, <3>1, <3>2, ExcuseIs
    <3>4. Answer' = Answer
      BY <1>1 DEF Answer
    <3> QED BY <1>1, <3>3, <3>4 DEF AtenRefusalIsDue
  <2>3. (step \notin HandshakeSteps)' /\ (step # "running")'
    BY <2>1 DEF HandshakeSteps
  <2>4. /\ (step \in HandshakeSteps \cup {"running", "failed"})'
        /\ IsBuffer(shake)' /\ IsBuffer(parser)'
    BY <1>2, <1>8, <2>1
  <2> QED BY <1>9, <1>10, <2>2, <2>3, <2>4 DEF AtenStreamInv
<1>12. CASE ~Unacceptable(type, read) /\ step = "init"
  <2>1. step' = "running"
    BY <1>1, <1>12 DEF After
  <2>2. parser' = Appended(EmptyBuffer, Unread(left)) /\ drainPosted' /\ shake' = EmptyBuffer
    BY <1>1, <2>1
  <2>3. Ahead(rest, <<>>, sent)
    BY <1>4, <1>12
  <2>4. Unread(left) \in Seq(Nat)
    BY <1>8, UnreadIs
  <2>5. IsBuffer(parser') /\ Unread(parser') = Unread(left) /\ IsBuffer(shake')
    <3>1. /\ IsBuffer(Appended(EmptyBuffer, Unread(left)))
          /\ Unread(Appended(EmptyBuffer, Unread(left))) = <<>> \o Unread(left)
      BY <2>4, EmptyIs, AppendedIs
    <3>2. <<>> \o Unread(left) = Unread(left)
      BY <2>4, ConcatEmptySeq
    <3> QED BY <2>2, <3>1, <3>2, EmptyIs
  <2>6. Ahead(Unread(parser) \o aWire, handled, sent)'
    BY <1>1, <1>8, <1>10, <2>3, <2>5
  <2>7. AtenRefusalIsDue' /\ (step \notin HandshakeSteps)'
        /\ (step \in HandshakeSteps \cup {"running", "failed"})'
    BY <2>1 DEF AtenRefusalIsDue, HandshakeSteps
  <2> QED BY <1>9, <1>10, <2>2, <2>5, <2>6, <2>7 DEF AtenStreamInv
<1>13. CASE ~Unacceptable(type, read) /\ step # "init"
  <2>1. bmcStep = "waits" /\ rest = <<>> /\ sent = <<>>
    BY <1>4, <1>13
  <2>2. step' \in HandshakeSteps
    BY <1>1, <1>2, <1>13 DEF After, HandshakeSteps
  <2>3. step' \notin {"running", "failed"}
    BY <2>2 DEF HandshakeSteps
  <2>4. shake' = left /\ parser' = parser /\ bmcStep' = step'
    BY <1>1, <2>1, <2>3
  <2>5. Greeting(Unread(shake) \o aWire)'
    <3>1. Unread(shake') \o aWire' = <<>>
      BY <1>1, <1>8, <2>1, <2>4
    <3> QED BY <1>1, <2>1, <2>4, <3>1 DEF Greeting
  <2>6. AtenRefusalIsDue'
    BY <2>3 DEF AtenRefusalIsDue
  <2>7. /\ (step \in HandshakeSteps \cup {"running", "failed"})'
        /\ IsBuffer(shake)' /\ IsBuffer(parser)'
    BY <1>2, <1>8, <2>2, <2>4
  <2> QED BY <1>9, <1>10, <2>3, <2>5, <2>6, <2>7 DEF AtenStreamInv
<1> QED BY <1>11, <1>12, <1>13

-----------------------------------------------------------------------------
\* A message about the cursor has all that ShowCursor reads of it.
LEMMA ShowCursorIs ==
  ASSUME CacheInv, NEW message \in AtenMessages, message[1] = CursorMessage,
         ~Rejected(message), ShowCursor(message)
  PROVE  CacheInv' /\ (\A w, h \in Nat : ReadsInside(atenCursor, [width |-> w, height |-> h]))'
<1> DEFINE total == Len(message)
           cursor == [type |-> IF message[2] = 1 THEN message[5] ELSE 0,
                      x |-> message[3], y |-> 0,
                      width |-> message[4], height |-> 1,
                      pattern |-> IF message[2] = 1 /\ message[4] > 0 THEN message[6]
                                  ELSE NoPattern]
<1>1. message \in Seq(Nat) /\ WellFormed(message)
  BY AtenMessageIs
<1>2. ~Rejected(message)
  OBVIOUS
<1>3. message # <<>> /\ LengthOf(message) = total /\ total \in Nat \ {0}
  BY <1>1, <1>2 DEF WellFormed
<1>4. /\ atenCursor' = AtenCursor(cursor, atenCache, AtenSource)
      /\ atenCache' = IF cursor.pattern = NoPattern THEN atenCache
                      ELSE [pattern |-> cursor.pattern, width |-> cursor.width,
                            height |-> cursor.height]
  BY DEF ShowCursor
<1>5. LengthOf(message) = IF total < 4 THEN 0
                          ELSE IF message[2] = 1
                               THEN IF 5 + message[4] \in 0 .. total THEN 5 + message[4] ELSE 0
                               ELSE 4
  BY <1>1, <1>2, <1>3, LengthIs
<1> HIDE DEF total
<1>6. total >= 4 /\ (message[2] = 1 => total = 5 + message[4])
  BY <1>3, <1>5
<1>7. \A i \in 1 .. total : message[i] \in Nat
  BY <1>1 DEF total
<1>8. message[3] \in Nat /\ message[4] \in Nat
  <2>1. 3 \in 1 .. total /\ 4 \in 1 .. total
    BY <1>3, <1>6
  <2> QED BY <1>7, <2>1
<1>9. /\ cursor.x \in Nat /\ cursor.y \in Nat /\ cursor.width \in Nat /\ cursor.height \in Nat
      /\ cursor.pattern # NoPattern => cursor.width > 0 /\ cursor.height > 0
  BY <1>8
<1> HIDE DEF cursor
<1>10. AtenSource.width \in Nat /\ AtenSource.height \in Nat
  BY CursorAssumption DEF AtenSource
<1>11. ASSUME NEW w \in Nat, NEW h \in Nat
       PROVE  ReadsInside(AtenCursor(cursor, atenCache, AtenSource), [width |-> w, height |-> h])
  <2> DEFINE frame == [width |-> w, height |-> h]
             source == AtenSource
  <2>1. frame.width \in Nat /\ frame.height \in Nat
    OBVIOUS
  <2>2. source.width \in Nat /\ source.height \in Nat
    BY <1>10
  <2>3. /\ atenCache.width \in Nat /\ atenCache.height \in Nat
        /\ atenCache.pattern # NoPattern => atenCache.width > 0 /\ atenCache.height > 0
    BY DEF CacheInv
  <2> HIDE DEF frame, source
  <2>4. ReadsInside(AtenCursor(cursor, atenCache, source), frame)
    BY <1>9, <2>1, <2>2, <2>3, AtenCursorInside
  <2> QED BY <2>4 DEF frame, source
<1>12. CacheInv'
  <2>1. CASE cursor.pattern = NoPattern
    BY <1>4, <2>1 DEF CacheInv
  <2>2. CASE cursor.pattern # NoPattern
    <3>1. /\ atenCache'.pattern = cursor.pattern /\ atenCache'.width = cursor.width
          /\ atenCache'.height = cursor.height
      BY <1>4, <2>2
    <3> QED BY <1>9, <2>2, <3>1 DEF CacheInv
  <2> QED BY <2>1, <2>2
<1> QED BY <1>4, <1>11, <1>12

\* What something was joined to is something.
LEMMA NotEmpty ==
  ASSUME NEW s \in Seq(Nat), NEW t \in Seq(Nat), s # <<>> PROVE s \o t # <<>>
<1>1. Len(s) # 0 /\ Len(s) \in Nat /\ Len(t) \in Nat
  BY EmptySeq
<1>2. Len(s \o t) = Len(s) + Len(t)
  BY ConcatProperties
<1> QED BY <1>1, <1>2

\* A message that is handled is the next of those that were sent.
LEMMA DrainOneStep == AtenStreamInv /\ DrainOne => AtenStreamInv'
<1> SUFFICES ASSUME AtenStreamInv, DrainOne PROVE AtenStreamInv'
  OBVIOUS
<1> DEFINE u == Unread(parser)
           found == NextMessage
<1>1. /\ step = "running" /\ drainPosted /\ MessageLength > 0
      /\ handled' = Append(handled, found)
      /\ IF found[1] = CursorMessage THEN ShowCursor(found)
         ELSE UNCHANGED <<atenCache, atenCursor>>
      /\ parser' = AtenConsumed(parser, MessageLength)
      /\ offer' = offer /\ aWire' = aWire /\ step' = step /\ shake' = shake
      /\ drainPosted' = drainPosted /\ sent' = sent
      /\ ~Unhandled(selected, found) /\ selected' = selected
  BY DEF DrainOne
<1> HIDE DEF u, found
<1>2. /\ offer \in Offers /\ IsBuffer(shake) /\ IsBuffer(parser)
      /\ aWire \in Seq(Nat) /\ handled \in Seq(Seq(Nat)) /\ sent \in Seq(Seq(Nat))
      /\ Ahead(u \o aWire, handled, sent) /\ CacheInv
  BY <1>1 DEF AtenStreamInv, u
<1>3. u \in Seq(Nat) /\ Len(u) = Buffered(parser) /\ Buffered(parser) \in Nat
      /\ MessageLength = LengthOf(u)
  BY <1>2, UnreadIs DEF u, MessageLength
<1>4. u # <<>>
  <2>1. u = <<>> => LengthOf(u) = 0
    BY DEF LengthOf
  <2> QED BY <1>1, <1>3, <2>1
<1>5. PICK message \in AtenMessages, rest \in Seq(Nat) :
        u \o aWire = message \o rest /\ Ahead(rest, Append(handled, message), sent)
  <2>1. u \o aWire # <<>>
    BY <1>2, <1>3, <1>4, NotEmpty
  <2> QED BY <1>2, <2>1, AheadIs
<1>6. message \in Seq(Nat) /\ WellFormed(message)
  BY AtenMessageIs
<1>7. /\ ~Rejected(message) /\ Len(u) >= Len(message) /\ Len(message) \in Nat
      /\ MessageLength = Len(message) /\ Len(message) > 0
  <2>1. /\ Rejected(message) => LengthOf(u) \in {-1, 0}
        /\ ~Rejected(message) /\ Len(u) < Len(message) => LengthOf(u) = 0
        /\ ~Rejected(message) /\ Len(u) >= Len(message) =>
             LengthOf(u) = Len(message) /\ Len(message) > 0
    BY <1>2, <1>3, <1>5, <1>6, LengthFound
  <2>2. Len(message) \in Nat /\ Len(u) \in Nat
    BY <1>3, <1>6
  <2>3. ~Rejected(message)
    BY <1>1, <1>3, <2>1
  <2>4. Len(u) >= Len(message)
    BY <1>1, <1>3, <2>1, <2>2, <2>3
  <2> QED BY <1>3, <2>1, <2>2, <2>3, <2>4
<1>8. SubSeq(u, 1, Len(message)) = message /\ SubSeq(u, Len(message) + 1, Len(u)) \o aWire = rest
  BY <1>2, <1>3, <1>5, <1>6, <1>7, FrontIs
<1>9. found = message
  <2>1. 0 \in Nat /\ 0 + Len(message) <= Buffered(parser)
    BY <1>3, <1>7
  <2>2. found = SubSeq(u, 0 + 1, 0 + Len(message))
    BY <1>2, <1>7, <2>1, SliceUnread DEF found, NextMessage, u
  <2> QED BY <1>7, <1>8, <2>2
<1>10. IsBuffer(parser') /\ Unread(parser') \o aWire = rest
  <2>1. Len(message) \in 0 .. Buffered(parser)
    BY <1>3, <1>7
  <2>2. IsBuffer(parser') /\ Unread(parser') = SubSeq(u, Len(message) + 1, Len(u))
    BY <1>1, <1>2, <1>7, <2>1, ConsumedIs DEF u
  <2> QED BY <1>8, <2>2
<1>11. Ahead(Unread(parser) \o aWire, handled, sent)'
  BY <1>1, <1>5, <1>9, <1>10
<1>12. handled' \in Seq(Seq(Nat)) /\ IsPrefix(handled', sent')
  <2>1. sent' \in Seq(Seq(Nat)) /\ Ahead(Unread(parser') \o aWire', handled', sent')
    BY <1>1, <1>2, <1>11
  <2> QED BY <2>1, AheadIs
<1>13. CacheInv' /\ (\A w, h \in Nat : ReadsInside(atenCursor, [width |-> w, height |-> h]))'
  <2>1. CASE found[1] = CursorMessage
    BY <1>1, <1>2, <1>7, <1>9, <2>1, ShowCursorIs
  <2>2. CASE found[1] # CursorMessage
    BY <1>1, <2>2, SameCursor
  <2> QED BY <2>1, <2>2
<1>14. AtenRefusalIsDue'
  BY <1>1 DEF AtenRefusalIsDue
<1>15. /\ (offer \in Offers)' /\ (step \in HandshakeSteps \cup {"running", "failed"})'
       /\ IsBuffer(shake)' /\ (aWire \in Seq(Nat))' /\ (sent \in Seq(Seq(Nat)))'
       /\ (step \notin HandshakeSteps)' /\ drainPosted'
  BY <1>1, <1>2 DEF HandshakeSteps
<1> QED BY <1>10, <1>11, <1>12, <1>13, <1>14, <1>15 DEF AtenStreamInv

\* A drain that ends leaves nothing complete.
LEMMA DrainEndsStep == AtenStreamInv /\ DrainEnds => AtenStreamInv'
<1> SUFFICES ASSUME AtenStreamInv, DrainEnds PROVE AtenStreamInv'
  OBVIOUS
<1>1. /\ step = "running" /\ MessageLength = 0
      /\ offer' = offer /\ aWire' = aWire /\ step' = step /\ shake' = shake
      /\ parser' = parser /\ handled' = handled /\ sent' = sent /\ selected' = selected
      /\ UNCHANGED <<atenCache, atenCursor>>
  BY DEF DrainEnds
<1>2. MessageLength' = 0
  BY <1>1 DEF MessageLength
<1>3. AtenRefusalIsDue'
  BY <1>1, SameExcuse
<1>4. CacheInv' /\ (\A w, h \in Nat : ReadsInside(atenCursor, [width |-> w, height |-> h]))'
  BY <1>1, SameCursor
<1>5. /\ (offer \in Offers)' /\ (step \in HandshakeSteps \cup {"running", "failed"})'
      /\ IsBuffer(shake)' /\ IsBuffer(parser)' /\ (aWire \in Seq(Nat))'
      /\ (handled \in Seq(Seq(Nat)))' /\ (sent \in Seq(Seq(Nat)))' /\ IsPrefix(handled, sent)'
      /\ Ahead(Unread(parser) \o aWire, handled, sent)' /\ (step \notin HandshakeSteps)'
  BY <1>1 DEF AtenStreamInv, HandshakeSteps
<1> QED BY <1>2, <1>3, <1>4, <1>5 DEF AtenStreamInv

\* The message at which a drain throws is the next of those that were sent, and one that the
\* parser refuses or the session cannot handle.
LEMMA DrainThrowsStep == AtenStreamInv /\ DrainThrowsAt => AtenStreamInv'
<1> SUFFICES ASSUME AtenStreamInv, DrainThrowsAt PROVE AtenStreamInv'
  OBVIOUS
<1> DEFINE u == Unread(parser)
           found == NextMessage
<1>1. /\ step = "running" /\ step' = "failed" /\ parser' = EmptyBuffer
      /\ MessageLength < 0 \/ (MessageLength > 0 /\ Unhandled(selected, found))
      /\ offer' = offer /\ aWire' = aWire /\ shake' = shake
      /\ handled' = handled /\ sent' = sent /\ selected' = selected
      /\ UNCHANGED <<atenCache, atenCursor>>
  BY DEF DrainThrowsAt
<1> HIDE DEF found
<1>2. /\ offer \in Offers /\ IsBuffer(shake) /\ IsBuffer(parser)
      /\ aWire \in Seq(Nat) /\ handled \in Seq(Seq(Nat)) /\ sent \in Seq(Seq(Nat))
      /\ IsPrefix(handled, sent) /\ Ahead(u \o aWire, handled, sent)
  BY <1>1 DEF AtenStreamInv
<1>3. u \in Seq(Nat) /\ Len(u) = Buffered(parser) /\ Len(u) \in Nat
      /\ MessageLength = LengthOf(u)
  BY <1>2, UnreadIs DEF MessageLength
<1> HIDE DEF u
<1>4. u # <<>>
  <2>1. u = <<>> => LengthOf(u) = 0
    BY DEF LengthOf
  <2>2. MessageLength # 0
    BY <1>1
  <2> QED BY <1>3, <2>1, <2>2
<1>5. PICK message \in AtenMessages, rest \in Seq(Nat) :
        u \o aWire = message \o rest /\ Ahead(rest, Append(handled, message), sent)
  <2>1. u \o aWire # <<>>
    BY <1>2, <1>3, <1>4, NotEmpty
  <2> QED BY <1>2, <2>1, AheadIs
<1>6. message \in Seq(Nat) /\ WellFormed(message) /\ Len(message) \in Nat
  <2>1. message \in Seq(Nat) /\ WellFormed(message)
    BY AtenMessageIs
  <2> QED BY <2>1
<1>7. Rejected(message) \/ Unhandled(selected, message)
  <2> SUFFICES ASSUME ~Rejected(message) PROVE Unhandled(selected, message)
    OBVIOUS
  <2>1. /\ Len(u) < Len(message) => LengthOf(u) = 0
        /\ Len(u) >= Len(message) => LengthOf(u) = Len(message) /\ Len(message) > 0
    BY <1>2, <1>3, <1>5, <1>6, LengthFound
  <2>2. Len(u) >= Len(message)
    BY <1>1, <1>3, <1>6, <2>1
  <2>3. MessageLength = Len(message) /\ Unhandled(selected, found)
    BY <1>1, <1>3, <2>1, <2>2
  <2>4. SubSeq(u, 1, Len(message)) = message
    BY <1>2, <1>3, <1>5, <1>6, <2>2, FrontIs
  <2>5. 0 \in Nat /\ 0 + Len(message) <= Buffered(parser)
    BY <1>3, <1>6, <2>2
  <2>6. found = SubSeq(u, 0 + 1, 0 + Len(message))
    BY <1>2, <1>6, <2>3, <2>5, SliceUnread DEF found, NextMessage, u
  <2>7. found = message
    BY <1>6, <2>4, <2>6
  <2> QED BY <2>3, <2>7
<1>8. Len(handled) < Len(sent) /\ sent[Len(handled) + 1] = message
  <2> DEFINE more == Append(handled, message)
             i == Len(handled) + 1
  <2>1. IsPrefix(more, sent) /\ more \in Seq(Seq(Nat))
    BY <1>2, <1>5, AheadIs
  <2>2. i \in 1 .. Len(more) /\ more[i] = message
    BY <1>2, <1>6, AppendProperties
  <2> HIDE DEF more, i
  <2>3. Len(more) <= Len(sent) /\ more[i] = sent[i]
    BY <1>2, <2>1, <2>2, PrefixIs
  <2>4. Len(handled) \in Nat /\ Len(sent) \in Nat /\ Len(more) \in Nat
    BY <1>2, <2>1
  <2> QED BY <2>2, <2>3, <2>4 DEF i
<1>9. AtenRefusalIsDue'
  BY <1>1, <1>7, <1>8 DEF AtenRefusalIsDue
<1>10. CacheInv' /\ (\A w, h \in Nat : ReadsInside(atenCursor, [width |-> w, height |-> h]))'
  BY <1>1, SameCursor
<1>11. /\ (offer \in Offers)' /\ (step \in HandshakeSteps \cup {"running", "failed"})'
       /\ IsBuffer(shake)' /\ IsBuffer(parser)' /\ (aWire \in Seq(Nat))'
       /\ (handled \in Seq(Seq(Nat)))' /\ (sent \in Seq(Seq(Nat)))' /\ IsPrefix(handled, sent)'
       /\ (step \notin HandshakeSteps)' /\ (step # "running")'
  BY <1>1, <1>2, EmptyIs DEF HandshakeSteps
<1> QED BY <1>9, <1>10, <1>11 DEF AtenStreamInv

\* ... and after every step.
LEMMA AtenStreamStep == AtenStreamInv /\ [AtenWireNext]_atenWireVars => AtenStreamInv'
<1>1. AtenStreamInv /\ UNCHANGED atenWireVars => AtenStreamInv'
  <2> SUFFICES ASSUME AtenStreamInv, UNCHANGED atenWireVars PROVE AtenStreamInv'
    OBVIOUS
  <2>1. /\ offer' = offer /\ aWire' = aWire /\ step' = step /\ selected' = selected
        /\ shake' = shake /\ bmcStep' = bmcStep /\ parser' = parser
        /\ drainPosted' = drainPosted /\ handled' = handled /\ sent' = sent
        /\ UNCHANGED <<atenCache, atenCursor>>
    BY DEF atenWireVars
  <2>2. AtenRefusalIsDue'
    BY <2>1, SameExcuse
  <2>3. CacheInv' /\ (\A w, h \in Nat : ReadsInside(atenCursor, [width |-> w, height |-> h]))'
    BY <2>1, SameCursor
  <2>4. MessageLength' = MessageLength /\ Hello(step)' = Hello(step)
    BY <2>1 DEF MessageLength, Hello, Answer
  <2>5. (step \in HandshakeSteps => handled = <<>> /\ Greeting(Unread(shake) \o aWire))'
    BY <2>1, <2>4 DEF AtenStreamInv, Greeting
  <2>6. (step = "running" => Ahead(Unread(parser) \o aWire, handled, sent))'
    BY <2>1 DEF AtenStreamInv
  <2>7. (step = "running" /\ ~drainPosted => MessageLength = 0)'
    BY <2>1, <2>4 DEF AtenStreamInv
  <2>8. /\ (offer \in Offers)' /\ (step \in HandshakeSteps \cup {"running", "failed"})'
        /\ IsBuffer(shake)' /\ IsBuffer(parser)' /\ (aWire \in Seq(Nat))'
        /\ (handled \in Seq(Seq(Nat)))' /\ (sent \in Seq(Seq(Nat)))' /\ IsPrefix(handled, sent)'
    BY <2>1 DEF AtenStreamInv
  <2> QED BY <2>2, <2>3, <2>5, <2>6, <2>7, <2>8 DEF AtenStreamInv
<1> QED
  BY <1>1, BmcGreetsStep, BmcSaysStep, HandshakeReadsStep, HandshakeStepStep,
     SessionReadsStep, DrainOneStep, DrainEndsStep, DrainThrowsStep DEF AtenWireNext

\* The invariant of the ATEN stream holds in the beginning, whatever the BMC is like.
LEMMA AtenStreamInit ==
  ASSUME NEW some \in Offers, AtenWireInit(some) PROVE AtenStreamInv
<1>1. /\ offer = some /\ aWire = <<>> /\ step = "banner" /\ shake = EmptyBuffer
      /\ bmcStep = "banner" /\ parser = EmptyBuffer /\ handled = <<>> /\ sent = <<>>
      /\ atenCache = [pattern |-> NoPattern, width |-> 0, height |-> 0]
      /\ atenCursor = NoCursor
  BY DEF AtenWireInit
<1>2. IsBuffer(shake) /\ IsBuffer(parser) /\ Unread(shake) \o aWire = <<>>
  BY <1>1, EmptyIs
<1>3. <<>> \in Seq(Nat) /\ <<>> \in Seq(Seq(Nat)) /\ IsPrefix(handled, sent)
  <2>1. <<>> \in Seq(Seq(Nat))
    OBVIOUS
  <2>2. IsPrefix(<<>>, <<>>)
    BY <2>1, PrefixSelf
  <2> QED BY <1>1, <2>1, <2>2
<1>4. Greeting(Unread(shake) \o aWire)
  BY <1>1, <1>2 DEF Greeting
<1>5. AtenRefusalIsDue /\ step \in HandshakeSteps /\ step # "running"
  BY <1>1 DEF AtenRefusalIsDue, HandshakeSteps
<1>6. CacheInv
  BY <1>1 DEF CacheInv
<1>7. \A w, h \in Nat : ReadsInside(atenCursor, [width |-> w, height |-> h])
  <2>1. ~NoCursor.visible
    BY DEF NoCursor
  <2> QED BY <1>1, <2>1 DEF ReadsInside, Drawn
<1> QED BY <1>1, <1>2, <1>3, <1>4, <1>5, <1>6, <1>7 DEF AtenStreamInv

\* The three facts of ATEN's stream.
LEMMA AtenStreamSays ==
  AtenStreamInv => AtenMessagesInOrder /\ AtenNothingKept /\ AtenRefusalIsDue
<1> SUFFICES ASSUME AtenStreamInv
             PROVE  AtenMessagesInOrder /\ AtenNothingKept /\ AtenRefusalIsDue
  OBVIOUS
<1>1. AtenMessagesInOrder /\ AtenRefusalIsDue
  BY DEF AtenStreamInv, AtenMessagesInOrder
<1>2. ASSUME step = "running", aWire = <<>>, ~drainPosted PROVE handled = sent
  <2> DEFINE u == Unread(parser)
  <2>1. /\ IsBuffer(parser) /\ sent \in Seq(Seq(Nat)) /\ aWire \in Seq(Nat)
        /\ Ahead(u \o aWire, handled, sent) /\ LengthOf(u) = 0
    BY <1>2 DEF AtenStreamInv, MessageLength
  <2>2. u \in Seq(Nat)
    BY <2>1, UnreadIs
  <2> HIDE DEF u
  <2>3. u \o aWire = u
    BY <1>2, <2>2, ConcatEmptySeq
  <2> SUFFICES ASSUME handled # sent PROVE FALSE
    OBVIOUS
  <2>4. PICK message \in AtenMessages, rest \in Seq(Nat) : u \o aWire = message \o rest
    <3>1. \/ u \o aWire = <<>> /\ handled = sent
          \/ \E message \in AtenMessages, rest \in Seq(Nat) :
               /\ u \o aWire = message \o rest
               /\ Ahead(rest, Append(handled, message), sent)
      BY <2>1, AheadIs
    <3> QED BY <3>1
  <2>5. message \in Seq(Nat) /\ WellFormed(message)
    BY AtenMessageIs
  <2>6. Len(message) \in Nat \ {0} /\ Len(u) >= Len(message) /\ Len(u) \in Nat
    <3>1. Len(message) # 0 /\ Len(message) \in Nat
      BY <2>5, EmptySeq DEF WellFormed
    <3>2. Len(u) = Len(message) + Len(rest) /\ Len(rest) \in Nat
      BY <2>3, <2>4, <2>5, ConcatProperties
    <3> QED BY <3>1, <3>2
  <2>7. u # <<>>
    BY <2>6
  <2>8. /\ Rejected(message) /\ Len(u) >= Len(message) => LengthOf(u) = -1
        /\ ~Rejected(message) /\ Len(u) >= Len(message) => LengthOf(u) = Len(message)
    BY <2>1, <2>2, <2>4, <2>5, LengthFound
  <2> QED BY <2>1, <2>6, <2>7, <2>8
<1> QED BY <1>1, <1>2 DEF AtenNothingKept

-----------------------------------------------------------------------------
\* Both streams, and the theorems about Wire.

WholeInv == StreamInv /\ AtenStreamInv

\* Whichever part of the connection a behaviour is about, both begin as they should ...
LEMMA WholeInit == WireInit => WholeInv
<1> SUFFICES ASSUME WireInit PROVE WholeInv
  OBVIOUS
<1>1. MegaracWireInit /\ \E some \in Offers : AtenWireInit(some)
  <2>1. SomeOffer \in Offers
    BY AtenWireAssumption DEF SomeOffer
  <2> QED BY <2>1 DEF WireInit
<1> QED BY <1>1, StreamInit, AtenStreamInit DEF WholeInv

\* ... and go on as they should.
LEMMA WholeStep == WholeInv /\ [WireNext]_wireVars => WholeInv'
<1>1. [WireNext]_wireVars => [MegaracWireNext]_megaracWireVars /\ [AtenWireNext]_atenWireVars
  BY DEF WireNext, wireVars
<1> QED BY <1>1, StreamStep, AtenStreamStep DEF WholeInv

\* Both receive paths give their session what the BMC sent, in its order, without a byte
\* missing and with nothing kept back, wherever the websocket cuts the stream; a MegaRAC BMC
\* is never refused, and an ATEN one for what it offers or for the very message that is next
\* in its stream, when the parser refuses it or the session of that security type cannot
\* handle it (MegaracPacketBuffer, MegaracVideoAssembler, RfbHandshakeStream,
\* AtenRfbMessageBuffer and handle_framebuffer_update()).
THEOREM StreamCorrect == WireSpec => []StreamIsWhole
<1>1. WholeInv => StreamIsWhole
  BY StreamSays, AtenStreamSays DEF WholeInv, StreamIsWhole
<1> QED
  BY <1>1, WholeInit, WholeStep, PTL DEF WireSpec

\* Every cursor that a stream leads to is drawn inside its pattern and inside the frame
\* (parse_hardware_cursor_packet, make_aten_hardware_cursor and build_cursor_overlay).
THEOREM CursorCorrect == WireSpec => []CursorReadsInside
<1>1. WholeInv => CursorReadsInside
  <2> SUFFICES ASSUME WholeInv, NEW w \in 0 .. PatternSize + 1, NEW h \in 0 .. PatternSize + 1
               PROVE  /\ ReadsInside(mCursor, [width |-> w, height |-> h])
                      /\ ReadsInside(atenCursor, [width |-> w, height |-> h])
    BY DEF CursorReadsInside
  <2>1. w \in Nat /\ h \in Nat
    BY CursorAssumption
  <2> QED BY <2>1 DEF WholeInv, StreamInv, AtenStreamInv
<1> QED
  BY <1>1, WholeInit, WholeStep, PTL DEF WireSpec

=============================================================================
