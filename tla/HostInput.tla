------------------------------- MODULE HostInput -------------------------------
(***************************************************************************)
(* Mouse and keyboard on their way to the host: where run_viewer lets an   *)
(* event through, KvmInputController with the state it keeps, and the      *)
(* encoders of the three protocols.  InputPath has the queue that follows; *)
(* here a report has arrived as soon as it is encoded.                     *)
(*                                                                         *)
(* MegaRAC and ATEN report the buttons that are down with every event,     *)
(* PiKVM the one that changed.  MegaRAC reports the keys that are down,    *)
(* in a few slots, the others the one that changed.  Of the two axes only  *)
(* x is here.                                                              *)
(***************************************************************************)
EXTENDS Integers, FiniteSets, FiniteSetsExt

CONSTANTS
  Surface,         \* the size of the viewer's surface: width, height
  Places,          \* where the mouse may be on it, or beside it
  FrameSizes,      \* sizes the host's picture may have
  FallsShort,      \* those of them for which floats lose a pixel on this surface
  DefaultSize,     \* hosted_input_resolution(), until there is a picture
  Buttons,         \* the buttons of the mouse, as numbers that no key has
  KnownButtons,    \* for each protocol, those of accepts_button()
  AbsoluteMax,     \* kAbsoluteMouseMax, 32767
  RelativeMax,     \* the greatest step of a relative report, 127
  Keys,            \* scancodes, as numbers
  KnownKeys,       \* for each protocol, those of accepts_key()
  Modifiers,       \* the keys that MegaRAC has bits for
  Slots,           \* kMegaracKeyboardKeySlots, 6
  MaxLosses        \* bound of the model: sessions that end

Protocols == {"megarac", "aten", "pikvm"}

ASSUME HostInputAssumption ==
  /\ {AbsoluteMax, RelativeMax, Slots} \subseteq Nat \ {0}
  /\ MaxLosses \in Nat
  /\ Places \subseteq Int
  /\ Keys \subseteq Nat
  /\ Buttons \cap Keys = {}
  /\ Modifiers \subseteq Keys
  /\ \A protocol \in Protocols : KnownButtons[protocol] \subseteq Buttons
  /\ \A protocol \in Protocols : KnownKeys[protocol] \subseteq Keys
  /\ \A size \in FrameSizes \cup {DefaultSize, Surface} :
       {size.width, size.height} \subseteq Nat \ {0}

VARIABLES
  protocol,      \* "none": nothing of this module happens
  device,        \* the model's user has a "mouse" or a "keyboard" at hand
  live,          \* hosted_connected()
  losses,        \* sessions that have ended
  size,          \* what the geometry source says
  pointerX,      \* where the mouse is on the surface, or beside it
  heldButtons,   \* the buttons the user holds
  buttons,       \* KvmInputController::buttons_
  relativeMode,  \* MegaRAC: mouse_mode is relative
  lastPixel,     \* MegaracInputEncoder::last_position_, -1 for none
  guestButtons,  \* the buttons that the host believes to be down
  guestX,        \* the place it was told, or how far the mouse has come
  fresh,         \* history: the host was told of the mouse where it is now
  wheelLet,      \* history: the last ATEN report was that of a wheel
  swallowed,     \* history: buttons and keys whose release did not get through
  heldKeys,      \* the keys the user holds
  keyDown,       \* KvmInputController::key_down_
  guestKeys,     \* the keys that the host believes to be down
  newKeys        \* history: of heldKeys, those pressed in this session

pointerVars == <<size, pointerX, heldButtons, buttons, relativeMode, lastPixel,
                 guestButtons, guestX, fresh, wheelLet>>
keyVars == <<heldKeys, keyDown, guestKeys, newKeys>>
hostInputVars == <<protocol, device, live, losses, swallowed, pointerVars, keyVars>>

HostInputInit(someProtocol, someDevice) ==
  /\ protocol = someProtocol
  /\ device = someDevice
  /\ live = (someProtocol \in Protocols)
  /\ losses = 0
  /\ size = DefaultSize
  /\ pointerX = 0
  /\ heldButtons = {}
  /\ buttons = {}
  /\ relativeMode = FALSE
  /\ lastPixel = -1
  /\ guestButtons = {}
  /\ guestX = 0
  /\ fresh = FALSE
  /\ wheelLet = FALSE
  /\ swallowed = {}
  /\ heldKeys = {}
  /\ keyDown = {}
  /\ guestKeys = {}
  /\ newKeys = {}

-----------------------------------------------------------------------------
\* The picture's width on the surface, in parts of which a pixel has size.height: it takes
\* all of the surface's width, or of its height.
Extent ==
  LET wide == Surface.width * size.height
      high == Surface.height * size.width
  IN  IF wide <= high THEN wide ELSE high

\* KvmViewBase::centered_target_rect: the picture's place in pixels.  A width that is whole
\* may come out below itself, frame_width * (window_width / frame_width) being floats, and
\* then floor() takes a pixel off it.
TargetRect ==
  LET lost == IF size \in FallsShort /\ Extent % size.height = 0 THEN 1 ELSE 0
      w == Extent \div size.height - lost
  IN  [x |-> (Surface.width - w) \div 2, w |-> w]

\* ViewerSurface::update_quad_geometry: the place where the picture is drawn, which is not
\* made whole; in parts of which a pixel has DrawnUnit.
DrawnUnit == 2 * size.height
DrawnRect == [x |-> Surface.width * size.height - Extent, w |-> 2 * Extent]

Clamp(n, low, high) == IF n < low THEN low ELSE IF n > high THEN high ELSE n

\* target_normalized_point: a point if there is any target and the mouse is inside, or is
\* taken to the edge of it; the numerator of a fraction of the target's width.
Inside == TargetRect.x <= pointerX' /\ pointerX' <= TargetRect.x + TargetRect.w
Points(drag) == TargetRect.w > 0 /\ (drag \/ Inside)
Normalized == Clamp(pointerX', TargetRect.x, TargetRect.x + TargetRect.w) - TargetRect.x

\* floor(n / d + 0.5)
Rounded(n, d) == (2 * n + d) \div (2 * d)

\* lround(n / d): halves go away from zero.
LRounded(n, d) == IF n >= 0 THEN Rounded(n, d) ELSE -Rounded(-n, d)

\* to_frame_pixel: the right edge is a pixel beyond the last one.
FramePixel ==
  Clamp(Rounded(Normalized * size.width, TargetRect.w), 0, size.width)

\* A mutant of AbsoluteCoordinate: in the picture's pixels.
UnscaledCoordinate(pixel) == pixel

\* scale_absolute_mouse_coordinate
AbsoluteCoordinate(pixel) ==
  Clamp(Rounded(Clamp(pixel, 0, size.width) * AbsoluteMax, size.width), 0, AbsoluteMax)

\* make_megarac_relative_mouse_packet: one byte.
RelativeStep(way) == Clamp(way, -RelativeMax, RelativeMax)

\* make_pikvm_absolute_mouse_position: from -(AbsoluteMax + 1) to AbsoluteMax.
PikvmMin == -(AbsoluteMax + 1)
PikvmRange == 2 * AbsoluteMax + 1
PikvmCoordinate ==
  LRounded(PikvmMin * TargetRect.w + Normalized * PikvmRange, TargetRect.w)

-----------------------------------------------------------------------------
\* accepts_button() and accepts_key()
AcceptsButton(button) == button \in KnownButtons[protocol]
AcceptsKey(key) == key \in KnownKeys[protocol]

\* encode_pointer of MegaracInputEncoder: the relative report says how far the mouse has
\* come from its last place, as far as one byte goes.
EncodeMegarac ==
  LET way == IF lastPixel = -1 THEN 0 ELSE FramePixel - lastPixel
  IN  /\ guestButtons' = buttons' \cap KnownButtons["megarac"]
      /\ lastPixel' = FramePixel
      /\ guestX' = IF relativeMode THEN RelativeStep(way) ELSE AbsoluteCoordinate(FramePixel)
      /\ UNCHANGED wheelLet

\* That of AtenInputEncoder: a wheel is a button that goes down and up, and in the second
\* report no other one is down.
EncodeAten(change) ==
  /\ guestX' = FramePixel
  /\ guestButtons' = IF change = "wheel" THEN {} ELSE buttons'
  /\ wheelLet' = (change = "wheel")
  /\ UNCHANGED lastPixel

\* make_pikvm_mouse_button_packet: what the host makes of it.
PikvmButtons(change, button) ==
  CASE change = "press" -> guestButtons \cup {button}
    [] change = "release" -> guestButtons \ {button}
    [] OTHER -> guestButtons

\* That of PikvmInputEncoder: a move, and then what changed.
EncodePikvm(change, button) ==
  /\ guestX' = PikvmCoordinate
  /\ guestButtons' = PikvmButtons(change, button)
  /\ UNCHANGED <<lastPixel, wheelLet>>

Encode(change, button) ==
  /\ CASE protocol = "megarac" -> EncodeMegarac
       [] protocol = "aten" -> EncodeAten(change)
       [] protocol = "pikvm" -> EncodePikvm(change, button)
  /\ fresh' = TRUE

NothingEncoded == UNCHANGED <<lastPixel, guestButtons, guestX, wheelLet>>

UsesMouse ==
  /\ device = "mouse"
  /\ UNCHANGED <<protocol, device, live, losses, size, relativeMode, keyVars>>

\* handle_motion: not faster than the throttle, unless a button is down, and not beside
\* the picture, unless one is.
MoveMouse ==
  /\ UsesMouse
  /\ UNCHANGED <<heldButtons, buttons, swallowed>>
  /\ \E x \in Places : pointerX' = x
  /\ \E throttled \in BOOLEAN :
       IF live /\ Points(buttons # {}) /\ (buttons # {} \/ ~throttled)
       THEN Encode("move", "none")
       ELSE NothingEncoded /\ fresh' = (fresh /\ pointerX' = pointerX)

\* handle_button, down ...
PressButton ==
  /\ UsesMouse
  /\ pointerX' = pointerX
  /\ \E button \in Buttons \ heldButtons :
       /\ heldButtons' = heldButtons \cup {button}
       /\ swallowed' = swallowed \ {button}
       /\ IF live /\ AcceptsButton(button) /\ Points(buttons # {})
          THEN buttons' = buttons \cup {button} /\ Encode("press", button)
          ELSE NothingEncoded /\ UNCHANGED <<buttons, fresh>>

\* ... and up, wherever the mouse is; without a target nothing hears of it.
ReleaseButton ==
  /\ UsesMouse
  /\ pointerX' = pointerX
  /\ \E button \in heldButtons :
       /\ heldButtons' = heldButtons \ {button}
       /\ IF live /\ AcceptsButton(button) /\ Points(TRUE)
          THEN buttons' = buttons \ {button} /\ Encode("release", button)
          ELSE NothingEncoded /\ UNCHANGED <<buttons, fresh>>
       /\ swallowed' = IF live /\ Points(TRUE) THEN swallowed ELSE swallowed \cup {button}

\* handle_wheel; ATEN has no wheel to the side.
TurnWheel ==
  /\ UsesMouse
  /\ UNCHANGED <<pointerX, heldButtons, buttons, swallowed>>
  /\ live /\ Points(buttons # {})
  /\ \E sideways \in BOOLEAN :
       IF sideways /\ protocol = "aten"
       THEN NothingEncoded /\ UNCHANGED fresh
       ELSE Encode("wheel", "none")

\* A picture of another size, or another mode of the host's mouse.
HostChanges ==
  /\ device = "mouse"
  /\ live
  /\ \/ /\ \E other \in FrameSizes \ {size} : size' = other
        /\ fresh' = FALSE
        /\ lastPixel' = lastPixel
        /\ UNCHANGED relativeMode
     \/ /\ protocol = "megarac"
        /\ relativeMode' = ~relativeMode
        /\ fresh' = FALSE
        /\ UNCHANGED <<size, lastPixel>>
  /\ UNCHANGED <<protocol, device, live, losses, swallowed, pointerX, heldButtons, buttons,
                 guestButtons, guestX, wheelLet, keyVars>>

-----------------------------------------------------------------------------
\* encode_keyboard of MegaracInputEncoder: bits for the modifiers, and the keys with the
\* lowest scancodes in the slots.
InSlots(keys) ==
  {key \in keys \ Modifiers : Cardinality({k \in keys \ Modifiers : k < key}) < Slots}
Report(keys) == (keys \cap Modifiers) \cup InSlots(keys)

\* The encoders of the others name what changed.
EncodeKeys(down, up) ==
  guestKeys' = IF protocol = "megarac" THEN Report(keyDown')
               ELSE (guestKeys \ up) \cup down

\* handle_key: a key that the encoder knows, and only if it was not down already.
PressKeyboard ==
  /\ device = "keyboard"
  /\ \E key \in Keys \ heldKeys :
       /\ heldKeys' = heldKeys \cup {key}
       /\ IF live /\ AcceptsKey(key)
          THEN /\ keyDown' = keyDown \cup {key}
               /\ IF key \in keyDown THEN UNCHANGED guestKeys ELSE EncodeKeys({key}, {})
               /\ newKeys' = newKeys \cup {key}
          ELSE UNCHANGED <<keyDown, guestKeys, newKeys>>
  /\ UNCHANGED <<protocol, device, live, losses, swallowed, pointerVars>>

ReleaseKeyboard ==
  /\ device = "keyboard"
  /\ \E key \in heldKeys :
       /\ heldKeys' = heldKeys \ {key}
       /\ newKeys' = newKeys \ {key}
       /\ swallowed' = IF live THEN swallowed \ {key}
                       ELSE swallowed \cup (keyDown \cap {key})
       /\ IF live /\ key \in keyDown
          THEN keyDown' = keyDown \ {key} /\ EncodeKeys({}, {key})
          ELSE UNCHANGED <<keyDown, guestKeys>>
  /\ UNCHANGED <<protocol, device, live, losses, pointerVars>>

\* A mutant of LoseFocus: the controller forgets the keys, and does not say so.
LoseFocusQuietly ==
  /\ device = "keyboard"
  /\ keyDown # {}
  /\ keyDown' = {}
  /\ newKeys' = {}
  /\ swallowed' = {}
  /\ UNCHANGED <<protocol, device, live, losses, heldKeys, guestKeys, pointerVars>>

\* focusLost: release_all_keys(), with or without a session, and no button.
LoseFocus ==
  /\ device = "keyboard"
  /\ keyDown # {}
  /\ keyDown' = {}
  /\ guestKeys' = IF live THEN {} ELSE guestKeys
  /\ newKeys' = {}
  /\ swallowed' = {}
  /\ UNCHANGED <<protocol, device, live, losses, heldKeys, pointerVars>>

-----------------------------------------------------------------------------
\* kvm_connection(false).  The host lets go of everything.
LoseSession ==
  /\ live
  /\ losses < MaxLosses
  /\ live' = FALSE
  /\ losses' = losses + 1
  /\ guestButtons' = {}
  /\ guestKeys' = {}
  /\ fresh' = FALSE
  /\ newKeys' = {}
  /\ UNCHANGED <<protocol, device, swallowed, size, pointerX, heldButtons, buttons,
                 relativeMode, lastPixel, guestX, wheelLet, heldKeys, keyDown>>

\* MegaRAC's second attempt at a validation: nothing is reset.
SessionAgain ==
  /\ ~live
  /\ protocol = "megarac"
  /\ live' = TRUE
  /\ UNCHANGED <<protocol, device, losses, swallowed, pointerVars, keyVars>>

\* do_retry() and reset_for_reconnect(): the controller forgets the buttons, but no key.
Reconnect ==
  /\ ~live
  /\ live' = TRUE
  /\ buttons' = {}
  /\ swallowed' = swallowed \ Buttons
  /\ UNCHANGED <<protocol, device, losses, size, pointerX, heldButtons, relativeMode,
                 lastPixel, guestButtons, guestX, fresh, wheelLet, keyVars>>

HostInputNext ==
  \/ MoveMouse \/ PressButton \/ ReleaseButton \/ TurnWheel \/ HostChanges
  \/ PressKeyboard \/ ReleaseKeyboard \/ LoseFocus
  \/ LoseSession \/ SessionAgain \/ Reconnect

-----------------------------------------------------------------------------
\* No button is down for the host that the user does not hold, unless its release came
\* when there was no session or no room for a picture; so a drag never goes on by itself.
NoPhantomButton == live => guestButtons \subseteq heldButtons \cup swallowed

\* Once the host has heard of the mouse it knows every button that the controller does,
\* but for a wheel of ATEN, which lets go of them all.
ButtonsGetThrough ==
  live /\ fresh =>
    IF protocol = "pikvm" THEN guestButtons \subseteq buttons
    ELSE guestButtons = buttons \/ wheelLet

\* Is the place the host was told the one where the mouse is in the picture that is drawn,
\* no more than half a pixel of the picture, half a unit of the protocol and a pixel of the
\* surface off?
At(place, low, range) ==
  LET n == Clamp(pointerX * DrawnUnit, DrawnRect.x, DrawnRect.x + DrawnRect.w) - DrawnRect.x
      d == DrawnRect.w
      off == (place - low) * d - n * range
  IN  2 * size.width * (IF off < 0 THEN -off ELSE off)
        <= d * (range + size.width) + 2 * size.width * range * DrawnUnit

\* A click lands where the user sees the mouse in the picture, whatever the size of the
\* window, of the picture and the units of the protocol: the whole pixels of the controller
\* (centered_target_rect, target_normalized_point) and the fractions with which the surface
\* draws (update_quad_geometry) stay together.
PointsWhereUserDoes ==
  live /\ fresh =>
    CASE protocol = "megarac" -> relativeMode \/ At(guestX, 0, AbsoluteMax)
      [] protocol = "aten" -> At(guestX, 0, size.width)
      [] protocol = "pikvm" -> At(guestX, PikvmMin, PikvmRange)

\* Of the keys the user pressed in this session the host has those that fit in a report,
\* except one that the controller still had down from the session before.
KeysGetThrough ==
  live => LET known == newKeys \cap KnownKeys[protocol]
          IN  \A key \in known :
                \/ key \in guestKeys
                \/ key \in swallowed
                \/ protocol = "megarac" /\ key \notin Report(keyDown)

\* And no other key is down for the host, but one whose release was swallowed.
NoPhantomKey == live => guestKeys \subseteq heldKeys \cup swallowed

=============================================================================
