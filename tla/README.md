# hitsc in TLA+

hitsc is a viewer for the remote consoles of server BMCs: one process shows the
video of a host and sends it keys, pointer events and power actions over MegaRAC,
ATEN or PiKVM protocols; a launcher starts one such process per host. What is hard
to test in it are the seams: a GUI thread and up to three network threads that share
callbacks, sinks and queues, sessions that end and are retried at any moment,
differential video on its way through a bounded queue, byte streams cut anywhere, a
launcher whose probes answer late and whose registry fails half way. These modules
model those seams.

Paths below are relative to `src/src/`.

## Inventory

| Component | State | Operations | Talks to | Hard | Must hold |
|---|---|---|---|---|---|
| View base (`view_base.*`) | `stop_requested_`, `done_`, `force_close_`, `exception_`, `session_ended_`, error | start, stop, poll, retry | every backend's network thread; the window | stop against publication of `force_close_` | a stop always ends the thread; the error shown is the one of this run |
| MegaRAC network thread (`backends/megarac/megarac_view*.cpp`, `bmc_session.cpp`) | web session, websocket registry, attempt, sinks | login, open, install, run, retry, cleanup | view base, InputQueue, PowerChannel | five attempts on one login; exceptions at every step | nothing is left behind; input goes to the live session |
| MegaRAC KVM session (`megarac_view_session.cpp`) | strand, write queue, handshake state, timers | send, power, receive, poll, stop | BMC; viewer | everything is posted; one write at a time; a BMC that does not read | order; no packet stranded; stop ends the session |
| MegaRAC packets and video assembly (`megarac_protocol.cpp`) | bytes, fragments | append, next, push | KVM session | fragments in any cut | frames as sent |
| Frame queue (`view_base.hpp`) | `queue_`, `overflowed_` | publish, drain, overflowed, clear | network thread to GUI thread | deltas, bound, minimizing | a dropped delta is followed by a full frame |
| Aspeed view and decoder (`backends/aspeed/`) | framebuffer, dirty rectangle | latest_frame, blank, minimize, restore, reset | frame queue, surface, BMC | refresh requests that are taken back or answered late | the picture is the host's in the end |
| Viewer surface (`gui/viewer/viewer_surface.cpp`) | texture, pending image, hardware frame, console | show_frame, show_console, render, lose the device | Qt's renderer | partial uploads, two kinds of frames | the screen shows the decoder's picture |
| Hardware cursor (`hardware_cursor.cpp`) | pattern, place, offset | decode, clip, blend | the view's frame | a cursor and a frame of different ages | nothing is read outside either |
| Input path (`gui/viewer/qt_viewer_host.cpp`, `clipboard_typer.cpp`, `viewer_paste_control.cpp`, `view_input.cpp`) | keys and buttons down, armed paste, typer queue, InputQueue | key and mouse events, paste, tick, focus loss | session's sink, the encoders of the backends | typing, physical keys, geometry and lost sessions interleave | no stuck key or button; order kept; it points where the user does |
| View status (`view_status.*`) | connected, rates, power | setters | title bar, gates | none beyond the flag | - |
| Power control (`power_control.hpp`, `viewer_power_control.cpp`) | held button, pulse, sink, outcomes, pending | press, hold, fire, submit, install, poll | session or REST worker | late outcomes, a sink called outside its lock | the toast speaks of what was sent |
| REST worker, HTTPS client (`power_rest_worker.cpp`, `http_client.cpp`) | queue, stopping, connection | submit, stop, request, cancel | BMC | retry of a POST; a cancel that is lost | at most once but for the known case; stop returns |
| ATEN (`backends/aten/`) | request pending, timer, parse drain, write queue, parser | log in, handshake, parse, schedule, stop | BMC | pull loop; silent BMC in the handshake | the loop never stalls; the stream is read whole |
| PiKVM (`backends/pikvm/`) | two channels, stop handles, power worker, decoder, mailbox | open, run, join, announce, decode, pause | BMC | four threads; a stream that starts in the middle | one end ends both; what was typed is written; no picture from before |
| TLS, trust and prompt (`tls.cpp`, `cert_*.cpp`) | approvals, pin, cached sessions, pending prompt | evaluate, show, cancel, push, pop | GUI thread from network threads | two threads wait for each other; a resumed session verifies nothing | no deadlock; the verdict is for this certificate |
| Backend detection (`backends/auto/`) | result slot | run, attach, fail | window | close while detecting | the thread is joined |
| Launcher model, store, probes (`gui/launcher_*.cpp`) | hosts, in-flight probes, registry | add, edit, delete, connect, probe rounds | registry, pipe, probes | late probes; partial writes | a row says what its host does |
| Child processes (`gui/child/`) | children by host | launch, activate, finished, detach | viewer processes | launch twice; exit during launch | a host whose viewer has a window gets no second one |
| Window placement, preferences, title bar, logging, tracing, CLI, QML, scripts | - | - | - | I/O and display | - |

`PROJECT.json` lists the same components with their status, and under `hazards` what
is hard to test in this code, each at its line.

## How the parts interact

A viewer process has a GUI thread with a 16 ms frame timer and, per run, one network
thread (which has two more for PiKVM's channels). They share one `ViewStateBase`: the GUI
thread sets `stop_requested_`, copies `force_close_` under its mutex and calls the copy
outside it, and then joins; the network thread replaces `force_close_` at each stage of the
connection, and at its end sets `done_`, which the frame timer's poll turns into the ended
console. Key R on that console starts another run on the same state. Input goes from the GUI
thread through `InputQueue` into a sink that the session of the moment has installed; power
actions do the same through `PowerChannel`; frames come back through `FrameQueue`, or for
PiKVM through a mailbox that keeps the newest one. A TLS handshake on the network thread may
ask the GUI thread for a dialog and wait for it. A viewer that is not told the kind of its
host runs a detection thread first and has a view only when that thread is done. The launcher
shares nothing with its viewers but the registry, a pipe and their exit.

## Modules

| Module | Models | State and actions |
|---|---|---|
| `SessionLifecycle` | what a view promises its window, whatever the backend | phase, link, error; the abstract specification that the network modules implement |
| `ViewBase` | `view_base.cpp/hpp`: the GUI thread and the frame of the network thread | `gui` and `worker` are the program counters; one action per step between two accesses to shared state: `RequestStop`, `SnapshotForceClose`, `CallForceClose`, `JoinAndClose`, `Poll`, `DropForceClose`, `Finish` |
| `MegaracNetwork` | `run_megarac_view_session`, on ViewBase | login, registry, up to five websocket attempts, sinks, stop session, guards, cleanup; sessions and sockets are numbered by attempt |
| `AtenNetwork` | `run_aten_network_session` and `AtenNetworkRfbSession`, on ViewBase | login with its redirects, the blocking handshake as one step, the pull loop: request pending, timer, posted drain, parser, write queue, what is on the wire |
| `PikvmNetwork` | `run_pikvm_network_session`, on ViewBase | three program counters, the stop handles under their mutex, the event session's queue, write and grace timer |
| `CertTrust` | `cert_trust.cpp`, `cert_prompt.cpp`, the session cache of `tls.cpp` and `auto_view.cpp`, on ViewBase | detection stage, three kinds of handshake, cached sessions, the broker's approvals and pin, the one slot for a prompt, the GUI thread's event queue, the dialog, the event loop's end |
| `MegaracSession` | `KvmAsyncSession` | the strand's queue of posted handlers, the write queue, the protocol's flags, two timers |
| `FrameQueue` | `FrameQueue` in `view_base.hpp` | `queue`, `overflowed` |
| `ViewerSurface` | console and image path of `viewer_surface.cpp` | texture, pending dirty regions, console, lost device |
| `AspeedView` | the video path on `FrameQueue` and `ViewerSurface`: BMC, network thread, queue, decoder, surface | a picture is a function from regions to versions of the host's screen; a frame is a set of regions with their versions |
| `PikvmVideo` | stream, parser, decoder and mailbox of `pikvm_video.cpp`, `PikvmView` | a frame is the epoch it was sent in (how often the user has come back to the picture) and whether it is a key frame |
| `InputPath` (`MCInputPath`) | `qt_viewer_host.cpp`, `clipboard_typer.cpp`, `viewer_paste_control.cpp`, `InputQueue` | the user's fingers, the paste button's two clicks, the typer's queue, the controller's keys, the queue and its sink, what the guest sees |
| `PowerPath` | `viewer_power_control.cpp`, `power_control.hpp`, `power_rest_worker.cpp`, `http_client.cpp` | three threads from the held button to the pressed one; actions are numbered |
| `LauncherHosts` | `launcher_host_model.cpp`, `launcher_host_store.cpp`, `launcher_reachability_probe.cpp`, `gui/child/` | rows, keys of the registry value by value, probes on their way, viewer processes; the launcher's life |
| `ByteBuffer`, `MegaracWire` | the receive buffer with its compaction; `MegaracPacketBuffer`, `MegaracVideoAssembler`, on_read's loop | bytes; packets as headers and payloads |
| `AtenWire` | `RfbHandshakeStream`, the handshake of `aten_protocol.cpp`, `AtenRfbMessageBuffer` and the parse loop | bytes in the receive path, fields in the handshake |
| `HardwareCursor` | `hardware_cursor.cpp`, the cursor packets of both backends | sizes, clip, pattern cells that are read |
| `HostInput` | `view_input.cpp`, the geometry of `viewer_surface.cpp`, and how each backend encodes pointer and keys | surface, picture, frame size, buttons and keys down; reports and what the host makes of them |
| `VideoFeedback` | the frame counters of `KvmAsyncSession` and `on_frame_presented()`, on `FrameQueue` | two threads' counters and a report made in two steps |
| `Wire` (`MCWire`) | the five modules above, one after the other | `link` says what a behaviour is about; each link keeps the variables of the others still |
| `MegaracView` (`MCMegaracView`) | a MegaRAC viewer: `MegaracNetwork`, `MegaracSession` and `AspeedView`, and the fairness of each | `part` says what a behaviour is about |
| `PikvmView` | a PiKVM viewer: `PikvmNetwork` and `PikvmVideo`, and the fairness of each | `half` says what a behaviour is about |
| `MegaracNetworkProofs`, `AtenNetworkProofs`, `PowerPathProofs`, `AspeedViewProofs` | - | the proofs about the module of that name |
| `PikvmNetworkProofs`, `MegaracSessionProofs`, `CertTrustProofs`, `WireProofs` | - | the proofs about the module of that name, and about `PikvmVideo`, `InputPath`, `LauncherHosts` and the parts of `Wire` |

A handler of a strand, and a stretch of code under one mutex, is one action; a thread that
touches shared state twice takes two. Where a module has a definition "a mutant of X", it is
not part of the specification: it is a plausible mistake in the code behind X, written down
to show which property notices it.

What stands for the data: sockets, sessions and callbacks are numbers, the content of an
error is the run it came from, packets of a session have a kind, frames have regions and
versions or an epoch, certificates are model values, a registry value is right or not, and
bytes are bytes only in `MegaracWire` and `AtenWire`, whose constants make packets small.

## Runs

| Run | Instance | What it shows |
|---|---|---|
| `megarac` | threads: two runs, five attempts (the code's `kMaxValidationRetries`), a BMC that commits late; session: two inputs, one power action, three packets waiting; picture: two regions, two versions, a queue of two frames, a console of the size of the frames or of another | threads: nothing is left behind when the ended console is up (`EndedMeansQuiet`); it reports this run and not the one before (`ReportIsOfThisRun`); an installed sink leads to the session of the moment (`InputReachesLiveSession`); a stop in the first attempt arrives (`StopIsNotLost`); a session that is over is told to the user (`EndIsReported`); the threads implement `SessionLifecycle`; session: what was accepted is sent, in order and once (`AcceptedIsSent`); a stop overtakes the queue (`StopOvertakesQueue`) and ends the session although the BMC reads nothing (`StopEndsSession`); picture: dropped frames are always followed by a request for a full one (`InSyncOrRefreshing`); the texture is the decoder's picture but where a console has been painted over it (`ScreenShowsPicture`), which is right in the end (`PictureRecovers`) |
| `input_path` | a letter and a modifier, two key presses, one paste, safe (a capital) or risky (a capital and a small letter), two sessions | the guest agrees with the controller (`GuestAgrees`); a paste is not mixed with physical keys (`TypedStreamIsClean`); the typer releases what it holds (`TyperReleasesItsKeys`) |
| `cert_trust` | three certificates, one of them known to the system, a stored host of unknown kind, two runs, two cached sessions | the dialog always has a caller; a session has a certificate that someone vouched for; nothing is asked twice; no thread outlives the viewer; closing the window ends a prompt that is published |
| `aten_network` | two runs, drains of one message, one thing on its way when the BMC sends another | the pull loop never stalls (`LoopIsAlive`); a stop ends the thread, unless the BMC leaves it in a synchronous call (`StopCompletes`); the threads implement `SessionLifecycle` |
| `pikvm` | threads: two runs, two input events in each; picture: two returns of the user, a hardware decoder that may fall back, a delay of two access units | threads: what is left when a run has ended (`EndedMeansQuiet`); what was queued before a stop is written or the grace time is over (`NothingLeftUnwritten`); a stop, and an error of any thread, ends all of them (`StopCompletes`, `ErrorEndsRun`), unless the BMC leaves the network thread in a synchronous call; picture: no picture is made from a delta without its key frame, and none of an earlier session is shown (`PictureIsSound`); the picture of the moment comes (`ScreenCatchesUp`) |
| `power_path` | two actions, two sessions, a hold of two ticks | worker and network thread are in the client at the same time only in one known way (`ClientHasOneUser`); a button is pressed twice only if its answer was lost with a reused connection (`PressedTwiceOnlyIfLost`); what is confirmed in a session is answered (`ConfirmedIsAnswered`) and the teardown ends with any queue (`TeardownEnds`), unless the BMC leaves an exchange open |
| `launcher` | two hosts, two addresses, four edits, two probes | rows and registry agree but for a write that failed (`ListIsSound`); an online row goes offline by two failures in a row only (`OfflineNeedsTwoFailures`) |
| `wire` | three packets or messages cut anywhere, eight offers of a handshake, a surface of seven by five, four sizes of frame, one of them narrower than a column of the surface, the mouse beside, at the edge of and in the picture, two keys' slots, one lost focus, five frames | both receive paths hand on what was sent and refuse only what is unknown, implausible or not made for the session (`StreamIsWhole`); the host's buttons and keys are the user's (`HostHoldsWhatUserDoes`); the pointer is where the user sees it in the picture as drawn (`PointsWhereUserDoes`); the cursor reads inside its pattern and the frame (`CursorReadsInside`); a feedback report is the change of the backlog (`ReportIsTheChange`) |
| `cert_close`, `power_stop`, `power_twice`, `feedback` | the instances of `cert_trust` with less in it, of `power_path` twice, and of the feedback in `wire` with three frames | the findings below |

In `megarac`, `pikvm` and `wire` a behaviour is about one of the parts, and keeps the variables of
the others at their initial values.
They are in one run because they are one viewer, not because they would interleave.

### Why these bounds

* `MaxRuns = 2`: what one run can do to the next is done by its remains (error, sinks,
  flags, pins, cached TLS sessions), and all of them are overwritten or cleared at the
  restart; a third run starts from the same remains as the second. The theorems have no
  bound.
* `MaxValidationRetries = 5` is the constant of the code.
* `MaxQueue`, `MaxBusy`, `MaxQueued`, `MaxWire`, `MaxInputs` bound queues whose handlers look
  at the head and at emptiness only; with them every queue can be empty, have one element, or
  be full. The frame queue of the code has room for 240 frames; what matters is that it
  overflows before and after a drain.
* `MaxDrain = 1` and `DrainLimit = 2` make a drain a full one early, which is the case that
  posts the next drain; a drain that finds nothing is still possible.
* Two regions and two versions are the least with which a partial update can leave one
  region old and the other new.
* Two keys are a modifier and what it modifies; a paste of two characters has one chord with
  the modifier and one without it.
* `HoldTicks = 2` and `PulseTicks = 1` have a hold that is released in time and a pulse that
  ends by itself; the code's 75 and 20 only take longer. Two actions are one that is under
  way and one that waits.
* `MaxTickets = 2`: one session of each of two certificates, and one that is pushed out.
* Two hosts can be confused with each other; two failures and one success of a probe fit
  into the deeds.
* `Delay = 2`: an access unit in the parser and one in the decoder. Three epochs are the
  first picture, a return before it has come and a return after it.
* `CompactAt`, `PatternSize`, `Narrow`, `AbsoluteMax`, `RelativeMax` and `Slots` replace the
  code's sizes (a compaction after 4096 bytes, patterns of 64 by 64, ranges of 32767 and 127, six
  keys) by ones that a short stream or a small window reaches from both sides. `MaxPattern` does
  so for the 16 MB of an ATEN cursor: one message is within it, one beyond.
* `FallsShort` are the sizes of a frame for which the float arithmetic of
  `centered_target_rect()` comes out below a whole number, where `floor()` takes a pixel more;
  the instance has one such size and others, the theorem takes any set.

`CHECK_DEADLOCK FALSE` is in the configurations of `InputPath` and `LauncherHosts`, where the
user may have nothing left to do, of `Wire` and `VideoFeedback`, whose streams end,
and of `CertTrust`, where a deadlock is the finding.

### Fairness

Threads are scheduled and timers fire: `WF` on the steps of the network threads, on the GUI
thread's stop and join, on the frame timer's poll, on the typer's, the pulse's and the grace
timers. This is what an operating system and an event loop give. About the other side:

* `MegaracSession` (`KvmFairness` in `MegaracView`): nothing at all. The grace timer alone ends a
  session that is stopped.
* `AspeedView` (`AspeedFairness` in `MegaracView`): the BMC sends the full frame that was asked for.
* `MegaracNetwork`, `AtenNetwork`, `PikvmNetwork`, `PowerPath`: the BMC need not answer, read or
  send anything. Logins, requests, the opening of a websocket and ATEN's RFB handshake are
  synchronous operations of Beast on a blocking socket (`http_client.cpp:297` and `:341`,
  `bmc_session.cpp:263`). `expires_after()` and the handshake timeout act on asynchronous
  operations only, and `io_.stop()` does not interrupt them: only the BMC ends such a step, and
  the models have no fairness of it (`Synchronous`, `BmcWaits`, `NetWaits`, `ExchangeEnds`). Their
  liveness properties therefore begin with `BmcSilent`, the behaviours in which a thread stays in
  such a step for good. An operation on a closed socket fails, which ends ATEN's RFB handshake
  once the close callback is published. What follows is asynchronous, and there the properties
  hold with a BMC that does nothing at all. No session ends by itself.
* `PikvmVideo`: a connected server announces its media and repeats its key frame. That is
  strong fairness, because the window may be minimized and the stream paused in between.
* `CertTrust`: a session ends when it is asked to. Nothing makes the user answer.

`InputPath`, `LauncherHosts` and `Wire` check safety only.

## Findings

In each of these runs a sentence of the repository is stated as a property, and the code as
modelled violates it. Where a weaker statement holds, another run checks it.

* `cert_close`: a window that closes when the network thread is about to publish its prompt
  cancels nothing, and the dialog is posted to a GUI thread that waits in `join()`
  (`cert_prompt.cpp:161`), which `qt_viewer_host.cpp:272` and `cert_prompt.hpp:43` say cannot
  happen. A prompt that is published is ended (`CloseEndsPrompt`).
* `power_stop`: a stop is to "Abort any request currently blocked in run() so the join returns
  promptly" (`power_rest_worker.cpp:49`); `io_.stop()` does not reach a synchronous exchange
  (`StopAbortsRequest`). The teardown ends when the BMC ends the exchange (`TeardownEnds`).
* `power_twice`: `http_client.cpp:245` calls the retry safe since "the request was never
  processed". A BMC that closes a kept connection after it has pressed and before it answers is
  sent the action again (`NeverPressedTwice`); that is the only way (`PressedTwiceOnlyIfLost`).
* `feedback`: the report is to be the backlog, "so the BMC slows if we GENUINELY fall behind"
  (`megarac_view_session.cpp:847`). It is the change of the backlog without its sign
  (`ReportIsTheChange`): a backlog that stands reports 0 (`BacklogIsReported`).

## What the code does that a reader might not expect

Met while modelling, beside the findings. The models have these behaviours, and where a
property would be false because of one, it excepts that case and says so. Where a comment of
the code reads differently, it is quoted.

Stopping and sessions
* Between two MegaRAC validation attempts `close_socket()` has emptied `force_close_`; a stop
  there calls nothing, and the join lasts as long as the BMC keeps the next session
  (`megarac_view_session.cpp:1084`). `StopIsNotLost` speaks of the first attempt.
* A power action between two attempts is reported to nobody; ATEN reports "sent" before it
  queues the packet.
* A submit that holds a power worker's last reference joins its thread on the GUI thread,
  and the logout does not wait for it (`ClientHasOneUser`).
* A view that is attached after the window has closed is stopped after `exec()` only.
* The callback copied by stop() may be called while an exception destroys what it refers to;
  object lifetimes are not modelled.

Video
* A console of the size of the frames is painted over the texture, and `show_console()` clears a
  dirty rectangle that is not uploaded: the next partial upload, "in place over the prior frame"
  (`viewer_surface.cpp:463`), patches the console (`viewer_surface.cpp:178`).
* After a retry ATEN's first request asks for changes only, since `on_reset()` leaves the
  flag of `request_full_refresh()` alone (`aten_view.cpp:163`); and a frame equal to the last
  published one is dropped although the GUI thread may have thrown that one away.
* A MegaRAC frame that cannot be decoded is skipped without a request for a full one.
* The first feedback report of a later session counts the frames of the earlier ones.
* A PiKVM stream that goes from the hardware decoder to the software one keeps the last
  hardware frame on the screen; a publish that races a minimize leaves an old frame in the
  mailbox; frame times are those of the access unit before.
* A cursor hidden by a console stays hidden until the cursor or the picture below changes;
  an ATEN pattern that is cached loses its type.

Input
* "Guest went away mid-paste: release whatever's held" (`clipboard_typer.cpp:95`): the releases
  need the session that is gone, and the controller keeps the keys for the next one.
* The second click on a risky paste types what the clipboard holds by then.
* A button that is released while the picture has no place in the window, as before the first
  frame, stays down in the controller: `target_normalized_point()` has no point to report it at.
* `key_down_` is not reset on a reconnect; a seventh key pushes a held one out of a MegaRAC
  report; the wheel during a drag releases all buttons on ATEN.
* The pointer is placed by a rectangle in whole pixels, the picture is drawn without rounding:
  up to a pixel of the window lies between them, which for a small window is much of the picture.
* The last motion inside the 8 ms throttle is dropped; relative motion beyond 127 is lost;
  a pixel can equal the width of the frame.
* The highest security type of an ATEN offer is chosen even when only a lower one is
  implemented.

Launcher
* A late probe answer for an address that was edited counts for the new one.
* A write that fails half way leaves a new address with old credentials, and a host whose add
  failed comes back at the next start; a pin survives an edit of the address.
* A second connect before the first viewer has a window starts a second viewer.

## Proofs

A theorem holds for every value of the constants that the named assumptions of its module
allow; where it needs more, its statement says so. Every safety property that a passing run
checks is stated by a theorem.

An invariant is seldom inductive as it is. For each there is a stronger one (`IInv`, or one
named for its subject), a conjunction of named parts with a lemma each that says that a step
keeps it. Each of these was model-checked on the instance of its run before it was proved,
but for that of the streams of `Wire`, which quantifies over sets of sequences.

| Module | Theorems | Proved of |
|---|---|---|
| `MegaracNetworkProofs` | `TypeCorrect`, `QuietWhenEnded`, `ReportCorrect`, `InputCorrect`, `StopDelivered`, `Refinement` | `TypeOK`, `EndedMeansQuiet`, `ReportIsOfThisRun`, `InputReachesLiveSession`, `StopIsNotLost`, `ImplementsLifecycle` |
| `AtenNetworkProofs` | `LoopCorrect`, `Refinement` | `LoopIsAlive`, `ImplementsLifecycle` |
| `PikvmNetworkProofs` | `QuietCorrect`, `DrainCorrect`; `PictureCorrect` | `EndedMeansQuiet`, `NothingLeftUnwritten`; `PictureIsSound` of `PikvmVideo` |
| `MegaracSessionProofs` | `AcceptedCorrect`, `StopCorrect`; `GuestCorrect`, `StreamCorrect`, `ReleaseCorrect` | `AcceptedIsSent`, `StopOvertakesQueue`; `GuestAgrees`, `TypedStreamIsClean`, `TyperReleasesItsKeys` of `InputPath` |
| `CertTrustProofs` | `TrustCorrect`, `DialogCorrect`, `AskedCorrect`, `ViewerCorrect`; `ListCorrect`, `OfflineCorrect` | `SessionIsTrusted`, `DialogHasCaller`, `AskedOnce`, `NothingOutlivesViewer`; `ListIsSound`, `OfflineNeedsTwoFailures` of `LauncherHosts` |
| `PowerPathProofs` | `ClientCorrect`, `PressedCorrect` | `ClientHasOneUser`, `PressedTwiceOnlyIfLost` |
| `AspeedViewProofs` | `SyncCorrect`, `ScreenCorrect` | `InSyncOrRefreshing` of a MegaRAC view, `ScreenShowsPicture` |
| `WireProofs` | `ReportCorrect`, `FeedbackCorrect`, `HostCorrect`, `PointerCorrect`, `StreamCorrect`, `CursorCorrect`; `MegaracCursorInside`, `AtenCursorInside` | `ReportIsTheChange`, `HostHoldsWhatUserDoes`, `PointsWhereUserDoes`, `StreamIsWhole`, `CursorReadsInside`; what a cursor of any fields reads |

What comes behind a semicolon is about a second module, which the proof module extends as
well; the names of the two are kept apart (`InputSpec`, `PictureSpec`, `LauncherSpec`).

### The network threads

`MegaracNetworkProofs`, with

    IInv == TypeOK /\ GuiInv /\ QuietInv /\ ReportInv /\ InputInv /\ StopInv

`GuiInv` ties the program counter of the GUI thread to the flags it has set; `QuietInv` says
which of connection, sockets, callback and sinks are gone at each step of the network
thread's way out; `ReportInv` says whose error is stored at each step; `InputInv` ties the
sink to the attempt and the session; `StopInv` says, for the steps of the two threads in the
first attempt, where a stop is on its way: in the snapshot, posted, handled, or in the closed
socket. The refinement needs, besides, that nothing is connected once the network thread is
on its way out, which is in `QuietInv`.

`AtenNetworkProofs`. `LoopIsAlive` asks for an update under way only where no timer runs, and
is not inductive: with a pending request and an active timer both, the request is alone when
the timer expires. `LoopInv` says the links of the chain one by one, that a request that is
pending is under way whatever the timer does, and `UnderWay` is followed place by place
(being written, queued, asked for, on the wire, in the parser). `ConnectedInv` and `GuiInv`
carry the refinement.

`PikvmNetworkProofs`. `ThreadInv` says which channel threads there are at each step of the
network thread, `CallsInv` who is still in `stop_all()`, `QuietInv` what is left at each step
of the way out, `SessionInv` which state of the event session goes with which step of its
thread, and `QueueInv` numbers the inputs: what is on the wire is 1, 2, 3 ..., the write queue
goes on from there, and what is posted from there again.

### A session and its input

`MegaracSessionProofs`. Packets of a kind are numbered as the viewer hands them over. `Flow`
says that those on the wire, those in the write queue and those on the strand are one
sequence without a gap, from which a stop takes the rest and never the middle. What the
session sends by itself is of another kind and does not count. `InOrder`, with which
`AcceptedIsSent` states the order, has lemmas for each thing that is done to a queue.

For `InputPath`, `ReportInv` follows the last report: it says what the controller says,
whether it is in the call of the sink, the last one of `pending`, of what `install()` flushes,
or posted. `FeedInv` says what a handler has left to feed (at most a press, then releases),
and `TypedInv` that each key the typer has down in the controller is one of its `pressed`, or
about to be released. None of it depends on what a plan says, only on `tick()` keeping track
of what it feeds.

### Trust and the launcher

`CertTrustProofs`, with

    IInv == TrustInv /\ PromptInv /\ AskedInv /\ DetectInv /\ CloseInv

`TrustInv` follows trust to where it is kept between two handshakes: approvals, pins and
every cached TLS session are of certificates that somebody vouched for, and an answer that is
waited for is about the certificate of this handshake. The lemmas on `Pushed`, `Live` and
`Prepared` say that the cache yields what was put into it. `PromptInv` has the four places a
prompt can be in (the slot, the event queue, the dialog, the semaphore) belong to one prompt.
`AskedInv` says that all the consent there is, but for an answer under way, is in `approved`,
and that a certificate that is asked about is not. `DetectInv` keeps the detection's thread
out of a session's way out, which `CloseInv` needs: no retry begins before there is a view.

For `LauncherHosts`, `ListInv` is the list against the store key by key, ordered and without
duplicates, with the lemmas that sorting a set of rows by rank gives such a list and that
inserting at `insertion_row_for_host()` and removing keep it one. `FailInv` says what a
failure that is remembered is about.
`OfflineNeedsTwoFailures` is an action property, proved of every step from these.

### Power

`PowerPathProofs`. `HolderInv` says who holds the worker at each step of the two threads,
`TicketInv` that an action is in one place only (popup, waiting, queue, current), and
`PressInv` how often it has been carried out at each step of an exchange with the BMC.

### Pictures

`AspeedViewProofs`. `InSyncOrRefreshing` is inductive with the types of the variables; what it
takes is how `DecodeAll`, the recursion over the queue, behaves when a frame is appended,
taken or when one of them is full. These lemmas are proved by induction over sets: the library's
induction theorems take an operator and cannot be used, but a set of naturals has a least element
(`Least`), and the set of lengths for which a statement fails therefore is empty.
`Backend = "megarac"` is needed: ATEN drops a frame that equals the last published one, which
the GUI thread may have thrown away. `ScreenCorrect` has no such assumption: the regions that a
console was painted over, or whose upload it has cancelled, are `dropped` until they are drawn
again, and the texture of the others is the decoder's wherever the next frame goes.

`PictureCorrect`: `EpochInv` says that no frame, wherever it is, is older than the session,
`GapInv` that after a gap the first of the frames on their way is a key frame, or a later one
is waited for, `PipeInv` that nothing in the decoder's pipe is broken.

### What the host gets

`WireProofs`. The account of the feedback (`Account`, `AccountOfReport`): what was received
and not presented waits in the queue, waits to be decoded or is lost, between two reports and
while one is made. `ButtonInv` and `KeyInv` relate three sets: what the user holds, what the
controller has, and what the host was told. `PlaceInv` has the arithmetic of the pointer
for all sizes: window to the controller's rectangle of whole pixels, that to a frame pixel, the
pixel to the units of the protocol and back, against the fraction of the picture as it is drawn.
`MegaracCursorInside` and `AtenCursorInside` are about the operators alone: whatever the
header says, what passes the checks of `hardware_cursor.cpp` reads inside pattern and frame.

`StreamCorrect`, with

    WholeInv == StreamInv /\ AtenStreamInv

The bytes in the buffer and those that have not arrived are one stream (`Here`), however it
is cut; what has to be known of it is that it is one packet after the other, and what the
session will hold after each. Packets are found one by one, so this is a recursion over the
stream; `StreamInv` says it without one: there is a set of *prospects*, states of the session
with the bytes still to come by then, that has the present one among them, and from each of
which there is a next one whose first packet has been handled (`Taken`), or all is handled and
the viewer is where the BMC is (`Sent`). A step of the viewer goes from one prospect to the
next; a step of the BMC adds its packet to the stream of each and one prospect at the end
(`PathGrows`). `AtenStreamInv` has the same for messages (`Ahead`), after the greetings of the
two ends, which take turns (`Greeting`); the messages the BMC sends behind ServerInit are
ahead before the viewer has read it.

Both need that a packet is found as soon as it is there, and no other than the BMC meant:
`PacketFound`, `PacketComes`, and for the lengths of ATEN's messages `LengthFound`. The last
rests on how the starts of an update's rectangles, a recursive function, behave when bytes
come behind them (`RectStartIs`, `RectStartLonger`): what can be read stays what it is. As
in `AspeedViewProofs`, the induction is over sets of naturals by a least element.

`CursorCorrect` is the two theorems about the operators, with what the streams say of the
fields: they are numbers, and a pattern comes with a size.

### What the proofs changed in the model

* `HostInput` reported the pointer for a target without an extent; `target_normalized_point()`
  returns nothing there (`Points`).
* The cases of `Decode` overlapped; the code tests them in order.
* `PowerPath` kept the mark of a worker that outlives its session beyond a retry.
* `InputPath`'s typer removed all presses of a key at its release, the code the newest
  (`Newest`), and stopped after its last event without the release of what is left.
* `LauncherHosts` sorts by rank, which says the same of a set of rows as a sort and can be
  reasoned about.
* `MegaracWire` read the first byte of a cursor packet without a payload; the code ignores what
  is shorter than a cursor's header (`hardware_cursor.cpp:81`), and the BMC of the model now
  sends one.
* `AtenWire` handled a framebuffer update in a session without the Insyde extension, which the
  code refuses, and took a cursor of any size (`Unhandled`, `OversizedCursor`).
* What a BMC of the streams may send had no assumption: frames are not empty and smaller than
  the viewer's limits with their headers, a message of ATEN whose type is known is as long as
  its own fields say, and an offer of RFB 3.3 has one security type.

### What is only model-checked, and why

* Liveness (`EndIsReported`, `StopEndsSession`, `PictureRecovers`, `StopCompletes`,
  `CloseEndsPrompt`, `ErrorEndsRun`, `ConfirmedIsAnswered`, `TeardownEnds`,
  `ScreenCatchesUp`): the prover has no rules for fairness and for ENABLED.
* That the behaviours of `MegaracView` and `PikvmView` are those of their parts: the theorems are
  about each part with its own specification.

The type invariants are not among the properties of the runs, to leave the runs to what could
go wrong; each holds on the instance of its module's run, that of `MegaracNetwork` is a theorem,
and the other proofs carry the types they need.

## What is not modelled

The component list in `PROJECT.json` has the reason for each. In short:

* pixels, codecs and key codes: the AST and H.264 decoders, shaders, keyboard layout tables,
  HID usages. They are functions of their input without a state that two steps share;
  FFmpeg, D3D11 and the vendored decoder are external.
* text: JSON, HTML, HTTP headers and cookies, addresses, fingerprints, console lines. They
  appear as kinds and outcomes.
* display: rates, titles, toasts, painting, QML, window geometry, preferences.
* the command line, logging and tracing, scripts, ports and tests.
* of modelled components: MegaRAC's mouse mode and client list, ATEN's static-screen backoff,
  its guard against equal frames and its power sink, the launcher's search, last connected
  host and encryption, two launchers at a time, the headless certificate case.

## Plan

1. ATEN's guard against equal frames between `AtenNetwork` and `AspeedView`, and then
   `InSyncOrRefreshing` of an ATEN view.
2. The lifetime of what `force_close_` refers to.
3. The order of two reports of which `install()` lets one overtake the other, which
   `GuestAgrees` excepts.
