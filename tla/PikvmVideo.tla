------------------------------ MODULE PikvmVideo ------------------------------
(***************************************************************************)
(* The picture of a PiKVM viewer: PikvmVideoStream and PikvmH264Decoder on *)
(* the video thread, the mailbox with the newest decoded frame, and the    *)
(* PikvmView that the GUI thread polls, minimizes and restores.            *)
(*                                                                         *)
(* What a frame shows is reduced to its epoch: how often the user had come *)
(* back to the picture, by restoring the window or by reconnecting, when   *)
(* the server sent it.  PikvmNetwork has the threads and the end of a      *)
(* session in detail; here a session is live or over.                      *)
(***************************************************************************)
EXTENDS Naturals, Sequences

CONSTANTS
  Hardware,    \* whether QRhi has a device for the decoder
  Delay,       \* access units that the parser and the decoder hold back
  MaxWire,     \* bound of the model: messages on their way
  MaxEpochs    \* bound of the model: returns of the user to the picture

ASSUME PikvmVideoAssumption ==
  /\ Hardware \in BOOLEAN
  /\ {Delay, MaxWire, MaxEpochs} \subseteq Nat \ {0}

VARIABLES
  videoSession, \* "live" or "over"
  videoConnected,  \* ViewStatus::connected_, set by the control thread
  displayOff,   \* display_online_ is there and false
  wire,         \* messages that the server has sent
  serverKeyed,  \* the server has sent a key frame on this connection
  startSent,    \* start_sent_: the server has been asked for video
  waiting,      \* waiting_for_keyframe_
  opened,       \* the decoder was opened with hardware
  mode,         \* what choose_pixel_format() chose last
  pipe,         \* access units in the parser and the decoder
  frame,        \* the decoded frame in the hands of the video thread
  cleared,      \* on_frame has found that decoding is not paused
  mailbox,      \* PikvmViewState::frames
  seen,         \* its sequence is hosted_last_sequence_
  paused,       \* video_decode_paused
  minimized,    \* the window
  hosted,       \* hosted_frame_
  hostedHw,     \* hosted_hw_frame_
  screen,       \* what the surface shows
  epoch,        \* returns of the user so far
  since,        \* history: the epoch in which the session began
  gap           \* history: a frame since the last key frame has not been decoded

streamVars == <<wire, serverKeyed, startSent, waiting, opened, mode, pipe, frame, cleared, gap>>
shownVars == <<mailbox, seen, paused, minimized, hosted, hostedHw>>
statusVars == <<videoSession, videoConnected, displayOff>>
pictureVars == <<streamVars, shownVars, statusVars, screen, epoch, since>>

None == [epoch |-> 0, hw |-> FALSE]
Message(kind, key) == [kind |-> kind, key |-> key, epoch |-> epoch]

\* open_best_decoder(): hardware if there is some and it opens.
OpenDecoder == {FALSE, Hardware}

PictureInit ==
  /\ wire = <<>>
  /\ serverKeyed = FALSE
  /\ startSent = FALSE
  /\ waiting = FALSE
  /\ opened \in OpenDecoder
  /\ mode = "none"
  /\ pipe = <<>>
  /\ frame = None
  /\ cleared = FALSE
  /\ gap = TRUE
  /\ videoSession = "live"
  /\ videoConnected = FALSE
  /\ displayOff = FALSE
  /\ mailbox = None
  /\ seen = FALSE
  /\ paused = FALSE
  /\ minimized = FALSE
  /\ hosted = None
  /\ hostedHw = None
  /\ screen = None
  /\ epoch = 1
  /\ since = 1

-----------------------------------------------------------------------------
\* The server announces its media, or media without H.264, or something else; and once it
\* has been asked, it sends video that begins with a key frame.
SendText(kind) ==
  /\ videoSession = "live"
  /\ Len(wire) < MaxWire
  /\ kind \in {"media", "noMedia"} => ~startSent
  /\ wire' = Append(wire, Message(kind, FALSE))
  /\ UNCHANGED <<serverKeyed, startSent, waiting, opened, mode, pipe, frame, cleared, gap,
                 shownVars, statusVars, screen, epoch, since>>

SendVideo(key) ==
  /\ videoSession = "live"
  /\ startSent
  /\ Len(wire) < MaxWire
  /\ key \/ serverKeyed
  /\ serverKeyed' = TRUE
  /\ wire' = Append(wire, Message("video", key))
  /\ UNCHANGED <<startSent, waiting, opened, mode, pipe, frame, cleared, gap,
                 shownVars, statusVars, screen, epoch, since>>

\* The control thread: the connection is there, and the streamer has a source or not.
Connect ==
  /\ videoSession = "live"
  /\ ~videoConnected
  /\ videoConnected' = TRUE
  /\ UNCHANGED <<videoSession, displayOff, streamVars, shownVars, screen, epoch, since>>

DisplayStatus(online) ==
  /\ videoSession = "live"
  /\ videoConnected
  /\ displayOff = online
  /\ displayOff' = ~online
  /\ UNCHANGED <<videoSession, videoConnected, streamVars, shownVars, screen, epoch, since>>

-----------------------------------------------------------------------------
\* choose_pixel_format(), asked by the decoder at a key frame: hardware frames if they are
\* on offer.
Formats == IF opened THEN {"hardware", "software"} ELSE {"software"}

\* make_output_frame(): a hardware frame stays where it is, any other becomes a frame in
\* memory, converted if the view cannot.
OutputFrame(unit, format) == [epoch |-> unit.epoch, hw |-> format = "hardware"]

\* decode_packet() and receive_frames(): the access unit goes in, and an earlier one may
\* come out.
Ingest(m) ==
  LET fed == Append(pipe, [epoch |-> m.epoch, broken |-> gap /\ ~m.key])
      out == Len(fed) > Delay
  IN  \E format \in IF m.key THEN Formats ELSE {mode} :
        /\ mode' = format
        /\ pipe' = IF out THEN Tail(fed) ELSE fed
        /\ frame' = IF out THEN OutputFrame(Head(fed), format) ELSE None
        /\ gap' = (gap /\ ~m.key)

\* A mutant of SkipPaused: the stream does not remember that it has skipped.
SkipForgotten == UNCHANGED waiting

\* Decoding is paused: this frame is skipped, and all that depend on it.
SkipPaused == waiting' = TRUE

\* handle_binary_message() with a video frame.
HandleVideo(m) ==
  /\ IF paused
     THEN SkipPaused /\ gap' = TRUE /\ UNCHANGED <<mode, pipe, frame>>
     ELSE IF waiting /\ ~m.key
     THEN gap' = TRUE /\ UNCHANGED <<waiting, mode, pipe, frame>>
     ELSE waiting' = FALSE /\ Ingest(m)
  /\ UNCHANGED <<startSent, statusVars>>

\* The end of the session for this view, whatever ended it.
End ==
  /\ videoSession' = "over"
  /\ videoConnected' = FALSE
  /\ displayOff' = FALSE

\* handle_text_message() and send_start_message().
HandleText(m) ==
  /\ startSent' = (startSent \/ m.kind = "media")
  /\ IF m.kind = "noMedia" THEN End ELSE UNCHANGED statusVars
  /\ UNCHANGED <<waiting, mode, pipe, frame, gap>>

\* on_read() with a message.
OnRead ==
  /\ videoSession = "live"
  /\ wire # <<>>
  /\ frame = None
  /\ LET m == Head(wire)
     IN  IF m.kind = "video" THEN HandleVideo(m) ELSE HandleText(m)
  /\ wire' = Tail(wire)
  /\ UNCHANGED <<serverKeyed, opened, cleared, shownVars, screen, epoch, since>>

\* on_frame of run_pikvm_video_worker(): it looks whether decoding is paused ...
OnFrame ==
  /\ frame # None
  /\ ~cleared
  /\ cleared' = ~paused
  /\ frame' = IF paused THEN None ELSE frame
  /\ UNCHANGED <<wire, serverKeyed, startSent, waiting, opened, mode, pipe, gap,
                 shownVars, statusVars, screen, epoch, since>>

\* ... and then store_pikvm_frame() publishes the frame.
StoreFrame ==
  /\ cleared
  /\ mailbox' = frame
  /\ seen' = FALSE
  /\ frame' = None
  /\ cleared' = FALSE
  /\ UNCHANGED <<wire, serverKeyed, startSent, waiting, opened, mode, pipe, gap,
                 paused, minimized, hosted, hostedHw, statusVars, screen, epoch, since>>

\* A read, a write, the parser or the decoder fails, or the other channel or the user ends
\* the session; the video thread is joined after its handler has returned.
SessionEnds ==
  /\ videoSession = "live"
  /\ frame = None
  /\ End
  /\ UNCHANGED <<streamVars, shownVars, screen, epoch, since>>

-----------------------------------------------------------------------------
\* LatestMailbox::latest(): there is one that the view has not had.
Fresh == mailbox # None /\ ~seen

\* latest_hardware_frame(): what the mailbox has of that kind, or else the one before.
LatestHardware == IF Hardware /\ Fresh /\ mailbox.hw THEN mailbox ELSE hostedHw

\* convert_hosted_frame(): a hardware frame has no image.
Convertible(f) == ~f.hw

\* latest_frame(), likewise.
LatestSoftware == IF Fresh /\ Convertible(mailbox) THEN mailbox ELSE hosted

\* The view is asked for a hardware frame first, and for a software frame only if it has
\* none; a frame that it has been showing counts.
Tick ==
  /\ IF videoSession = "over" \/ ~videoConnected \/ displayOff
     THEN screen' = None /\ UNCHANGED <<seen, hosted, hostedHw>>
     ELSE LET hw == LatestHardware
              sw == IF hw = None THEN LatestSoftware ELSE hosted
          IN  /\ hostedHw' = hw
              /\ hosted' = sw
              /\ seen' = (seen \/ (Fresh /\ (IF mailbox.hw THEN Hardware ELSE hw = None)))
              /\ screen' = IF hw # None THEN hw ELSE IF sw # None THEN sw ELSE screen
  /\ UNCHANGED <<mailbox, paused, minimized, streamVars, statusVars, epoch, since>>

\* on_minimized() and on_restored().
Minimize ==
  /\ ~minimized
  /\ minimized' = TRUE
  /\ paused' = TRUE
  /\ mailbox' = None
  /\ UNCHANGED <<seen, hosted, hostedHw, streamVars, statusVars, screen, epoch, since>>

\* A mutant of Resume: decoding goes on only if there is a session.
ResumeConnected == paused' = (paused /\ ~videoConnected)

Resume == paused' = FALSE

Restore ==
  /\ minimized
  /\ epoch < MaxEpochs
  /\ epoch' = epoch + 1
  /\ minimized' = FALSE
  /\ Resume
  /\ UNCHANGED <<mailbox, seen, hosted, hostedHw, streamVars, statusVars, screen, since>>

\* reset_for_reconnect().
ResetView ==
  /\ mailbox' = None
  /\ seen' = FALSE
  /\ hosted' = None
  /\ hostedHw' = None
  /\ paused' = FALSE

\* A new PikvmVideoStream with its decoder.
StartStream ==
  /\ wire' = <<>>
  /\ serverKeyed' = FALSE
  /\ startSent' = FALSE
  /\ waiting' = FALSE
  /\ opened' \in OpenDecoder
  /\ mode' = "none"
  /\ pipe' = <<>>
  /\ frame' = None
  /\ cleared' = FALSE
  /\ gap' = TRUE

\* The R key, once a tick has noticed the end of the session and shows the console.
Retry ==
  /\ videoSession = "over"
  /\ screen = None
  /\ ~minimized
  /\ epoch < MaxEpochs
  /\ epoch' = epoch + 1
  /\ since' = epoch + 1
  /\ ResetView
  /\ StartStream
  /\ videoSession' = "live"
  /\ UNCHANGED <<videoConnected, displayOff, minimized, screen>>

-----------------------------------------------------------------------------
VideoThread == OnRead \/ OnFrame \/ StoreFrame

PictureNext ==
  \/ \E kind \in {"media", "noMedia", "other"} : SendText(kind)
  \/ \E key \in BOOLEAN : SendVideo(key)
  \/ Connect
  \/ \E online \in BOOLEAN : DisplayStatus(online)
  \/ VideoThread
  \/ SessionEnds
  \/ Tick
  \/ Minimize
  \/ Restore
  \/ Retry

PictureSpec == PictureInit /\ [][PictureNext]_pictureVars

-----------------------------------------------------------------------------
Frames == [epoch : 0 .. MaxEpochs, hw : BOOLEAN]

PictureTypeOK ==
  /\ videoSession \in {"live", "over"}
  /\ {videoConnected, displayOff, serverKeyed, startSent, waiting, opened} \subseteq BOOLEAN
  /\ {cleared, seen, paused, minimized, gap} \subseteq BOOLEAN
  /\ wire \in Seq([kind : {"media", "noMedia", "other", "video"}, key : BOOLEAN,
                   epoch : 1 .. MaxEpochs])
  /\ Len(wire) <= MaxWire
  /\ mode \in {"none", "hardware", "software"}
  /\ pipe \in Seq([epoch : 1 .. MaxEpochs, broken : BOOLEAN])
  /\ Len(pipe) <= Delay
  /\ {frame, mailbox, hosted, hostedHw, screen} \subseteq Frames
  /\ epoch \in 1 .. MaxEpochs
  /\ since \in 1 .. epoch

\* The decoder never gets a frame that refers to one it did not get, in whatever order the
\* window is minimized and restored between the messages.
DecoderUnbroken == \A i \in DOMAIN pipe : ~pipe[i].broken

\* What is on the screen of a session, or about to be, was sent in this session.
OnlyThisSession ==
  /\ screen # None => screen.epoch >= since
  /\ mailbox # None => mailbox.epoch >= since

\* No picture is made of frames that are missing or that an earlier session has left
\* (handle_binary_message, reset_for_reconnect).
PictureIsSound == DecoderUnbroken /\ OnlyThisSession

\* A user who comes back to the picture, and stays, gets to see one that was sent after
\* that; unless the decoder has turned from hardware to software frames: the view keeps
\* showing the last hardware frame then.
Watching == videoSession = "live" /\ videoConnected /\ ~displayOff /\ ~minimized
Stuck == hostedHw # None /\ mode = "software"

ScreenCatchesUp ==
  \A e \in 1 .. MaxEpochs :
    (epoch = e /\ Watching) ~> (epoch # e \/ ~Watching \/ screen.epoch = e \/ Stuck)

=============================================================================
