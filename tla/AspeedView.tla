----------------------------- MODULE AspeedView -----------------------------
(***************************************************************************)
(* The video of the software backends (AspeedView with MegaracView or      *)
(* AtenView): the BMC's differential stream through the network thread,    *)
(* FrameQueue and the decoder to the surface.                              *)
(*                                                                         *)
(* The picture of the host is a function from Regions to versions.  A      *)
(* frame says what the picture was and what it is now; decoding a delta on *)
(* anything else than the picture it was made for leaves garbage in the    *)
(* regions it changes.  The network thread publishes while the GUI thread  *)
(* is between two steps of a tick.                                         *)
(***************************************************************************)
EXTENDS FrameQueue, ViewerSurface, FiniteSets, SequencesExt

CONSTANTS
  Backend,     \* "megarac" or "aten"
  MaxVersion,  \* bound of the model: changes of the host's picture
  Garbage,     \* what a delta makes of a region it was not made for
  White        \* what the decoder seeds a new framebuffer with

ASSUME AspeedAssumption ==
  /\ Backend \in {"megarac", "aten"}
  /\ MaxVersion \in Nat

VARIABLES
  host,       \* the host's picture
  version,    \* how often it has changed
  refresh,    \* a full frame is asked for and has not been sent yet
  online,     \* display_online_
  previous,   \* ATEN: previous_compressed_, the last frame published; <<>> for none
  minimized,  \* the window is minimized
  tick,       \* frameTick is between drain() and overflowed()
  dirty,      \* dirty_rect and dirty_full of that tick
  picture,    \* the decoder's framebuffer
  ended,      \* the ended console is up, the network thread gone
  skipped     \* the chain is broken by a frame that could not be decoded

streamVars == <<host, version, refresh, online, previous, skipped>>
hostedVars == <<minimized, tick, dirty, picture, ended>>
aspeedVars == <<streamVars, hostedVars, queueVars, surfaceVars>>

Versions == 0 .. MaxVersion
Pictures == [Regions -> Versions \cup {Garbage, White}]
Blank == [r \in Regions |-> White]

\* A frame is "full", a "delta", or one the decoder refuses, "bad".
Frame(kind, was, now) == [kind |-> kind, was |-> was, now |-> now]
Changed(frame) ==
  CASE frame.kind = "full"  -> Regions
    [] frame.kind = "delta" -> {r \in Regions : frame.was[r] # frame.now[r]}
    [] frame.kind = "bad"   -> {}

\* AspeedDecoder::decode, on the picture p.
Decode(p, frame) ==
  [r \in Regions |->
     IF r \notin Changed(frame) THEN p[r]
     ELSE IF frame.kind = "full" \/ p[r] = frame.was[r] THEN frame.now[r]
     ELSE Garbage]

\* All frames of a queue, in arrival order.
DecodeAll(p, frames) ==
  LET after[i \in 0 .. Len(frames)] ==
        IF i = 0 THEN p ELSE Decode(after[i - 1], frames[i])
  IN  after[Len(frames)]

AspeedInit ==
  /\ host = [r \in Regions |-> 0]
  /\ version = 0
  /\ refresh = TRUE
  /\ online = TRUE
  /\ previous = <<>>
  /\ skipped = FALSE
  /\ minimized = FALSE
  /\ tick = FALSE
  /\ dirty = {}
  /\ picture = Blank
  /\ ended = FALSE
  /\ QueueInit
  /\ SurfaceInit

-----------------------------------------------------------------------------
\* handle_video_packet and handle_ast_rect with a frame to publish.  ATEN drops one
\* that is byte for byte the one before it.
ReceiveFrame(frame) ==
  /\ online' = TRUE
  /\ IF Backend = "aten" /\ previous = <<frame>>
     THEN UNCHANGED <<previous, queueVars>>
     ELSE /\ Publish(frame)
          /\ previous' = IF Backend = "aten" THEN <<frame>> ELSE previous

\* The host's screen changes and the BMC sends what is new.
SendDelta ==
  /\ ~ended
  /\ version < MaxVersion
  /\ version' = version + 1
  /\ \E changed \in SUBSET Regions :
       /\ changed # {}
       /\ host' = [r \in Regions |-> IF r \in changed THEN version + 1 ELSE host[r]]
  /\ ReceiveFrame(Frame("delta", host, host'))
  /\ UNCHANGED <<refresh, skipped, hostedVars, surfaceVars>>

\* The BMC answers a request for a full frame.
SendFull ==
  /\ ~ended
  /\ refresh
  /\ refresh' = FALSE
  /\ skipped' = FALSE
  /\ ReceiveFrame(Frame("full", host, host))
  /\ UNCHANGED <<host, version, hostedVars, surfaceVars>>

\* A change of the host's picture is lost: MegaRAC skips the frame as unsupported (RC4,
\* an unknown first block), or it is published and the decoder refuses it.  Nothing asks
\* for another one.
SendUndecodable ==
  /\ ~ended
  /\ version < MaxVersion
  /\ version' = version + 1
  /\ host' = [r \in Regions |-> version + 1]
  /\ skipped' = TRUE
  /\ \/ Backend = "megarac" /\ UNCHANGED <<online, previous, queueVars>>
     \/ ReceiveFrame(Frame("bad", host, host'))
  /\ UNCHANGED <<refresh, hostedVars, surfaceVars>>

\* The BMC says that the screen is blank.  ATEN asks for a full frame; MegaRAC does,
\* unless it did within the last kBlankRecoveryInterval.
SendBlank ==
  /\ ~ended
  /\ online' = FALSE
  /\ \/ refresh' = TRUE
     \/ Backend = "megarac" /\ UNCHANGED refresh
  /\ previous' = <<>>
  /\ UNCHANGED <<host, version, skipped, hostedVars, queueVars, surfaceVars>>

\* The network thread is done: frameTick's poll notices, and puts up the ended console.
VideoEnds ==
  /\ ~ended
  /\ ~tick
  /\ ended' = TRUE
  /\ ShowConsole
  /\ UNCHANGED <<streamVars, minimized, tick, dirty, picture, queueVars>>

-----------------------------------------------------------------------------
\* frameTick with a console to show: the frames stay in the queue.
TickConsole ==
  /\ ~tick
  /\ ended \/ ~online
  /\ ShowConsole
  /\ UNCHANGED <<streamVars, hostedVars, queueVars>>

\* latest_frame(): every queued frame is decoded.  The first one that a new decoder can
\* decode is uploaded whole.
TickDrain ==
  /\ ~tick
  /\ ~ended /\ online
  /\ Drain
  /\ picture' = DecodeAll(picture, queue)
  /\ dirty' = IF picture = Blank /\ \E frame \in ToSet(queue) : frame.kind # "bad"
              THEN Regions
              ELSE UNION {Changed(frame) : frame \in ToSet(queue)}
  /\ tick' = TRUE
  /\ UNCHANGED <<streamVars, minimized, ended, surfaceVars>>

\* The rest of latest_frame(), and show_frame() if there is something to draw.
TickShow ==
  /\ tick
  /\ tick' = FALSE
  /\ dirty' = {}
  /\ TakeOverflowed
  /\ refresh' = (refresh \/ overflowed)
  /\ IF dirty # {}
     THEN ShowFrame(IF overflowed THEN Regions ELSE dirty)
     ELSE UNCHANGED surfaceVars
  /\ UNCHANGED <<host, version, online, previous, skipped, minimized, picture, ended>>

\* The renderer draws when it gets to it.
Render ==
  /\ ~tick
  /\ RenderConsole \/ RenderFrame(picture)
  /\ UNCHANGED <<streamVars, hostedVars, queueVars>>

LoseDevice ==
  /\ ~tick
  /\ ReleaseResources
  /\ UNCHANGED <<streamVars, hostedVars, queueVars>>

Minimize ==
  /\ ~tick
  /\ ~minimized
  /\ minimized' = TRUE
  /\ ClearFrames
  /\ UNCHANGED <<streamVars, tick, dirty, picture, ended, surfaceVars>>

\* A mutant of Restore: the picture is taken to be good still.
RestoreOnly ==
  /\ ~tick
  /\ minimized
  /\ minimized' = FALSE
  /\ IF Backend = "megarac" THEN ClearFrames ELSE UNCHANGED queueVars
  /\ UNCHANGED <<streamVars, tick, dirty, picture, ended, surfaceVars>>

\* on_restored(): MegaRAC drops what has come in the meantime.
Restore ==
  /\ ~tick
  /\ minimized
  /\ minimized' = FALSE
  /\ IF Backend = "megarac" THEN ClearFrames ELSE UNCHANGED queueVars
  /\ refresh' = TRUE
  /\ UNCHANGED <<host, version, online, previous, skipped, tick, dirty, picture, ended,
                 surfaceVars>>

\* do_retry(): reset_for_reconnect(), and a new session with a new stream.  A MegaRAC
\* session asks for a full frame when it starts; ATEN's on_reset() leaves the flag alone,
\* and its first request is for what has changed.
Reconnect ==
  /\ ~tick
  /\ ended
  /\ ended' = FALSE
  /\ ClearFrames
  /\ picture' = Blank
  /\ refresh' = (refresh \/ Backend = "megarac")
  /\ online' = TRUE
  /\ previous' = <<>>
  /\ skipped' = FALSE
  /\ UNCHANGED <<host, version, minimized, tick, dirty, surfaceVars>>

-----------------------------------------------------------------------------
StreamNext == SendDelta \/ SendFull \/ SendUndecodable \/ SendBlank \/ VideoEnds

Tick == TickConsole \/ TickDrain \/ TickShow

UserNext == Minimize \/ Restore \/ Reconnect

AspeedNext == StreamNext \/ Tick \/ Render \/ LoseDevice \/ UserNext

AspeedSpec == AspeedInit /\ [][AspeedNext]_aspeedVars

-----------------------------------------------------------------------------
AspeedTypeOK ==
  /\ host \in [Regions -> Versions]
  /\ version \in Versions
  /\ picture \in Pictures
  /\ Len(queue) <= MaxQueued
  /\ dirty \subseteq Regions
  /\ pending \subseteq Regions
  /\ dropped \subseteq Regions
  /\ texture \in [Regions -> Versions \cup {Garbage, White, Console}]
  /\ textureOf \in {"none", "other", "frame"}
  /\ {refresh, online, minimized, tick, ended, skipped, overflowed, consoleActive,
      consoleDirty} \subseteq BOOLEAN

\* While the window is visible, the view that decodes what is queued has the picture
\* of the host, or a full frame will come: after frames were dropped because the queue
\* was full, or because the window was minimized, one has been asked for.  Only a
\* frame that cannot be decoded at all breaks the chain without a request.
InSyncOrRefreshing ==
  ~minimized /\ ~ended =>
    \/ DecodeAll(picture, queue) = host
    \/ refresh
    \/ overflowed
    \/ skipped

\* What is on the screen when a frame has been rendered is the decoder's picture and not a
\* patchwork of it and of what was there before, in every region but those that a console
\* was painted over or whose upload it cancelled, until they are next uploaded, and after
\* a lost device until the next frame.
ScreenShowsPicture ==
  ~consoleActive /\ pending = {} /\ ~tick =>
    \A r \in Regions \ dropped : texture[r] = picture[r]

=============================================================================
