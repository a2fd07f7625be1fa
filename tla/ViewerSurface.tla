---------------------------- MODULE ViewerSurface ----------------------------
(***************************************************************************)
(* ViewerSurface (gui/viewer/viewer_surface.cpp), the software video and   *)
(* console path: what the GPU texture holds, and which part of it the next *)
(* render has to upload.                                                   *)
(*                                                                         *)
(* A picture is a function on Regions.  image_ is a view of the decoder's  *)
(* own framebuffer, so an upload takes the picture as it is when the       *)
(* render runs; the module that uses this one says what it is.             *)
(***************************************************************************)
EXTENDS Naturals

CONSTANTS
  Regions,    \* the parts of a frame that a delta may change
  Console     \* what the texture holds of the console

VARIABLES
  consoleActive,  \* console_active_
  consoleDirty,   \* console_dirty_
  pending,        \* the regions of image_dirty_rect_; {} when image_dirty_ is false
  texture,        \* texture_
  textureOf,      \* texture_size_: that of a video "frame", any "other", or "none"
  dropped         \* history: the regions a console kept from being uploaded or was
                  \* painted over, or a lost device has taken the texture of

surfaceVars == <<consoleActive, consoleDirty, pending, texture, textureOf, dropped>>

SurfaceInit ==
  /\ consoleActive = TRUE
  /\ consoleDirty = FALSE
  /\ pending = {}
  /\ texture = [r \in Regions |-> Console]
  /\ textureOf = "none"
  /\ dropped = {}

\* show_console() with a screen or a log tail that has changed.  An upload that is still
\* pending is forgotten.
ShowConsole ==
  /\ consoleActive' = TRUE
  /\ consoleDirty' = TRUE
  /\ pending' = {}
  /\ dropped' = dropped \cup pending
  /\ UNCHANGED <<texture, textureOf>>

\* A mutant of ShowFrame: the dirty rectangle is the one of the last call.
ShowFrameLast(dirty) ==
  /\ consoleActive' = FALSE
  /\ pending' = dirty
  /\ UNCHANGED <<consoleDirty, texture, textureOf, dropped>>

\* show_frame(): a pending upload and this one become one.
ShowFrame(dirty) ==
  /\ consoleActive' = FALSE
  /\ pending' = pending \cup dirty
  /\ UNCHANGED <<consoleDirty, texture, textureOf, dropped>>

\* render_image(): the console is rastered at the size of the window, which may have
\* changed and may be that of a video frame, and uploaded whole ...
RenderConsole ==
  /\ consoleActive
  /\ \E size \in {"frame", "other"} :
       /\ consoleDirty \/ size # textureOf
       /\ textureOf' = size
       /\ dropped' = IF size = "frame" THEN Regions ELSE dropped
  /\ consoleDirty' = FALSE
  /\ texture' = [r \in Regions |-> Console]
  /\ UNCHANGED <<consoleActive, pending>>

\* ... a frame only where it is dirty, unless the texture has another size.
RenderFrame(picture) ==
  /\ ~consoleActive
  /\ pending # {}
  /\ LET uploaded == IF textureOf = "frame" THEN pending ELSE Regions
     IN  /\ texture' = [r \in Regions |->
                           IF r \in uploaded THEN picture[r] ELSE texture[r]]
         /\ dropped' = dropped \ uploaded
  /\ textureOf' = "frame"
  /\ pending' = {}
  /\ UNCHANGED <<consoleActive, consoleDirty>>

\* releaseResources() and the next initialize(): a device is lost, and the texture with
\* it.  Nothing asks for an upload, but the next one creates the texture.
ReleaseResources ==
  /\ textureOf # "none"
  /\ textureOf' = "none"
  /\ texture' = [r \in Regions |-> Console]
  /\ dropped' = Regions
  /\ UNCHANGED <<consoleActive, consoleDirty, pending>>

=============================================================================
