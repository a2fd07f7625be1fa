--------------------------------- MODULE Wire ---------------------------------
(***************************************************************************)
(* What goes over a session's connection, in both directions and for one   *)
(* part of it at a time: the bytes of a MegaRAC or an ATEN BMC that the    *)
(* viewer takes apart, the reports of its mouse and keyboard, or the       *)
(* feedback about its video.                                               *)
(***************************************************************************)
EXTENDS MegaracWire, AtenWire, HostInput, VideoFeedback

VARIABLE link    \* what this behaviour is about

wireVars == <<link, megaracWireVars, atenWireVars, hostInputVars, feedbackVars>>

\* One of the offers, for the behaviours that are not about ATEN.
SomeOffer == CHOOSE some \in Offers : TRUE

WireInit ==
  /\ MegaracWireInit
  /\ FeedbackInit
  /\ \/ /\ link \in {"megarac", "feedback"}
        /\ AtenWireInit(SomeOffer)
        /\ HostInputInit("none", "mouse")
     \/ /\ link = "aten"
        /\ \E some \in Offers : AtenWireInit(some)
        /\ HostInputInit("none", "mouse")
     \/ /\ link = "input"
        /\ AtenWireInit(SomeOffer)
        /\ \E some \in Protocols, with \in {"mouse", "keyboard"} : HostInputInit(some, with)

WireNext ==
  /\ link' = link
  /\ \/ /\ link = "megarac"
        /\ MegaracWireNext
        /\ UNCHANGED <<atenWireVars, hostInputVars, feedbackVars>>
     \/ /\ link = "aten"
        /\ AtenWireNext
        /\ UNCHANGED <<megaracWireVars, hostInputVars, feedbackVars>>
     \/ /\ link = "input"
        /\ HostInputNext
        /\ UNCHANGED <<megaracWireVars, atenWireVars, feedbackVars>>
     \/ /\ link = "feedback"
        /\ FeedbackNext
        /\ UNCHANGED <<megaracWireVars, atenWireVars, hostInputVars>>

WireSpec == WireInit /\ [][WireNext]_wireVars

\* Drawing the host's mouse pointer never reads beyond its pattern or beyond the frame
\* under it, whichever pattern and message it was made from and whatever the size of the
\* frame that is on the screen by then (hardware_cursor.cpp, build_cursor_overlay).
CursorReadsInside ==
  \A w, h \in 0 .. PatternSize + 1 :
    LET frame == [width |-> w, height |-> h]
    IN  ReadsInside(mCursor, frame) /\ ReadsInside(atenCursor, frame)

\* Both receive paths give their session what the BMC sent, in its order and without a
\* byte missing, however it was cut on the way (MegaracPacketBuffer and
\* MegaracVideoAssembler, RfbHandshakeStream and AtenRfbMessageBuffer), and keep nothing
\* back: when all has arrived and the viewer reads on, all that was complete has been
\* handled (the loops of on_read() and do_parse_receive_buffer()).  And the session ends by
\* no exception of its own making: a MegaRAC BMC is never refused, and an ATEN one for what
\* it offers, or for the message that is next in its stream and that the viewer does not
\* take (client_protocol_version() to read_security_result(), AtenRfbMessageBuffer::next(),
\* handle_framebuffer_update() and read_ast_payload_header()).
StreamIsWhole ==
  /\ MegaracFramesInOrder
  /\ AtenMessagesInOrder
  /\ MegaracNothingKept
  /\ AtenNothingKept
  /\ MegaracNeverRefused
  /\ AtenRefusalIsDue

\* The host holds the buttons and the keys that the user does, and never one that the user
\* has let go of while there was a session (KvmInputController, and the encoders of
\* encode_pointer and encode_keyboard).
HostHoldsWhatUserDoes ==
  /\ NoPhantomButton
  /\ ButtonsGetThrough
  /\ NoPhantomKey
  /\ KeysGetThrough

=============================================================================
