--------------------------- MODULE MegaracSession ---------------------------
(***************************************************************************)
(* KvmAsyncSession (megarac_view_session.cpp): one KVM session on one      *)
(* websocket.  Its handlers run one at a time on a strand, in the          *)
(* io_context that the network thread runs until close_socket() stops it:  *)
(* the operations that other threads post (posted), the completion of the  *)
(* read and of the write that are under way, and two timers.               *)
(*                                                                         *)
(* Packets are told apart by who asked for them: "control" is whatever the *)
(* session sends by itself in answer to the BMC, "hid" is input from the   *)
(* viewer, numbered, "power" a power action and "stop" the                 *)
(* CMD_STOP_SESSION_IMMEDIATE of request_stop().                           *)
(***************************************************************************)
EXTENDS Naturals, Sequences, SequencesExt

CONSTANTS
  MaxInput,    \* bound of the model: input packets the viewer sends
  MaxPower,    \* bound of the model: power actions the user starts
  MaxQueue,    \* bound of the model: the BMC is quiet while outgoing is longer
  HasWebToken  \* config_.session is not empty

ASSUME SessionAssumption ==
  /\ MaxInput \in Nat
  /\ MaxPower \in Nat
  /\ MaxQueue \in Nat
  /\ HasWebToken \in BOOLEAN

VARIABLES
  started,      \* the network thread has called start() and is in io.run()
  posted,       \* the operations on the strand, in the order they were posted
  inputs,       \* input packets posted so far
  powers,       \* power actions posted so far
  stopAsked,    \* request_stop() was called
  outgoing,     \* outgoing_packets_
  writing,      \* writing_
  reading,      \* an async_read is under way
  stopping,     \* stopping_
  closed,       \* closed_
  graceTimer,   \* force_close_timer_ is armed
  pollTimer,    \* power_poll_timer_ is armed
  validationSent, fullScreenRequested,
  validated,    \* the BMC has accepted the validation packet
  blank,        \* blank_screen_packets_ > 0
  feedback,     \* video_feedback_started_
  reported,     \* power actions confirmed to the user with publish_outcome
  wire          \* what the BMC has received, without the control packets

protocolVars == <<validationSent, fullScreenRequested, validated, blank, feedback>>
viewerVars == <<inputs, powers, stopAsked, started>>
kvmVars == <<posted, outgoing, writing, reading, stopping, closed, graceTimer,
          pollTimer, reported, wire, viewerVars, protocolVars>>

Packet(kind, n) == [kind |-> kind, n |-> n]
Control == Packet("control", 0)
StopPacket == Packet("stop", 0)
Hid(n) == Packet("hid", n)
Power(n) == Packet("power", n)
Start == Packet("start", 0)   \* posted only: start_read()

Packets == {Control, StopPacket} \cup {Hid(n) : n \in 1 .. MaxInput}
                                 \cup {Power(n) : n \in 1 .. MaxPower}

\* InputQueue::install has flushed what was typed before.
KvmInit ==
  /\ inputs \in 0 .. MaxInput
  /\ posted = [i \in 1 .. inputs |-> Hid(i)]
  /\ started = FALSE
  /\ powers = 0
  /\ stopAsked = FALSE
  /\ outgoing = <<>>
  /\ writing = FALSE
  /\ reading = FALSE
  /\ stopping = FALSE
  /\ closed = FALSE
  /\ graceTimer = FALSE
  /\ pollTimer = FALSE
  /\ validationSent = FALSE
  /\ fullScreenRequested = FALSE
  /\ validated = FALSE
  /\ blank = FALSE
  /\ feedback = FALSE
  /\ reported = 0
  /\ wire = <<>>

-----------------------------------------------------------------------------
\* start_write() with the queue out: the write of the front packet is under way,
\* if it was not and there is one.
StartWrite(out) ==
  /\ outgoing' = out
  /\ writing' = (writing \/ out # <<>>)

\* queue_packet_from_strand, once per packet.
QueuePackets(packets) ==
  IF stopping \/ packets = <<>>
  THEN UNCHANGED <<outgoing, writing>>
  ELSE StartWrite(outgoing \o packets)

\* What an erase behind the packet that is being written leaves of the queue.
ActiveWrite == IF writing /\ outgoing # <<>> THEN <<Head(outgoing)>> ELSE <<>>

\* close_socket().  It stops the io_context: no handler of this session runs again.
CloseKvmSocket ==
  /\ closed' = TRUE
  /\ graceTimer' = FALSE
  /\ pollTimer' = FALSE
  /\ outgoing' = ActiveWrite
  /\ UNCHANGED <<writing, stopping>>

-----------------------------------------------------------------------------
\* The sinks of InputQueue and PowerChannel, and the force_close callback: the GUI
\* thread posts and does not wait.  close_socket() and the end of the session take
\* the sinks away.
PostInput ==
  /\ ~closed
  /\ inputs < MaxInput
  /\ inputs' = inputs + 1
  /\ posted' = Append(posted, Hid(inputs + 1))
  /\ UNCHANGED <<outgoing, writing, reading, stopping, closed, graceTimer, pollTimer,
                 reported, wire, powers, stopAsked, started, protocolVars>>

PostPower ==
  /\ ~closed
  /\ powers < MaxPower
  /\ powers' = powers + 1
  /\ posted' = Append(posted, Power(powers + 1))
  /\ UNCHANGED <<outgoing, writing, reading, stopping, closed, graceTimer, pollTimer,
                 reported, wire, inputs, stopAsked, started, protocolVars>>

\* request_stop(), by the one stop() that the network thread's lifetime sees.
PostStop ==
  /\ ~closed
  /\ ~stopAsked
  /\ stopAsked' = TRUE
  /\ posted' = Append(posted, StopPacket)
  /\ UNCHANGED <<outgoing, writing, reading, stopping, closed, graceTimer, pollTimer,
                 reported, wire, inputs, powers, started, protocolVars>>

\* start() and io.run(), when the sinks and the force_close callback are in place.
StartRunning ==
  /\ ~started
  /\ started' = TRUE
  /\ posted' = Append(posted, Start)
  /\ UNCHANGED <<outgoing, writing, reading, stopping, closed, graceTimer, pollTimer,
                 reported, wire, inputs, powers, stopAsked, protocolVars>>

\* The strand takes the next posted operation.
RunPosted(kind) ==
  /\ started
  /\ ~closed
  /\ posted # <<>>
  /\ Head(posted).kind = kind
  /\ posted' = Tail(posted)
  /\ UNCHANGED <<closed, pollTimer, wire, viewerVars, protocolVars>>

\* start_read()
RunStart ==
  /\ RunPosted("start")
  /\ reading' = ~stopping
  /\ UNCHANGED <<outgoing, writing, stopping, graceTimer, reported>>

\* send_packet()
RunInput ==
  /\ RunPosted("hid")
  /\ QueuePackets(<<Head(posted)>>)
  /\ UNCHANGED <<reading, stopping, graceTimer, reported>>

\* send_power_command(): queued, and confirmed to the user at once ("sent").
RunPower ==
  /\ RunPosted("power")
  /\ QueuePackets(<<Head(posted)>>)
  /\ reported' = IF stopping THEN reported ELSE Head(posted).n
  /\ UNCHANGED <<reading, stopping, graceTimer>>

\* A mutant of RunStop: the stop packet waits behind everything that is queued.
StopWaitsItsTurn ==
  /\ RunPosted("stop")
  /\ stopping' = TRUE
  /\ StartWrite(Append(outgoing, StopPacket))
  /\ graceTimer' = TRUE
  /\ UNCHANGED <<reading, reported>>

\* Another one: no grace timer.
StopWithoutTimer ==
  /\ RunPosted("stop")
  /\ stopping' = TRUE
  /\ StartWrite(Append(ActiveWrite, StopPacket))
  /\ UNCHANGED <<reading, graceTimer, reported>>

\* request_stop(): everything that is not being written is dropped for the stop
\* packet, and the grace timer is armed.
RunStop ==
  /\ RunPosted("stop")
  /\ stopping' = TRUE
  /\ StartWrite(Append(ActiveWrite, StopPacket))
  /\ graceTimer' = TRUE
  /\ UNCHANGED <<reading, reported>>

-----------------------------------------------------------------------------
\* on_read() with a packet of the BMC, and start_read() after it: handle_packet
\* answers with a number of control packets, and, once a frame has started it, with
\* video feedback when 100 ms have passed since the last one.
Receive(answers, frames) ==
  /\ reading
  /\ ~closed
  /\ Len(outgoing) <= MaxQueue
  /\ reading' = ~stopping
  /\ feedback' = frames
  /\ \E due \in IF frames THEN 0 .. 1 ELSE {0} :
       QueuePackets([i \in 1 .. answers + due |-> Control])
  /\ UNCHANGED <<posted, stopping, closed, graceTimer, reported, wire, viewerVars>>

\* CMD_CONNECTION_ALLOWED, the first one.
ConnectionAllowed ==
  /\ Receive(IF validationSent THEN 0 ELSE 1, feedback)
  /\ validationSent' = TRUE
  /\ UNCHANGED <<pollTimer, fullScreenRequested, validated, blank>>

\* A positive response to the validation packet starts the power poll.
Validated ==
  /\ Receive(1, feedback)
  /\ validated' = TRUE
  /\ pollTimer' = TRUE
  /\ UNCHANGED <<validationSent, fullScreenRequested, blank>>

\* CMD_KEEP_ALIVE, CMD_SET_NEXT_MASTER and CMD_POWER_CTRL_RESP have one answer, a
\* sharing request has two, CMD_MEDIA_LICENSE_STATUS two or three; CMD_USB_MOUSE_MODE,
\* the cursor packets and part of a frame have none.
Answered ==
  /\ \E n \in {0, 1, 2} \cup (IF HasWebToken THEN {3} ELSE {}) : Receive(n, feedback)
  /\ UNCHANGED <<pollTimer, validationSent, fullScreenRequested, validated, blank>>

ActiveClients ==
  /\ Receive(IF fullScreenRequested THEN 0 ELSE 1, feedback)
  /\ fullScreenRequested' = TRUE
  /\ UNCHANGED <<pollTimer, validationSent, validated, blank>>

\* CMD_PAINT_BLANK_SCREEN: a power query and a full screen request, unless the last
\* two were sent within the recovery interval.
BlankScreen ==
  /\ Receive(0, feedback) \/ Receive(2, feedback)
  /\ blank' = TRUE
  /\ UNCHANGED <<pollTimer, validationSent, fullScreenRequested, validated>>

\* CMD_POWER_STATUS says "on".
PowerIsOn ==
  /\ Receive(IF blank THEN 1 ELSE 0, feedback)
  /\ UNCHANGED <<pollTimer, validationSent, fullScreenRequested, validated, blank>>

\* A complete frame; an unsupported one leaves blank_screen_packets_ alone.
VideoFrame ==
  /\ Receive(0, TRUE)
  /\ blank' \in {FALSE, blank}
  /\ UNCHANGED <<pollTimer, validationSent, fullScreenRequested, validated>>

\* Whatever ends the session from the BMC's side: a refusal, "session unregistered",
\* CMD_MAX_SESSION_CLOSE, a malformed packet, the end of the stream, a timeout.
ReadEnds ==
  /\ reading
  /\ ~closed
  /\ CloseKvmSocket
  /\ reading' = FALSE
  /\ UNCHANGED <<posted, reported, wire, viewerVars, protocolVars>>

-----------------------------------------------------------------------------
\* What the BMC gets to see of a packet.
Delivered(packet) == IF packet = Control THEN <<>> ELSE <<packet>>

\* A mutant of Written: start_write() is not called again.
WrittenThenIdle ==
  /\ writing
  /\ ~closed
  /\ wire' = wire \o Delivered(Head(outgoing))
  /\ IF stopping /\ Tail(outgoing) = <<>>
     THEN /\ closed' = TRUE
          /\ graceTimer' = FALSE
          /\ pollTimer' = FALSE
     ELSE UNCHANGED <<closed, graceTimer, pollTimer>>
  /\ outgoing' = Tail(outgoing)
  /\ writing' = FALSE
  /\ UNCHANGED <<posted, reading, stopping, reported, viewerVars, protocolVars>>

\* on_write(): the next packet, or the end when the stop packet was the last.
Written ==
  /\ writing
  /\ ~closed
  /\ wire' = wire \o Delivered(Head(outgoing))
  /\ IF stopping /\ Tail(outgoing) = <<>>
     THEN /\ closed' = TRUE
          /\ graceTimer' = FALSE
          /\ pollTimer' = FALSE
     ELSE UNCHANGED <<closed, graceTimer, pollTimer>>
  /\ outgoing' = Tail(outgoing)
  /\ writing' = (Tail(outgoing) # <<>>)
  /\ UNCHANGED <<posted, reading, stopping, reported, viewerVars, protocolVars>>

WriteFails ==
  /\ writing
  /\ ~closed
  /\ CloseKvmSocket
  /\ UNCHANGED <<posted, reading, reported, wire, viewerVars, protocolVars>>

-----------------------------------------------------------------------------
\* The five second power poll asks and arms itself again, until the session stops.
PowerPoll ==
  /\ pollTimer
  /\ ~closed
  /\ Len(outgoing) <= MaxQueue
  /\ QueuePackets(<<Control>>)
  /\ pollTimer' = ~stopping
  /\ UNCHANGED <<posted, reading, stopping, closed, graceTimer, reported, wire,
                 viewerVars, protocolVars>>

\* kMegaracStopGrace after the stop request.
GraceExpires ==
  /\ graceTimer
  /\ ~closed
  /\ CloseKvmSocket
  /\ UNCHANGED <<posted, reading, reported, wire, viewerVars, protocolVars>>

-----------------------------------------------------------------------------
ViewerNext == PostInput \/ PostPower \/ PostStop

Strand == StartRunning \/ RunStart \/ RunInput \/ RunPower \/ RunStop

KvmBmcNext ==
  \/ ConnectionAllowed \/ Validated \/ Answered \/ ActiveClients
  \/ BlankScreen \/ PowerIsOn \/ VideoFrame
  \/ ReadEnds
  \/ Written \/ WriteFails

\* io.run() has returned.
Returned ==
  /\ closed
  /\ UNCHANGED kvmVars

KvmNext == ViewerNext \/ Strand \/ KvmBmcNext \/ PowerPoll \/ GraceExpires \/ Returned

KvmSpec == KvmInit /\ [][KvmNext]_kvmVars

-----------------------------------------------------------------------------
KvmTypeOK ==
  /\ posted \in Seq(Packets \cup {Start})
  /\ inputs \in 0 .. MaxInput
  /\ powers \in 0 .. MaxPower
  /\ reported \in 0 .. MaxPower
  /\ outgoing \in Seq(Packets)
  /\ wire \in Seq(Packets)
  /\ {started, stopAsked, writing, reading, stopping, closed, graceTimer, pollTimer,
      validationSent, fullScreenRequested, validated, blank, feedback} \subseteq BOOLEAN

\* While the session is open there is a write under way exactly when there is
\* something to write: no packet waits for a start_write() that never comes, and a
\* completion always finds the packet it completes.
NoPacketStranded == ~closed => (writing <=> outgoing # <<>>)

\* From request_stop() on, at most the packet that was on its way goes before the stop
\* packet, and nothing after it, however much was queued.
StopOvertakesQueue ==
  stopping /\ ~closed =>
    \/ outgoing = <<StopPacket>>
    \/ /\ Len(outgoing) = 2
       /\ outgoing[2] = StopPacket

\* The packets of a kind in a sequence are the numbers behind lo up to hi, each once and
\* in order.
InOrder(kind, s, lo, hi) ==
  /\ lo <= hi
  /\ \A i \in 1 .. Len(s) : s[i].kind = kind => s[i].n \in lo + 1 .. hi
  /\ \A i, j \in 1 .. Len(s) :
       i < j /\ s[i].kind = kind /\ s[j].kind = kind => s[i].n < s[j].n
  /\ \A n \in lo + 1 .. hi : \E i \in 1 .. Len(s) : s[i] = Packet(kind, n)

\* The BMC receives the input packets in the order they were typed, without a gap.
InputInOrder == \E n \in 0 .. inputs : InOrder("hid", wire, 0, n)

\* A power action that the user was told is "sent" has been sent, or will be unless the
\* session is stopped or lost first.
ReportedPowerIsQueued ==
  \A n \in 1 .. reported :
    \/ Power(n) \in ToSet(wire) \cup ToSet(outgoing)
    \/ stopping
    \/ closed

\* So whatever a session has accepted is written, in order, and the user is told of nothing
\* else (start_write() and on_write(), send_packet(), send_power_command()).
AcceptedIsSent == NoPacketStranded /\ InputInOrder /\ ReportedPowerIsQueued

\* request_stop() ends the session even if the BMC reads nothing any more.
StopEndsSession == stopAsked ~> closed

=============================================================================
