--------------------------- MODULE MercuryChannel ---------------------------
(***************************************************************************)
(* Mercury implements FrameChannel.  The channel is open while the session *)
(* holds the keys of the connection its socket is on, and lost from the    *)
(* first receive that was cut short inside a frame or got a frame larger   *)
(* than its buffer; what mercury_recv returns after that is not promised   *)
(* to be anything the access point sent.                                   *)
(***************************************************************************)
EXTENDS Mercury

ChannelState ==
  IF sock = 0 \/ keyed # sock THEN "closed"
  ELSE IF faults \cap {"short", "over"} = {} THEN "open" ELSE "lost"

IsOpen == ChannelState = "open"

Channel == INSTANCE FrameChannel WITH
  Frame   <- Header,
  Nothing <- NoFrame,
  state   <- ChannelState,
  sent    <- IF IsOpen
             THEN [k \in 1 .. Len(frames) |->
                     [cmd |-> frames[k].cmd, len |-> frames[k].len]]
             ELSE <<>>,
  got     <- IF IsOpen THEN recvNonce ELSE 0,
  last    <- IF IsOpen THEN rx ELSE NoFrame

\* mercury_recv hands out the access point's frames in order, each once and with
\* its own command and length, as long as no receive was cut short or overrun.
ImplementsChannel == Channel!Spec

=============================================================================
