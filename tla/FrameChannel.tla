---------------------------- MODULE FrameChannel ----------------------------
(***************************************************************************)
(* What an encrypted Mercury connection promises its reader, without bytes *)
(* and nonces: once the login handshake has opened it, frames are taken in *)
(* the order the access point sent them, each once, none made up, until    *)
(* the channel is lost.  Mercury implements it (MercuryChannel) and        *)
(* SpClient is written on top of it.                                       *)
(***************************************************************************)
EXTENDS Naturals, Sequences

CONSTANTS
  Frame,    \* the frames the access point can send
  Nothing   \* no frame

VARIABLES
  state,    \* "closed", "open" or "lost"
  sent,     \* the frames sent since the channel was opened
  got,      \* how many of them were taken
  last      \* the frame taken last

chan == <<state, sent, got, last>>

TypeOK ==
  /\ state \in {"closed", "open", "lost"}
  /\ sent \in Seq(Frame)
  /\ got \in 0 .. Len(sent)
  /\ last \in Frame \cup {Nothing}

Init == state = "closed" /\ sent = <<>> /\ got = 0 /\ last = Nothing

Restart == sent' = <<>> /\ got' = 0 /\ last' = Nothing

\* A handshake replaces whatever there was.
Open == state' = "open" /\ Restart

Push(f) ==
  /\ state = "open"
  /\ sent' = Append(sent, f)
  /\ UNCHANGED <<state, got, last>>

Take ==
  /\ state = "open"
  /\ got < Len(sent)
  /\ got' = got + 1
  /\ last' = sent[got + 1]
  /\ UNCHANGED <<state, sent>>

\* A read that was cut short, or a frame larger than the reader's buffer.
Lose ==
  /\ state = "open"
  /\ state' = "lost"
  /\ Restart

Close ==
  /\ state' = "closed"
  /\ Restart

Next == Open \/ (\E f \in Frame : Push(f)) \/ Take \/ Lose \/ Close

Spec == Init /\ [][Next]_chan

=============================================================================
