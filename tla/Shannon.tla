------------------------------- MODULE Shannon -------------------------------
(***************************************************************************)
(* The Shannon cipher of the platform layers as mercury.c uses it: how a   *)
(* frame is split into words over several calls, which bytes go into the   *)
(* registers, and when.                                                    *)
(*                                                                         *)
(* The registers are known by what went into them since the nonce: the     *)
(* words mixed in and the cycles made.  XOR is symbolic: with the key      *)
(* stream of the same registers and lane a byte comes back, with any other *)
(* it is noise.                                                            *)
(*                                                                         *)
(* The access point encrypts with the reference definition, which takes a  *)
(* frame as one sequence of words.                                         *)
(***************************************************************************)
EXTENDS Integers, SequencesExt

CONSTANTS
  BodyLens,   \* lengths of the frame bodies
  MaxFrames,  \* bound: frames sent, and frames received
  Builds      \* platform layers: "posix" (Windows has the same phases), "esp32"

ASSUME ShannonAssumption ==
  /\ BodyLens \subseteq Nat /\ BodyLens # {}
  /\ MaxFrames \in Nat
  /\ Builds # {} /\ Builds \subseteq {"posix", "esp32"}

Hdr == 3   \* [cmd][len_hi][len_lo]

VARIABLES
  build,      \* the platform layer
  snd,        \* s->send_cipher
  rcv,        \* s->recv_cipher
  sendNonce,  \* s->send_nonce
  recvNonce,  \* s->recv_nonce
  written,    \* the last frame mercury_send wrote
  pc,         \* where mercury_recv is
  len,        \* body length of the frame being received
  out,        \* what it was decrypted to so far
  mac         \* our_mac

vars == <<build, snd, rcv, sendNonce, recvNonce, written, pc, len, out, mac>>

-----------------------------------------------------------------------------
(* Registers, bytes, and XOR.                                              *)

Loaded(n) == [nonce |-> n, fed |-> <<>>, cycles |-> 0]
Clear == Loaded(-1)

\* A byte, and the key stream that is on it.
Byte(n, j) == [at |-> <<n, j>>, reg |-> Clear, lane |-> 0]
Noise == Byte(-1, 0)

Xor(b, reg, lane) ==
  CASE b.reg = Clear -> [at |-> b.at, reg |-> reg, lane |-> lane]
    [] b.reg = reg /\ b.lane = lane -> [at |-> b.at, reg |-> Clear, lane |-> 0]
    [] OTHER -> Noise

XorWord(bytes, reg, lane) ==
  [j \in DOMAIN bytes |-> Xor(bytes[j], reg, lane + j - 1)]

\* The plain text of the frame with nonce n and a body of k bytes.
Frame(n, k) == [j \in 1 .. Hdr + k |-> Byte(n, j)]

-----------------------------------------------------------------------------
(* The reference: the frame is cut into words, the last one may be short.  *)

Words(s) ==
  [k \in 1 .. (Len(s) + 3) \div 4 |-> SubSeq(s, 4 * k - 3, Min({4 * k, Len(s)}))]

Encrypted(n, s) ==
  [j \in DOMAIN s |->
     LET k == (j - 1) \div 4 IN
     Xor(s[j], [nonce |-> n, fed |-> SubSeq(Words(s), 1, k), cycles |-> k + 1], (j - 1) % 4)]

-----------------------------------------------------------------------------
(* The code.  A cipher holds its registers, the bytes of a word that is    *)
(* not complete, and how many are missing (nbuf / 8).                      *)

Fresh == [reg |-> Loaded(-2), mbuf |-> <<>>, room |-> 0]

shannon_cycle(c) == [c EXCEPT !.reg.cycles = @ + 1]
shannon_macfunc(c, word) == [c EXCEPT !.reg.fed = Append(@, word)]

platform_shannon_key(c) == [reg |-> Loaded(-2), mbuf |-> c.mbuf, room |-> 0]

\* Mutant: the missing bytes of a cut frame are still waited for.
NonceKeepsBuffer(c, n) == [c EXCEPT !.reg = Loaded(n)]

platform_shannon_nonce(c, n) == [reg |-> Loaded(n), mbuf |-> c.mbuf, room |-> 0]

\* Which bytes of a word that is not complete go into mbuf.
Mixed(dir, in, res) ==
  IF dir = "decrypt" /\ build = "esp32" THEN res ELSE in

\* A call in progress: the cipher, and the bytes it has made.
Buffered(dir, c, in) ==
  LET res == XorWord(in, c.reg, 4 - c.room)
      new == [reg |-> c.reg, mbuf |-> c.mbuf \o Mixed(dir, in, res), room |-> c.room - Len(in)]
  IN [cipher |-> IF in # <<>> /\ new.room = 0 /\ build # "esp32"
                 THEN shannon_macfunc(new, new.mbuf) ELSE new,
      res |-> res]

WholeWord(dir, call, in) ==
  LET c == shannon_cycle(call.cipher)
      res == XorWord(in, c.reg, 0)
  IN [cipher |-> shannon_macfunc(c, IF dir = "encrypt" THEN in ELSE res),
      res |-> call.res \o res]

Trailing(dir, call, in) ==
  LET c == shannon_cycle(call.cipher)
      res == XorWord(in, c.reg, 0)
  IN IF in = <<>> THEN call
     ELSE [cipher |-> [reg |-> c.reg, mbuf |-> Mixed(dir, in, res), room |-> 4 - Len(in)],
           res |-> call.res \o res]

\* platform_shannon_encrypt and platform_shannon_decrypt: calls[k] is the call
\* after its k-th whole word.
Crypt(dir, c, bytes) ==
  LET first == Min({c.room, Len(bytes)})
      whole == (Len(bytes) - first) \div 4
      words == [k \in 1 .. whole |-> SubSeq(bytes, first + 4 * k - 3, first + 4 * k)]
      calls[k \in 0 .. whole] ==
        IF k = 0 THEN Buffered(dir, c, SubSeq(bytes, 1, first))
        ELSE WholeWord(dir, calls[k - 1], words[k])
  IN Trailing(dir, calls[whole], SubSeq(bytes, first + 4 * whole + 1, Len(bytes)))

\* Mutant: the last, short word is left out of the MAC.
FinishWithoutFlush(c) == c

\* The MAC follows from the words that went in, the short one included.
platform_shannon_finish(c) ==
  IF c.room = 0 THEN c
  ELSE [reg |-> shannon_macfunc(c, c.mbuf).reg, mbuf |-> c.mbuf,
        room |-> IF build = "posix" THEN 0 ELSE c.room]

-----------------------------------------------------------------------------
NotWritten == [nonce |-> -1, bytes |-> <<>>, mac |-> <<>>]

Init ==
  /\ build \in Builds
  /\ snd = Fresh /\ rcv = Fresh /\ sendNonce = 0 /\ recvNonce = 0
  /\ written = NotWritten
  /\ pc = "idle" /\ len = 0 /\ out = <<>> /\ mac = <<>>

\* mercury_send encrypts a frame in one call.  If it cannot be written, the MAC
\* is not made.
mercury_send ==
  /\ sendNonce < MaxFrames
  /\ sendNonce' = sendNonce + 1
  /\ \E k \in BodyLens :
       LET call == Crypt("encrypt", platform_shannon_nonce(snd, sendNonce),
                         Frame(sendNonce, k))
           end == platform_shannon_finish(call.cipher)
       IN \/ /\ snd' = end
             /\ written' = [nonce |-> sendNonce, bytes |-> call.res, mac |-> end.reg.fed]
          \/ /\ snd' = call.cipher
             /\ written' = NotWritten
  /\ UNCHANGED <<build, rcv, recvNonce, pc, len, out, mac>>

\* mercury_recv decrypts a frame of the access point in two calls.
RecvHeader ==
  /\ pc \in {"idle", "done"}
  /\ recvNonce < MaxFrames
  /\ recvNonce' = recvNonce + 1
  /\ len' \in BodyLens
  /\ LET call == Crypt("decrypt", platform_shannon_nonce(rcv, recvNonce),
                       SubSeq(Encrypted(recvNonce, Frame(recvNonce, len')), 1, Hdr))
     IN rcv' = call.cipher /\ out' = call.res
  /\ pc' = "body" /\ mac' = <<>>
  /\ UNCHANGED <<build, snd, sendNonce, written>>

RecvBody ==
  /\ pc = "body"
  /\ LET call == Crypt("decrypt", rcv,
                       SubSeq(Encrypted(recvNonce - 1, Frame(recvNonce - 1, len)),
                              Hdr + 1, Hdr + len))
     IN rcv' = call.cipher /\ out' = out \o call.res
  /\ pc' = "mac"
  /\ UNCHANGED <<build, snd, sendNonce, recvNonce, written, len, mac>>

RecvMac ==
  /\ pc = "mac"
  /\ rcv' = platform_shannon_finish(rcv)
  /\ mac' = rcv'.reg.fed
  /\ pc' = "done"
  /\ UNCHANGED <<build, snd, sendNonce, recvNonce, written, len, out>>

\* A read timed out.
RecvFails ==
  /\ pc \in {"body", "mac"}
  /\ pc' = "idle" /\ out' = <<>>
  /\ UNCHANGED <<build, snd, rcv, sendNonce, recvNonce, written, len, mac>>

\* mercury_login5 keys both ciphers again, and both nonces start from zero.
shannon_init ==
  /\ pc \in {"idle", "done"}
  /\ snd' = platform_shannon_key(snd) /\ rcv' = platform_shannon_key(rcv)
  /\ sendNonce' = 0 /\ recvNonce' = 0
  /\ written' = NotWritten
  /\ pc' = "idle" /\ out' = <<>>
  /\ UNCHANGED <<build, len, mac>>

mercury_recv == RecvHeader \/ RecvBody \/ RecvMac \/ RecvFails

Next == mercury_send \/ mercury_recv \/ shannon_init

Spec == Init /\ [][Next]_vars

-----------------------------------------------------------------------------
(* Properties.                                                             *)

\* What mercury_send wrote is what the access point expects, bytes and MAC, for
\* any length, whatever the cipher was left with by the frame before.
SentAsReference ==
  written # NotWritten =>
    LET frame == Frame(written.nonce, Len(written.bytes) - Hdr) IN
    /\ written.bytes = Encrypted(written.nonce, frame)
    /\ written.mac = Words(frame)

\* The first word of a frame comes back, so that mercury_recv knows command and
\* length, also after a receive that was cut short in the middle of a word.
FirstWordReadBack ==
  \A j \in 1 .. Len(out) : j <= 4 => out[j] = Byte(recvNonce - 1, j)

-----------------------------------------------------------------------------
(* What the repository says and the code does not keep: refuted.           *)

\* test/x86/test_build.c encrypts and decrypts a text in one call each and wants
\* "encrypt+decrypt roundtrip" and "MAC match".  Also for the frames of
\* mercury_recv, which decrypts header and body in two calls.
FrameReadBack ==
  pc = "done" => /\ out = Frame(recvNonce - 1, len)
                 /\ mac = Words(Frame(recvNonce - 1, len))

=============================================================================
