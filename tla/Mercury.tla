------------------------------- MODULE Mercury -------------------------------
(***************************************************************************)
(* One mercury_session_t (src/src/mercury.c) and the access point it talks *)
(* to: the login handshake, the encrypted frames of mercury_send and       *)
(* mercury_recv with their two nonces, and the TCP byte stream they share. *)
(*                                                                         *)
(* The program is single threaded.  A client action runs from one blocking *)
(* socket read to the next; the access point and the network run between.  *)
(*                                                                         *)
(* The stream from the access point is counted in bytes: a frame is a      *)
(* header, a body and a MAC, a read takes the next bytes whatever they     *)
(* are, and a read that times out has lost the bytes it had taken.  Which  *)
(* key and nonce a frame is decrypted with decides whether its header is   *)
(* understood: a header read anywhere else decrypts to an arbitrary        *)
(* command and length.  The MAC is compared but the result is only logged, *)
(* so it steers nothing and has no place in the state.                     *)
(***************************************************************************)
EXTENDS Integers, Sequences

CONSTANTS
  MaxConn,    \* bound: TCP connections made in one behaviour
  MaxTries,   \* frames mercury_login5 looks at before it gives up (10)
  MaxSend,    \* bound: frames the caller sends on one connection
  MaxRecv,    \* bound: frames the caller receives on one connection
  MaxFrames,  \* bound: frames the access point sends on one connection
  BodyLens,   \* lengths of the frame bodies
  LoginCap,   \* capacity of mercury_login5's receive buffer (4096)
  Caps,       \* capacities the other callers of mercury_recv pass
  Relogin     \* may mercury_login5 be called on a session that was used?

ASSUME MercuryAssumption ==
  /\ MaxConn \in Nat \ {0} /\ MaxTries \in Nat \ {0}
  /\ MaxSend \in Nat /\ MaxRecv \in Nat /\ MaxFrames \in Nat
  /\ BodyLens \subseteq Nat /\ BodyLens # {}
  /\ LoginCap \in Nat /\ Caps \subseteq Nat
  /\ Relogin \in BOOLEAN

Hdr == 3        \* [cmd][len_hi][len_lo]
Mac == 4        \* SHANNON_MAC_SZ
RespLen == 8    \* the shortest APResponse mercury_login5 accepts
LenField == 4   \* its length field

ApCmds == {"PING", "AUTH_OK", "AUTH_FAIL", "OTHER"}
Header == [cmd : ApCmds, len : BodyLens]
NoFrame == [cmd |-> "none", len |-> 0]

\* What the access point wrote after the plaintext handshake: each frame at
\* the byte offset where it starts.
ApFrame == [cmd : ApCmds, len : BodyLens, at : Nat]

\* What the client wrote: a handshake message, or a frame under the keys of
\* connection `key` (0: the cipher was never keyed), cut short if ~whole.
Plain(kind) == [kind |-> kind, key |-> 0, nonce |-> 0, whole |-> TRUE]
Cipher(kind, key, nonce, whole) ==
  [kind |-> kind, key |-> key, nonce |-> nonce, whole |-> whole]
UpKinds == {"hello", "response", "LOGIN", "PONG", "REQUEST"}
UpMsg == [kind : UpKinds, key : 0 .. MaxConn, nonce : Nat, whole : BOOLEAN]

Faults == {"short", "over", "write"}

VARIABLES
  live,       \* the session is allocated
  sock,       \* s->sock: 0 is PLATFORM_SOCKET_INVALID, else the connection
  connected,  \* s->connected
  keyed,      \* the connection whose keys the two ciphers hold, 0 for none
  sendNonce,  \* s->send_nonce
  recvNonce,  \* s->recv_nonce
  welcome,    \* where the APWelcome that filled the session came from
  pc,         \* where in mercury_login5 the caller blocks
  tries,      \* the loop counter of mercury_login5
  ret,        \* what the last mercury_login5 returned (1: none yet)
  rx,         \* the frame the last successful mercury_recv returned
  conn,       \* TCP connections made so far: the newest one's number
  open,       \* client sockets the operating system holds open
  up,         \* messages on their way to the access point
  ap,         \* the access point's side of the newest connection
  apNonce,    \* the nonce it expects next
  resp,       \* the APResponse it wrote
  frames,     \* the frames it wrote
  rpos,       \* bytes of its stream the client has taken
  faults,     \* history: what went wrong on the newest connection
  used        \* history: <<key, nonce>> of every frame sent

session == <<live, sock, connected, keyed, sendNonce, recvNonce, welcome>>
caller  == <<pc, tries, ret, rx>>
network == <<conn, open, up, ap, apNonce, resp, frames, rpos>>
history == <<faults, used>>
vars == <<session, caller, network, history>>

-----------------------------------------------------------------------------
(* The stream from the access point.                                       *)

\* The offset where frame k ends (0: the end of the APResponse).
Edge(k) ==
  IF k = 0 THEN RespLen ELSE frames[k].at + Hdr + frames[k].len + Mac

Written == IF resp = "none" THEN 0 ELSE Edge(Len(frames))
Pending == Written - rpos

\* The next read starts at frame recvNonce + 1, with its key and nonce.
Aligned ==
  /\ keyed = sock
  /\ recvNonce < Len(frames)
  /\ rpos = Edge(recvNonce)

\* What the next header decrypts to.
Decrypted ==
  IF Aligned
  THEN {[cmd |-> frames[recvNonce + 1].cmd, len |-> frames[recvNonce + 1].len]}
  ELSE Header

Body(h, cap) == IF h.len > cap THEN cap ELSE h.len

\* Mutant: the header of four bytes that mercury_recv once read.
SizeOfFourByteHeader(h, cap) == 4 + Body(h, cap) + Mac

\* What mercury_recv takes from the stream for header h.
Size(h, cap) == Hdr + Body(h, cap) + Mac

\* mercury_recv succeeds with header h.  `more` are faults of the same step.
RecvOk(h, cap, more) ==
  /\ sock # 0
  /\ h \in Decrypted
  /\ Size(h, cap) <= Pending
  /\ recvNonce' = recvNonce + 1
  /\ rpos' = rpos + Size(h, cap)
  /\ rx' = [h EXCEPT !.len = Body(h, cap)]
  /\ faults' = faults \cup more \cup (IF h.len > cap THEN {"over"} ELSE {})

\* Mutant: the nonce moves on before the header is read.
RecvFailNonceFirst(cap) ==
  /\ UNCHANGED rx
  /\ sock # 0 /\ Pending < Hdr
  /\ recvNonce' = recvNonce + 1
  /\ UNCHANGED <<rpos, faults>>

\* mercury_recv fails: no socket, or a read timed out after n of its bytes.
\* The nonce has moved on once the header was read.
RecvFail(cap) ==
  /\ UNCHANGED rx
  /\ \/ /\ sock = 0
        /\ UNCHANGED <<recvNonce, rpos, faults>>
     \/ /\ sock # 0
        /\ \E h \in Decrypted, n \in 0 .. Pending :
             /\ n < Size(h, cap)
             /\ rpos' = rpos + n
             /\ recvNonce' = IF n < Hdr THEN recvNonce ELSE recvNonce + 1
             /\ faults' = IF n > 0 THEN faults \cup {"short"} ELSE faults

-----------------------------------------------------------------------------
(* The stream to the access point.                                         *)

\* Mutants: the nonce is counted before it is used, or not counted on the way
\* to the next frame.
FrameWithNextNonce(kind, whole) == Cipher(kind, keyed, sendNonce + 1, whole)
SendKeepsNonce == UNCHANGED sendNonce /\ used' = used \cup {<<keyed, sendNonce>>}

\* The frame mercury_send builds: the nonce is taken before the write, so a
\* failed write has used it up.
NextFrame(kind, whole) == Cipher(kind, keyed, sendNonce, whole)

SendTakesNonce ==
  /\ sendNonce' = sendNonce + 1
  /\ used' = used \cup {<<keyed, sendNonce>>}

-----------------------------------------------------------------------------
(* Allocation.                                                             *)

Init ==
  /\ live = FALSE /\ sock = 0 /\ connected = FALSE /\ keyed = 0
  /\ sendNonce = 0 /\ recvNonce = 0 /\ welcome = "none"
  /\ pc = "idle" /\ tries = 0 /\ ret = 1 /\ rx = NoFrame
  /\ conn = 0 /\ open = {} /\ up = <<>> /\ ap = "none" /\ apNonce = 0
  /\ resp = "none" /\ frames = <<>> /\ rpos = 0
  /\ faults = {} /\ used = {}

\* mercury_init: calloc, an invalid socket, two ciphers without a key.
mercury_init ==
  /\ ~live
  /\ live' = TRUE
  /\ sock' = 0 /\ connected' = FALSE /\ keyed' = 0
  /\ sendNonce' = 0 /\ recvNonce' = 0 /\ welcome' = "none"
  /\ ret' = 1 /\ rx' = NoFrame
  /\ UNCHANGED <<pc, tries, network, history>>

\* Mutants: the socket is forgotten, or the flag is.
ForgetSocket == sock' = 0 /\ connected' = FALSE /\ UNCHANGED open
ForgetFlag == sock' = 0 /\ open' = open \ {sock} /\ UNCHANGED connected

CloseSocket == sock' = 0 /\ connected' = FALSE /\ open' = open \ {sock}

\* mercury_disconnect closes the socket and keeps the rest of the session.
mercury_disconnect ==
  /\ live /\ pc = "idle"
  /\ CloseSocket
  /\ UNCHANGED <<live, keyed, sendNonce, recvNonce, welcome, caller, conn, up,
                 ap, apNonce, resp, frames, rpos, history>>

mercury_destroy ==
  /\ live /\ pc = "idle"
  /\ live' = FALSE
  /\ CloseSocket
  /\ UNCHANGED <<keyed, sendNonce, recvNonce, welcome, caller, conn, up, ap,
                 apNonce, resp, frames, rpos, history>>

-----------------------------------------------------------------------------
(* mercury_login5, from one blocking read to the next.                     *)

Return(code) == ret' = code /\ pc' = "idle"

\* Bad arguments or auth data: nothing was touched.
LoginRefused ==
  /\ \E code \in {-1, -2} : Return(code)
  /\ UNCHANGED <<session, tries, rx, network, history>>

\* The socket of an earlier login is overwritten, not closed.
ConnectFails ==
  /\ sock' = 0
  /\ Return(-3)
  /\ UNCHANGED <<live, connected, keyed, sendNonce, recvNonce, welcome, tries,
                 rx, network, history>>

\* A new connection, and the ClientHello written on it.
ConnectAndHello ==
  /\ conn < MaxConn
  /\ conn' = conn + 1
  /\ sock' = conn + 1
  /\ open' = open \cup {conn + 1}
  /\ ap' = "hello" /\ apNonce' = 0
  /\ resp' = "none" /\ frames' = <<>> /\ rpos' = 0
  /\ \/ /\ up' = <<Plain("hello")>>
        /\ faults' = {}
        /\ pc' = "apresponse"
        /\ UNCHANGED ret
     \/ /\ up' = <<>>
        /\ faults' = {"write"}
        /\ Return(-4)
  /\ UNCHANGED <<live, connected, keyed, sendNonce, recvNonce, welcome, tries,
                 rx, used>>

mercury_login5 ==
  /\ live /\ pc = "idle"
  /\ Relogin \/ ret = 1
  /\ LoginRefused \/ ConnectFails \/ ConnectAndHello

\* tcp_recv_packet gave nothing usable, or there is no DH key in it.
ApResponseFails ==
  /\ \/ /\ \E n \in 0 .. RespLen - 1 :
             /\ n <= Pending
             /\ rpos' = n
             /\ faults' = IF n > 0 THEN faults \cup {"short"} ELSE faults
        /\ Return(-5)
     \/ /\ resp = "malformed"
        /\ rpos' = LenField
        /\ Return(-5)
        /\ UNCHANGED faults
     \/ /\ resp = "no_dh"
        /\ rpos' = RespLen
        /\ Return(-6)
        /\ UNCHANGED faults
  /\ UNCHANGED <<session, tries, rx, conn, open, up, ap, apNonce, resp, frames,
                 used>>

\* The ClientResponse goes out, both ciphers get the new keys, both nonces
\* start again, and the LoginRequest is the first frame.
KeyAndLogin ==
  /\ resp = "dh"
  /\ rpos' = RespLen
  /\ \/ /\ faults' = faults \cup {"write"}
        /\ Return(-7)
        /\ UNCHANGED <<keyed, sendNonce, recvNonce, tries, rx, up, used>>
     \/ /\ keyed' = sock
        /\ sendNonce' = 1
        /\ recvNonce' = 0
        /\ rx' = NoFrame
        /\ used' = used \cup {<<sock, 0>>}
        /\ \E whole \in BOOLEAN :
             /\ up' = up \o <<Plain("response"), Cipher("LOGIN", sock, 0, whole)>>
             /\ IF whole
                THEN pc' = "await" /\ tries' = 0 /\ UNCHANGED <<ret, faults>>
                ELSE /\ Return(-8)
                     /\ faults' = faults \cup {"write"}
                     /\ UNCHANGED tries
  /\ UNCHANGED <<live, sock, connected, welcome, conn, open, ap, apNonce, resp,
                 frames>>

LoginHandshake ==
  /\ pc = "apresponse"
  /\ ApResponseFails \/ KeyAndLogin

\* Mutant: the loop makes a turn too few.
OneTryLess ==
  /\ tries' = tries + 1
  /\ IF tries + 2 < MaxTries THEN UNCHANGED <<pc, ret>> ELSE Return(-10)

\* Another turn of the loop, or the loop is used up.
NextTry ==
  /\ tries' = tries + 1
  /\ IF tries + 1 < MaxTries THEN UNCHANGED <<pc, ret>> ELSE Return(-10)

\* Mutant: a failed receive is tried again, as spclient.c does, but uncounted.
AwaitRetries ==
  /\ RecvFail(LoginCap)
  /\ UNCHANGED <<live, sock, connected, keyed, sendNonce, welcome, pc, tries, ret,
                 conn, open, up, ap, apNonce, resp, frames, used>>

AwaitFails ==
  /\ RecvFail(LoginCap)
  /\ Return(-9)
  /\ UNCHANGED <<live, sock, connected, keyed, sendNonce, welcome, tries, conn,
                 open, up, ap, apNonce, resp, frames, used>>

\* A PING is answered; whether the answer could be written is not looked at.
AwaitPing ==
  /\ \E h \in Decrypted, whole \in BOOLEAN :
       /\ h.cmd = "PING"
       /\ RecvOk(h, LoginCap, IF whole THEN {} ELSE {"write"})
       /\ up' = Append(up, NextFrame("PONG", whole))
  /\ SendTakesNonce
  /\ NextTry
  /\ UNCHANGED <<live, sock, connected, keyed, welcome, conn, open, ap, apNonce,
                 resp, frames>>

AwaitOther ==
  /\ \E h \in Decrypted : h.cmd = "OTHER" /\ RecvOk(h, LoginCap, {})
  /\ NextTry
  /\ UNCHANGED <<live, sock, connected, keyed, sendNonce, welcome, conn, open,
                 up, ap, apNonce, resp, frames, used>>

AwaitVerdict ==
  /\ \E h \in Decrypted :
       /\ RecvOk(h, LoginCap, {})
       /\ \/ /\ h.cmd = "AUTH_OK"
             /\ connected' = TRUE
             /\ welcome' = IF Aligned THEN "frame" ELSE "garbage"
             /\ Return(0)
          \/ /\ h.cmd = "AUTH_FAIL"
             /\ Return(-10)
             /\ UNCHANGED <<connected, welcome>>
  /\ UNCHANGED <<live, sock, keyed, sendNonce, tries, conn, open, up, ap,
                 apNonce, resp, frames, used>>

LoginAwait ==
  /\ pc = "await"
  /\ AwaitFails \/ AwaitPing \/ AwaitOther \/ AwaitVerdict

-----------------------------------------------------------------------------
(* mercury_send and mercury_recv called from outside (spclient.c).  Both   *)
(* look at the socket only, not at `connected`.                            *)

mercury_send ==
  /\ live /\ pc = "idle"
  /\ sock # 0
  /\ sendNonce <= MaxSend
  /\ \E whole \in BOOLEAN :
       /\ up' = Append(up, NextFrame("REQUEST", whole))
       /\ faults' = IF whole THEN faults ELSE faults \cup {"write"}
  /\ SendTakesNonce
  /\ UNCHANGED <<live, sock, connected, keyed, recvNonce, welcome, caller, conn,
                 open, ap, apNonce, resp, frames, rpos>>

mercury_recv ==
  /\ live /\ pc = "idle"
  /\ recvNonce < MaxRecv
  /\ \E cap \in Caps : RecvFail(cap) \/ \E h \in Decrypted : RecvOk(h, cap, {})
  /\ UNCHANGED <<live, sock, connected, keyed, sendNonce, welcome, pc, tries, ret,
                 conn, open, up, ap, apNonce, resp, frames, used>>

-----------------------------------------------------------------------------
(* The access point of the newest connection.                              *)

Push(cmd) ==
  \E n \in BodyLens :
    frames' = Append(frames, [cmd |-> cmd, len |-> n, at |-> Written])

ApHello ==
  /\ ap = "hello"
  /\ up # <<>> /\ Head(up).kind = "hello"
  /\ up' = Tail(up)
  /\ ap' = "response"
  /\ resp' \in {"dh", "no_dh", "malformed"}
  /\ UNCHANGED <<session, caller, conn, open, apNonce, frames, rpos, history>>

ApResponse ==
  /\ ap = "response"
  /\ up # <<>>
  /\ up' = Tail(up)
  /\ ap' = IF Head(up).kind = "response" THEN "login" ELSE "rejected"
  /\ UNCHANGED <<session, caller, conn, open, apNonce, resp, frames, rpos,
                 history>>

\* A frame is accepted under the connection's keys and the nonce that is
\* due; the LoginRequest is granted or denied.
ApAccepts(m) == m.whole /\ m.key = conn /\ m.nonce = apNonce

ApReceive ==
  /\ ap \in {"login", "auth"}
  /\ up # <<>>
  /\ up' = Tail(up)
  /\ \/ /\ ~ApAccepts(Head(up))
        /\ ap' = "rejected"
        /\ UNCHANGED <<apNonce, frames>>
     \/ /\ ApAccepts(Head(up))
        /\ apNonce' = apNonce + 1
        /\ \/ /\ ap = "login"
              /\ \/ ap' = "auth" /\ Push("AUTH_OK")
                 \/ ap' = "denied" /\ Push("AUTH_FAIL")
           \/ /\ ap = "auth"
              /\ UNCHANGED <<ap, frames>>
  /\ UNCHANGED <<session, caller, conn, open, resp, rpos, history>>

ApSend ==
  /\ ap \in {"login", "auth"}
  /\ Len(frames) < MaxFrames
  /\ \E cmd \in {"PING", "OTHER"} : Push(cmd)
  /\ UNCHANGED <<session, caller, conn, open, up, ap, apNonce, resp, rpos,
                 history>>

-----------------------------------------------------------------------------
Client ==
  \/ mercury_init \/ mercury_disconnect \/ mercury_destroy
  \/ mercury_login5 \/ LoginHandshake \/ LoginAwait
  \/ mercury_send \/ mercury_recv

AccessPoint == ApHello \/ ApResponse \/ ApReceive \/ ApSend

Next == Client \/ AccessPoint

Spec == Init /\ [][Next]_vars

\* A call that was made goes on until it returns: the program runs, and every
\* read it blocks in ends within the 15 seconds of platform_tcp_set_timeout.
FairSpec == Spec /\ WF_vars(LoginHandshake) /\ WF_vars(LoginAwait)

-----------------------------------------------------------------------------
(* Properties.                                                             *)

Codes == {-10, -9, -8, -7, -6, -5, -4, -3, -2, -1, 0, 1}

\* Every variable has its type.
TypeOK ==
  /\ live \in BOOLEAN /\ connected \in BOOLEAN
  /\ sock \in 0 .. MaxConn /\ keyed \in 0 .. MaxConn /\ conn \in 0 .. MaxConn
  /\ sendNonce \in Nat /\ recvNonce \in Nat /\ apNonce \in Nat /\ rpos \in Nat
  /\ welcome \in {"none", "frame", "garbage"}
  /\ pc \in {"idle", "apresponse", "await"} /\ tries \in 0 .. MaxTries
  /\ ret \in Codes
  /\ rx \in [cmd : ApCmds \cup {"none"}, len : Nat]
  /\ open \subseteq 1 .. MaxConn
  /\ up \in Seq(UpMsg)
  /\ ap \in {"none", "hello", "response", "login", "auth", "denied", "rejected"}
  /\ resp \in {"none", "dh", "no_dh", "malformed"}
  /\ frames \in Seq(ApFrame)
  /\ faults \subseteq Faults
  /\ used \subseteq (0 .. MaxConn) \X Nat

\* The nonce the next frame will take was never used under the keys the send
\* cipher holds: not by a frame whose write failed, not in an earlier login
\* (mercury_send counts before it writes, mercury_login5 starts from zero
\* only together with new keys).
SendNonceFresh ==
  keyed # 0 => \A u \in used : u[1] = keyed => u[2] < sendNonce

\* As long as no receive was cut short inside a frame or got a frame larger
\* than its buffer, the next read starts at the first byte of the frame whose
\* nonce the receive cipher is about to use: a receive that times out before
\* the first byte costs nothing (mercury_recv).
ReceiveInSync ==
  (keyed = sock /\ sock # 0 /\ faults \cap {"short", "over"} = {})
    => recvNonce <= Len(frames) /\ rpos = Edge(recvNonce)

\* Unless a write failed, the access point has refused no frame of a session
\* whose handshake was completed: it finds keys and nonces as it expects.
NoFrameRefused ==
  (keyed = conn /\ conn # 0 /\ ap = "rejected") => "write" \in faults

\* A session that says it is connected was granted the login by the access
\* point, on the connection it now holds, if no frame overran the buffer.
ConnectedMeansGranted ==
  (connected /\ "over" \notin faults)
    => sock = conn /\ keyed = sock /\ welcome = "frame" /\ ap \in {"auth", "rejected"}

\* A login the access point granted is reported as failed (-10) only when the
\* loop's budget went to other frames; PINGs spend it too.
GrantMissedOnlyByBudget ==
  (pc = "idle" /\ ret = -10 /\ keyed = conn /\ ap = "auth" /\ "over" \notin faults)
    => recvNonce >= MaxTries

\* No socket but the session's own is open, whatever step failed before.
NoSocketLeak == open \subseteq {sock}

\* Every login returns, whatever the access point sends or withholds.
LoginReturns == (pc # "idle") ~> (pc = "idle")

-----------------------------------------------------------------------------
(* What makes SendNonceFresh and ReceiveInSync inductive.                  *)

\* How the session, the caller and the newest connection fit together.
Shape ==
  /\ sock \in {0, conn} /\ keyed <= conn
  /\ pc # "idle" => live /\ sock = conn /\ conn > 0
  /\ pc = "apresponse" => keyed < conn
  /\ pc = "await" => keyed = conn /\ tries < MaxTries
  /\ (keyed = conn /\ conn > 0) => resp # "none" /\ ap # "hello"
  /\ ap \in {"response", "login", "auth"} => resp # "none"
  /\ ap = "hello" => resp = "none"
  /\ resp = "none" => frames = <<>>

\* The access point's frames follow one another without a gap.
Contiguous == \A k \in 1 .. Len(frames) : frames[k].at = Edge(k - 1)

\* No frame was ever sent under keys that are still to be agreed.
KeysUnused ==
  /\ \A u \in used : u[1] <= conn
  /\ pc = "apresponse" => \A u \in used : u[1] < conn

IInv ==
  TypeOK /\ Shape /\ Contiguous /\ KeysUnused /\ SendNonceFresh /\ ReceiveInSync

=============================================================================
