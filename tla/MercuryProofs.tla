---------------------------- MODULE MercuryProofs ----------------------------
(***************************************************************************)
(* Mercury keeps IInv, hence its type invariant, fresh send nonces and a   *)
(* receiver in step with the stream, and VerdictInv, hence frames that are *)
(* not refused and logins that end as the access point decided, and        *)
(* implements FrameChannel, for every value of the constants.              *)
(***************************************************************************)
EXTENDS MercuryChannel, TLAPS

-----------------------------------------------------------------------------
(* The byte stream.                                                        *)

\* The constants, one by one.
LEMMA Constants ==
  /\ BodyLens \subseteq Nat
  /\ LoginCap \in Nat
  /\ Caps \subseteq Nat
  /\ MaxConn \in Nat /\ MaxTries \in Nat /\ MaxTries > 0
BY MercuryAssumption DEF MercuryAssumption

\* Frame boundaries are offsets.
LEMMA EdgeNat ==
  ASSUME TypeOK, NEW k \in 0 .. Len(frames)
  PROVE  Edge(k) \in Nat
<1>1. frames \in Seq(ApFrame) /\ BodyLens \subseteq Nat
  BY Constants DEF TypeOK
<1>2. CASE k = 0
  BY <1>2 DEF Edge, RespLen
<1>3. CASE k # 0
  <2>1. frames[k] \in ApFrame
    BY <1>1, <1>3
  <2>2. frames[k].at \in Nat /\ frames[k].len \in Nat
    BY <1>1, <2>1 DEF ApFrame
  <2>3. Edge(k) = frames[k].at + 3 + frames[k].len + 4
    BY <1>3 DEF Edge, Hdr, Mac
  <2>4. \A a, b \in Nat : a + 3 + b + 4 \in Nat
    OBVIOUS
  <2>. QED BY <2>2, <2>3, <2>4
<1>. QED BY <1>2, <1>3

\* A frame written by the access point starts where the last one ended and
\* moves no earlier boundary (Push).
LEMMA PushExtends ==
  ASSUME TypeOK, Contiguous, resp # "none", UNCHANGED resp,
         NEW cmd \in ApCmds, Push(cmd)
  PROVE  /\ frames' \in Seq(ApFrame)
         /\ Len(frames') = Len(frames) + 1
         /\ \A k \in 0 .. Len(frames) : Edge(k)' = Edge(k)
         /\ Contiguous'
<1>1. PICK n \in BodyLens :
        frames' = Append(frames, [cmd |-> cmd, len |-> n, at |-> Edge(Len(frames))])
  BY DEF Push, Written
<1>2. Edge(Len(frames)) \in Nat
  BY EdgeNat DEF TypeOK
<1>3. frames' \in Seq(ApFrame) /\ Len(frames') = Len(frames) + 1
  BY <1>1, <1>2 DEF TypeOK, ApFrame
<1>4. \A k \in 1 .. Len(frames) : frames'[k] = frames[k]
  BY <1>1 DEF TypeOK
<1>5. \A k \in 0 .. Len(frames) : Edge(k)' = Edge(k)
  BY <1>4 DEF Edge
<1>6. frames'[Len(frames')].at = Edge(Len(frames))
  BY <1>1, <1>3 DEF TypeOK
<1>7. Contiguous'
  <2>1. ASSUME NEW k \in 1 .. Len(frames')
        PROVE  frames'[k].at = Edge(k - 1)'
    <3>1. CASE k = Len(frames')
      BY <3>1, <1>3, <1>5, <1>6 DEF TypeOK
    <3>2. CASE k # Len(frames')
      <4>1. k \in 1 .. Len(frames) /\ k - 1 \in 0 .. Len(frames)
        BY <3>2, <1>3 DEF TypeOK
      <4>. QED BY <4>1, <1>4, <1>5 DEF Contiguous
    <3>. QED BY <3>1, <3>2
  <2>. QED BY <2>1 DEF Contiguous
<1>. QED BY <1>3, <1>5, <1>7

\* What is pending is what the stream holds past the reader.
LEMMA PendingInt ==
  ASSUME TypeOK
  PROVE  Pending \in Int /\ Written \in Nat
BY EdgeNat DEF Pending, Written, TypeOK

\* The size of any frame the reader thinks it sees.
LEMMA SizeNat ==
  ASSUME NEW h \in Header, NEW cap \in Nat
  PROVE  /\ Size(h, cap) \in Nat /\ Size(h, cap) > Hdr
         /\ Body(h, cap) \in Nat
         /\ h.len <= cap => Body(h, cap) = h.len
<1>1. h.len \in Nat
  BY Constants DEF Header
<1>2. Body(h, cap) \in Nat /\ (h.len <= cap => Body(h, cap) = h.len)
  BY <1>1 DEF Body
<1>3. Size(h, cap) = 3 + Body(h, cap) + 4
  BY DEF Size, Hdr, Mac
<1>. QED BY <1>2, <1>3 DEF Hdr

\* A header is a command and a length, understood or not.
LEMMA DecryptedHeader ==
  ASSUME TypeOK
  PROVE  Decrypted \subseteq Header
<1>1. CASE Aligned
  <2>1. recvNonce + 1 \in 1 .. Len(frames)
    BY <1>1 DEF Aligned, TypeOK
  <2>2. frames[recvNonce + 1] \in ApFrame
    BY <2>1 DEF TypeOK
  <2>. QED BY <1>1, <2>2 DEF Decrypted, Header, ApFrame
<1>2. CASE ~Aligned
  BY <1>2 DEF Decrypted
<1>. QED BY <1>1, <1>2

-----------------------------------------------------------------------------
(* What one mercury_recv does to the reader's place in the stream.         *)

\* A successful receive keeps the types.
LEMMA RecvOkTypes ==
  ASSUME TypeOK, NEW h \in Header, NEW cap \in Nat, NEW more \in SUBSET Faults,
         RecvOk(h, cap, more)
  PROVE  /\ recvNonce' \in Nat /\ rpos' \in Nat
         /\ rx' \in [cmd : ApCmds \cup {"none"}, len : Nat]
         /\ faults' \subseteq Faults
<1>1. Size(h, cap) \in Nat /\ Body(h, cap) \in Nat
  BY SizeNat
<1>2. recvNonce' \in Nat /\ rpos' \in Nat
  <2>1. recvNonce \in Nat /\ rpos \in Nat
    BY DEF TypeOK
  <2>2. recvNonce' = recvNonce + 1 /\ rpos' = rpos + Size(h, cap)
    BY Zenon DEF RecvOk
  <2>. QED BY ONLY <1>1, <2>1, <2>2
<1>3. rx' \in [cmd : ApCmds \cup {"none"}, len : Nat]
  <2>1. rx' = [h EXCEPT !.len = Body(h, cap)]
    BY Zenon DEF RecvOk
  <2>. QED BY ONLY <1>1, <2>1, h \in Header DEF Header
<1>4. faults' \subseteq Faults
  BY DEF RecvOk, TypeOK, Faults
<1>. QED BY <1>2, <1>3, <1>4

\* A failed receive keeps the types.
LEMMA RecvFailTypes ==
  ASSUME TypeOK, NEW cap \in Nat, RecvFail(cap)
  PROVE  /\ recvNonce' \in Nat /\ rpos' \in Nat
         /\ rx' \in [cmd : ApCmds \cup {"none"}, len : Nat]
         /\ faults' \subseteq Faults
<1>1. rx' \in [cmd : ApCmds \cup {"none"}, len : Nat]
  BY DEF RecvFail, TypeOK
<1>2. CASE sock = 0
  BY <1>1, <1>2 DEF RecvFail, TypeOK
<1>3. CASE sock # 0
  <2>1. PICK h \in Decrypted, n \in 0 .. Pending :
          /\ rpos' = rpos + n
          /\ recvNonce' = IF n < Hdr THEN recvNonce ELSE recvNonce + 1
          /\ faults' = IF n > 0 THEN faults \cup {"short"} ELSE faults
    BY <1>3 DEF RecvFail
  <2>2. n \in Nat
    BY PendingInt
  <2>3. rpos' \in Nat /\ recvNonce' \in Nat
    BY <2>1, <2>2 DEF TypeOK
  <2>4. faults' \subseteq Faults
    BY <2>1 DEF TypeOK, Faults
  <2>. QED BY <1>1, <2>3, <2>4
<1>. QED BY <1>2, <1>3

\* In step, and with nothing lost, the next header is the next frame's.
LEMMA InSyncDecrypts ==
  ASSUME TypeOK, Shape, ReceiveInSync, sock # 0, keyed = sock,
         faults \cap {"short", "over"} = {},
         NEW h \in Decrypted, NEW cap \in Nat, Size(h, cap) <= Pending
  PROVE  /\ recvNonce + 1 \in 1 .. Len(frames)
         /\ rpos = Edge(recvNonce)
         /\ h.len = frames[recvNonce + 1].len
<1>1. recvNonce <= Len(frames) /\ rpos = Edge(recvNonce)
  BY DEF ReceiveInSync
<1>2. resp # "none"
  BY DEF Shape, TypeOK
<1>3. Pending = Edge(Len(frames)) - Edge(recvNonce)
  BY <1>1, <1>2 DEF Pending, Written
<1>4. h \in Header
  BY DecryptedHeader
<1>5. Size(h, cap) \in Nat /\ Size(h, cap) > 3
  BY <1>4, SizeNat DEF Hdr
<1>6. Edge(Len(frames)) \in Nat
  BY EdgeNat DEF TypeOK
<1>7. recvNonce # Len(frames)
  <2>1. SUFFICES ASSUME recvNonce = Len(frames) PROVE FALSE
    OBVIOUS
  <2>2. Pending = 0
    BY <1>3, <1>6, <2>1
  <2>. QED BY <1>5, <2>2
<1>8. Aligned
  BY <1>1, <1>7 DEF Aligned, TypeOK
<1>9. h.len = frames[recvNonce + 1].len
  BY <1>8 DEF Decrypted
<1>. QED BY <1>1, <1>7, <1>9 DEF TypeOK

\* A successful receive leaves the reader in step.
LEMMA RecvOkInSync ==
  ASSUME TypeOK, Shape, Contiguous, ReceiveInSync,
         NEW h \in Decrypted, NEW cap \in Nat, NEW more, RecvOk(h, cap, more),
         UNCHANGED <<keyed, sock, frames>>
  PROVE  ReceiveInSync'
<1>1. SUFFICES ASSUME keyed = sock, sock # 0, faults' \cap {"short", "over"} = {}
               PROVE  recvNonce' <= Len(frames) /\ rpos' = Edge(recvNonce')
  BY DEF ReceiveInSync, Edge
<1>2. faults \cap {"short", "over"} = {} /\ ~(h.len > cap)
  BY <1>1 DEF RecvOk
<1>3. Size(h, cap) <= Pending
  BY DEF RecvOk
<1>4. /\ recvNonce + 1 \in 1 .. Len(frames)
      /\ rpos = Edge(recvNonce)
      /\ h.len = frames[recvNonce + 1].len
  BY <1>1, <1>2, <1>3, InSyncDecrypts
<1>5. h \in Header /\ h.len \in Nat
  BY DecryptedHeader, Constants DEF Header
<1>6. Size(h, cap) = 3 + h.len + 4
  BY <1>2, <1>5 DEF Size, Body, Hdr, Mac
<1>7. frames[recvNonce + 1].at = Edge(recvNonce)
  BY <1>4 DEF Contiguous, TypeOK
<1>8. recvNonce' = recvNonce + 1 /\ rpos' = Edge(recvNonce) + Size(h, cap)
  BY <1>4 DEF RecvOk
<1>9. Edge(recvNonce + 1) = Edge(recvNonce) + 3 + h.len + 4
  BY <1>4, <1>7 DEF Edge, Hdr, Mac, TypeOK
<1>10. Edge(recvNonce) \in Nat
  BY <1>4, EdgeNat DEF TypeOK
<1>11. Edge(recvNonce) + (3 + h.len + 4) = Edge(recvNonce) + 3 + h.len + 4
  BY <1>5, <1>10
<1>. QED BY <1>4, <1>6, <1>8, <1>9, <1>11

\* A failed receive leaves the reader in step unless it took some bytes.
LEMMA RecvFailInSync ==
  ASSUME TypeOK, ReceiveInSync, NEW cap \in Nat, RecvFail(cap),
         UNCHANGED <<keyed, sock, frames>>
  PROVE  ReceiveInSync'
<1>1. SUFFICES ASSUME keyed = sock, sock # 0, faults' \cap {"short", "over"} = {}
               PROVE  recvNonce' <= Len(frames) /\ rpos' = Edge(recvNonce')
  BY DEF ReceiveInSync, Edge
<1>2. PICK h \in Decrypted, n \in 0 .. Pending :
        /\ rpos' = rpos + n
        /\ recvNonce' = IF n < Hdr THEN recvNonce ELSE recvNonce + 1
        /\ faults' = IF n > 0 THEN faults \cup {"short"} ELSE faults
  BY <1>1 DEF RecvFail
<1>3. n \in Nat
  BY PendingInt
<1>4. n = 0
  BY <1>1, <1>2, <1>3
<1>5. rpos' = rpos /\ recvNonce' = recvNonce /\ faults' = faults
  BY <1>2, <1>4 DEF Hdr, TypeOK
<1>. QED BY <1>1, <1>5 DEF ReceiveInSync

-----------------------------------------------------------------------------
(* One step, conjunct by conjunct of IInv.                                 *)

\* What the client writes are messages to the access point.
LEMMA Messages ==
  /\ Plain("hello") \in UpMsg /\ Plain("response") \in UpMsg
  /\ \A kind \in UpKinds, key \in 0 .. MaxConn, nonce \in Nat, whole \in BOOLEAN :
       Cipher(kind, key, nonce, whole) \in UpMsg
<1>1. 0 \in 0 .. MaxConn
  BY Constants
<1>2. Plain("hello") \in UpMsg /\ Plain("response") \in UpMsg
  BY <1>1 DEF Plain, UpMsg, UpKinds
<1>3. \A kind \in UpKinds, key \in 0 .. MaxConn, nonce \in Nat, whole \in BOOLEAN :
        Cipher(kind, key, nonce, whole) \in UpMsg
  BY DEF Cipher, UpMsg
<1>. QED BY <1>2, <1>3

\* Every step keeps the types.
LEMMA NextTypeOK ==
  ASSUME IInv, Next
  PROVE  TypeOK'
<1>. USE DEF session, caller, network, history
<1>0. TypeOK /\ Shape /\ Contiguous /\ Constants
  BY Constants DEF IInv
<1>1. CASE mercury_init \/ mercury_disconnect \/ mercury_destroy
  <2>0. 0 \in 0 .. MaxConn
    BY Constants
  <2>1. CASE mercury_init
    BY <1>0, <2>0, <2>1 DEF TypeOK, mercury_init, NoFrame, Codes
  <2>2. CASE mercury_disconnect
    BY <1>0, <2>0, <2>2 DEF TypeOK, mercury_disconnect, CloseSocket
  <2>3. CASE mercury_destroy
    BY <1>0, <2>0, <2>3 DEF TypeOK, mercury_destroy, CloseSocket
  <2>. QED BY <1>1, <2>1, <2>2, <2>3
<1>2. CASE mercury_login5
  <2>1. CASE LoginRefused
    BY <1>0, <2>1 DEF TypeOK, LoginRefused, Return, Codes
  <2>2. CASE ConnectFails
    BY <1>0, <2>2 DEF TypeOK, ConnectFails, Return, Codes
  <2>3. CASE ConnectAndHello
    <3>1. up' \in Seq(UpMsg)
      <4>1. <<>> \in Seq(UpMsg) /\ <<Plain("hello")>> \in Seq(UpMsg)
        BY Messages
      <4>2. up' = <<>> \/ up' = <<Plain("hello")>>
        BY <2>3 DEF ConnectAndHello
      <4>. QED BY <4>1, <4>2
    <3>2. conn' \in 0 .. MaxConn /\ sock' \in 0 .. MaxConn /\ open' \subseteq 1 .. MaxConn
      BY <2>3, <1>0 DEF ConnectAndHello, TypeOK
    <3>3. pc' \in {"idle", "apresponse"} /\ ret' \in Codes /\ faults' \subseteq Faults
      BY <2>3, <1>0 DEF ConnectAndHello, TypeOK, Return, Codes, Faults
    <3>4. frames' = <<>> /\ frames' \in Seq(ApFrame)
      BY <2>3 DEF ConnectAndHello
    <3>. QED BY <1>0, <2>3, <3>1, <3>2, <3>3, <3>4 DEF TypeOK, ConnectAndHello
  <2>. QED BY <1>2, <2>1, <2>2, <2>3 DEF mercury_login5
<1>3. CASE LoginHandshake
  <2>1. CASE ApResponseFails
    <3>1. rpos' \in Nat
      BY <2>1 DEF ApResponseFails, RespLen, LenField
    <3>2. faults' \subseteq Faults
      BY <1>0, <2>1 DEF TypeOK, ApResponseFails, Faults
    <3>3. pc' = "idle" /\ ret' \in Codes
      BY <2>1 DEF ApResponseFails, Return, Codes
    <3>. QED BY <1>0, <2>1, <3>1, <3>2, <3>3 DEF TypeOK, ApResponseFails
  <2>2. CASE KeyAndLogin
    <3>1. up' \in Seq(UpMsg)
      <4>1. CASE UNCHANGED up
        BY <4>1, <1>0 DEF TypeOK
      <4>2. CASE \E whole \in BOOLEAN :
              up' = up \o <<Plain("response"), Cipher("LOGIN", sock, 0, whole)>>
        <5>1. PICK whole \in BOOLEAN :
                up' = up \o <<Plain("response"), Cipher("LOGIN", sock, 0, whole)>>
          BY <4>2
        <5>2. Cipher("LOGIN", sock, 0, whole) \in UpMsg
          BY <1>0, Messages DEF TypeOK, UpKinds
        <5>3. <<Plain("response"), Cipher("LOGIN", sock, 0, whole)>> \in Seq(UpMsg)
          BY <5>2, Messages
        <5>. QED BY <1>0, <5>1, <5>3 DEF TypeOK
      <4>. QED BY <2>2, <4>1, <4>2 DEF KeyAndLogin
    <3>2. used' \subseteq (0 .. MaxConn) \X Nat
      BY <2>2, <1>0 DEF KeyAndLogin, TypeOK
    <3>3. /\ pc' \in {"idle", "await"} /\ ret' \in Codes /\ faults' \subseteq Faults
          /\ tries' \in 0 .. MaxTries
      <4>1. 0 \in 0 .. MaxTries /\ "write" \in Faults
        BY Constants DEF Faults
      <4>2. tries' = tries \/ tries' = 0
        BY <2>2 DEF KeyAndLogin
      <4>3. pc' \in {"idle", "await"} /\ (ret' = ret \/ ret' \in {-7, -8})
        BY <2>2 DEF KeyAndLogin, Return
      <4>4. faults' = faults \/ faults' = faults \cup {"write"}
        BY <2>2 DEF KeyAndLogin
      <4>. QED BY <1>0, <4>1, <4>2, <4>3, <4>4 DEF TypeOK, Codes
    <3>4. /\ keyed' \in 0 .. MaxConn /\ sendNonce' \in Nat /\ recvNonce' \in Nat
          /\ rpos' \in Nat /\ rx' \in [cmd : ApCmds \cup {"none"}, len : Nat]
      BY <2>2, <1>0 DEF KeyAndLogin, TypeOK, RespLen, NoFrame
    <3>. QED BY <1>0, <2>2, <3>1, <3>2, <3>3, <3>4 DEF TypeOK, KeyAndLogin
  <2>. QED BY <1>3, <2>1, <2>2 DEF LoginHandshake
<1>4. CASE LoginAwait
  <2>0. pc = "await" /\ tries < MaxTries
    BY <1>0, <1>4 DEF LoginAwait, Shape
  <2>1. CASE AwaitFails
    <3>1. RecvFail(LoginCap)
      BY <2>1 DEF AwaitFails
    <3>2. /\ recvNonce' \in Nat /\ rpos' \in Nat
          /\ rx' \in [cmd : ApCmds \cup {"none"}, len : Nat]
          /\ faults' \subseteq Faults
      BY <1>0, <3>1, RecvFailTypes, Constants
    <3>. QED BY <1>0, <2>1, <3>2 DEF TypeOK, AwaitFails, Return, Codes
  <2>2. CASE AwaitPing
    <3>1. PICK h \in Decrypted, whole \in BOOLEAN :
            /\ RecvOk(h, LoginCap, IF whole THEN {} ELSE {"write"})
            /\ up' = Append(up, NextFrame("PONG", whole))
      BY <2>2 DEF AwaitPing
    <3>2. (IF whole THEN {} ELSE {"write"}) \in SUBSET Faults
      BY DEF Faults
    <3>3. h \in Header
      BY <1>0, DecryptedHeader
    <3>4. /\ recvNonce' \in Nat /\ rpos' \in Nat
          /\ rx' \in [cmd : ApCmds \cup {"none"}, len : Nat]
          /\ faults' \subseteq Faults
      BY <1>0, <3>1, <3>2, <3>3, RecvOkTypes, Constants
    <3>5. up' \in Seq(UpMsg)
      BY <1>0, <3>1 DEF TypeOK, NextFrame, Cipher, UpMsg, UpKinds
    <3>6. sendNonce' \in Nat /\ used' \subseteq (0 .. MaxConn) \X Nat
      BY <1>0, <2>2 DEF TypeOK, AwaitPing, SendTakesNonce
    <3>7. tries' \in 0 .. MaxTries /\ pc' \in {"idle", "await"} /\ ret' \in Codes
      BY <1>0, <2>0, <2>2, Constants DEF TypeOK, AwaitPing, NextTry, Return, Codes
    <3>. QED BY <1>0, <2>2, <3>4, <3>5, <3>6, <3>7 DEF TypeOK, AwaitPing
  <2>3. CASE AwaitOther
    <3>1. PICK h \in Decrypted : RecvOk(h, LoginCap, {})
      BY <2>3 DEF AwaitOther
    <3>2. h \in Header /\ {} \in SUBSET Faults
      BY <1>0, DecryptedHeader
    <3>3. /\ recvNonce' \in Nat /\ rpos' \in Nat
          /\ rx' \in [cmd : ApCmds \cup {"none"}, len : Nat]
          /\ faults' \subseteq Faults
      BY <1>0, <3>1, <3>2, RecvOkTypes, Constants
    <3>4. tries' \in 0 .. MaxTries /\ pc' \in {"idle", "await"} /\ ret' \in Codes
      BY <1>0, <2>0, <2>3, Constants DEF TypeOK, AwaitOther, NextTry, Return, Codes
    <3>. QED BY <1>0, <2>3, <3>3, <3>4 DEF TypeOK, AwaitOther
  <2>4. CASE AwaitVerdict
    <3>1. PICK h \in Decrypted : RecvOk(h, LoginCap, {})
      BY <2>4 DEF AwaitVerdict
    <3>2. h \in Header /\ {} \in SUBSET Faults
      BY <1>0, DecryptedHeader
    <3>3. /\ recvNonce' \in Nat /\ rpos' \in Nat
          /\ rx' \in [cmd : ApCmds \cup {"none"}, len : Nat]
          /\ faults' \subseteq Faults
      BY <1>0, <3>1, <3>2, RecvOkTypes, Constants
    <3>4. /\ connected' \in BOOLEAN /\ welcome' \in {"none", "frame", "garbage"}
          /\ pc' = "idle" /\ ret' \in Codes
      BY <1>0, <2>4 DEF TypeOK, AwaitVerdict, Return, Codes
    <3>. QED BY <1>0, <2>4, <3>3, <3>4 DEF TypeOK, AwaitVerdict
  <2>. QED BY <1>4, <2>1, <2>2, <2>3, <2>4 DEF LoginAwait
<1>5. CASE mercury_send
  <2>1. up' \in Seq(UpMsg)
    BY <1>0, <1>5 DEF TypeOK, mercury_send, NextFrame, Cipher, UpMsg, UpKinds
  <2>2. sendNonce' \in Nat /\ used' \subseteq (0 .. MaxConn) \X Nat
    BY <1>0, <1>5 DEF TypeOK, mercury_send, SendTakesNonce
  <2>. QED BY <1>0, <1>5, <2>1, <2>2 DEF TypeOK, mercury_send, Faults
<1>6. CASE mercury_recv
  <2>1. PICK cap \in Caps : RecvFail(cap) \/ \E h \in Decrypted : RecvOk(h, cap, {})
    BY <1>6 DEF mercury_recv
  <2>2. cap \in Nat /\ Decrypted \subseteq Header /\ {} \in SUBSET Faults
    BY <1>0, Constants, DecryptedHeader
  <2>3. /\ recvNonce' \in Nat /\ rpos' \in Nat
        /\ rx' \in [cmd : ApCmds \cup {"none"}, len : Nat]
        /\ faults' \subseteq Faults
    BY <1>0, <2>1, <2>2, RecvFailTypes, RecvOkTypes
  <2>. QED BY <1>0, <1>6, <2>3 DEF TypeOK, mercury_recv
<1>7. CASE ApHello
  BY <1>0, <1>7 DEF TypeOK, ApHello
<1>8. CASE ApResponse
  BY <1>0, <1>8 DEF TypeOK, ApResponse
<1>9. CASE ApReceive
  <2>1. frames' \in Seq(ApFrame)
    <3>1. CASE \E cmd \in ApCmds : ap = "login" /\ Push(cmd)
      <4>1. resp # "none" /\ UNCHANGED resp
        BY <1>0, <1>9, <3>1 DEF Shape, ApReceive
      <4>. QED BY <1>0, <3>1, <4>1, PushExtends
    <3>2. CASE UNCHANGED frames
      BY <1>0, <3>2 DEF TypeOK
    <3>. QED BY <1>9, <3>1, <3>2 DEF ApReceive, ApCmds
  <2>2. up' \in Seq(UpMsg) /\ apNonce' \in Nat
    BY <1>0, <1>9 DEF TypeOK, ApReceive
  <2>. QED BY <1>0, <1>9, <2>1, <2>2 DEF TypeOK, ApReceive
<1>10. CASE ApSend
  <2>1. resp # "none" /\ UNCHANGED resp
    BY <1>0, <1>10 DEF Shape, ApSend
  <2>2. frames' \in Seq(ApFrame)
    BY <1>0, <1>10, <2>1, PushExtends DEF ApSend, ApCmds
  <2>. QED BY <1>0, <1>10, <2>2 DEF TypeOK, ApSend
<1>. QED BY <1>1, <1>2, <1>3, <1>4, <1>5, <1>6, <1>7, <1>8, <1>9, <1>10
         DEF Next, Client, AccessPoint

\* Every step keeps the session, the caller and the connection together.
LEMMA NextShape ==
  ASSUME IInv, Next
  PROVE  Shape'
<1>. USE DEF session, caller, network, history
<1>0. TypeOK /\ Shape
  BY DEF IInv
<1>1. CASE mercury_init \/ mercury_disconnect \/ mercury_destroy
  BY <1>0, <1>1 DEF TypeOK, Shape, mercury_init, mercury_disconnect, mercury_destroy, CloseSocket
<1>2. CASE mercury_login5
  <2>1. CASE LoginRefused
    BY <1>0, <1>2, <2>1 DEF TypeOK, Shape, LoginRefused, Return
  <2>2. CASE ConnectFails
    BY <1>0, <1>2, <2>2 DEF TypeOK, Shape, ConnectFails, Return
  <2>3. CASE ConnectAndHello
    <3>1. /\ conn' = conn + 1 /\ sock' = conn' /\ keyed' = keyed /\ keyed < conn'
          /\ live' /\ ap' = "hello" /\ resp' = "none" /\ frames' = <<>>
          /\ pc' \in {"idle", "apresponse"}
      BY <1>0, <1>2, <2>3 DEF TypeOK, Shape, mercury_login5, ConnectAndHello, Return
    <3>. QED BY <1>0, <3>1 DEF TypeOK, Shape
  <2>. QED BY <1>2, <2>1, <2>2, <2>3 DEF mercury_login5
<1>3. CASE LoginHandshake
  <2>1. CASE ApResponseFails
    BY <1>0, <1>3, <2>1 DEF TypeOK, Shape, LoginHandshake, ApResponseFails, Return
  <2>2. CASE KeyAndLogin
    <3>1. /\ keyed' \in {keyed, sock} /\ resp = "dh" /\ sock = conn
          /\ UNCHANGED <<live, sock, conn, resp, ap, frames>>
          /\ pc' # "idle" => pc' = "await" /\ keyed' = sock /\ tries' = 0
          /\ pc' \in {"idle", "await"}
      BY <1>0, <1>3, <2>2 DEF Shape, LoginHandshake, KeyAndLogin, Return
    <3>2. live /\ conn > 0 /\ ap # "hello"
      BY <1>0, <1>3, <3>1 DEF Shape, LoginHandshake
    <3>. QED BY <1>0, <3>1, <3>2, Constants DEF TypeOK, Shape
  <2>. QED BY <1>3, <2>1, <2>2 DEF LoginHandshake
<1>4. CASE LoginAwait
  <2>1. /\ UNCHANGED <<live, sock, keyed, conn, resp, ap, frames>>
        /\ pc' # "idle" => pc' = "await" /\ tries' < MaxTries
        /\ pc' \in {"idle", "await"}
    BY <1>0, <1>4 DEF TypeOK, Shape, LoginAwait, AwaitFails, AwaitPing, AwaitOther,
                      AwaitVerdict, NextTry, Return
  <2>. QED BY <1>0, <1>4, <2>1 DEF Shape, LoginAwait
<1>5. CASE mercury_send \/ mercury_recv
  BY <1>0, <1>5 DEF Shape, mercury_send, mercury_recv
<1>6. CASE ApHello \/ ApResponse \/ ApReceive \/ ApSend
  BY <1>0, <1>6 DEF TypeOK, Shape, ApHello, ApResponse, ApReceive, ApSend
<1>. QED BY <1>1, <1>2, <1>3, <1>4, <1>5, <1>6 DEF Next, Client, AccessPoint

\* Every step keeps the access point's frames in one piece.
LEMMA NextContiguous ==
  ASSUME IInv, Next
  PROVE  Contiguous'
<1>. USE DEF session, caller, network, history
<1>0. TypeOK /\ Shape /\ Contiguous
  BY DEF IInv
<1>1. CASE frames' = frames
  BY <1>0, <1>1 DEF Contiguous, Edge
<1>2. CASE frames' = <<>>
  BY <1>2 DEF Contiguous
<1>3. CASE ApReceive \/ ApSend
  <2>1. resp # "none" /\ UNCHANGED resp
    BY <1>0, <1>3 DEF Shape, ApReceive, ApSend
  <2>2. frames' = frames \/ \E cmd \in ApCmds : Push(cmd)
    BY <1>3 DEF ApReceive, ApSend, ApCmds
  <2>. QED BY <1>0, <1>1, <2>1, <2>2, PushExtends
<1>4. Next => frames' = frames \/ frames' = <<>> \/ ApReceive \/ ApSend
  BY DEF Next, Client, AccessPoint, mercury_init, mercury_disconnect,
         mercury_destroy, mercury_login5, LoginRefused, ConnectFails,
         ConnectAndHello, LoginHandshake, ApResponseFails, KeyAndLogin,
         LoginAwait, AwaitFails, AwaitPing, AwaitOther, AwaitVerdict,
         mercury_send, mercury_recv, ApHello, ApResponse
<1>. QED BY <1>1, <1>2, <1>3, <1>4

\* What a step can do to the send cipher: nothing, take the next nonce, start
\* over under new keys, or lose the keys with the session.
SendStep ==
  \/ UNCHANGED <<keyed, sendNonce, used>>
  \/ keyed' = keyed /\ SendTakesNonce
  \/ /\ pc = "apresponse" /\ keyed' = sock
     /\ sendNonce' = 1 /\ used' = used \cup {<<sock, 0>>}
  \/ keyed' = 0 /\ UNCHANGED used

LEMMA NextSendStep == Next => SendStep
BY DEF SendStep, session, caller, network, history,
       Next, Client, AccessPoint, mercury_init, mercury_disconnect,
       mercury_destroy, mercury_login5, LoginRefused, ConnectFails,
       ConnectAndHello, LoginHandshake, ApResponseFails, KeyAndLogin,
       LoginAwait, AwaitFails, AwaitPing, AwaitOther, AwaitVerdict,
       mercury_send, mercury_recv, ApHello, ApResponse, ApReceive, ApSend

\* No step sends a frame under keys still to be agreed.
LEMMA NextKeysUnused ==
  ASSUME IInv, Next
  PROVE  KeysUnused'
<1>0. TypeOK /\ Shape /\ KeysUnused
  BY DEF IInv
<1>1. \A u \in used' : u \in used \/ u[1] \in {keyed, sock}
  BY NextSendStep DEF SendStep, SendTakesNonce
<1>2. conn' = conn \/ (conn' = conn + 1 /\ used' = used)
  BY DEF session, caller, network, history,
         Next, Client, AccessPoint, mercury_init, mercury_disconnect,
         mercury_destroy, mercury_login5, LoginRefused, ConnectFails,
         ConnectAndHello, LoginHandshake, ApResponseFails, KeyAndLogin,
         LoginAwait, AwaitFails, AwaitPing, AwaitOther, AwaitVerdict,
         mercury_send, mercury_recv, ApHello, ApResponse, ApReceive, ApSend
<1>3. pc' = "apresponse" =>
        used' = used /\ (conn' = conn + 1 \/ (pc = "apresponse" /\ conn' = conn))
  BY DEF session, caller, network, history,
         Next, Client, AccessPoint, mercury_init, mercury_disconnect,
         mercury_destroy, mercury_login5, LoginRefused, ConnectFails,
         ConnectAndHello, LoginHandshake, ApResponseFails, KeyAndLogin,
         LoginAwait, AwaitFails, AwaitPing, AwaitOther, AwaitVerdict, NextTry, Return,
         mercury_send, mercury_recv, ApHello, ApResponse, ApReceive, ApSend
<1>4. \A u \in used' : u[1] <= conn'
  <2>1. \A u \in used : u[1] <= conn /\ u[1] \in Int
    BY <1>0 DEF KeysUnused, TypeOK
  <2>2. keyed <= conn /\ sock <= conn
    BY <1>0 DEF Shape, TypeOK
  <2>3. \A u \in used' : u[1] <= conn
    BY <1>1, <2>1, <2>2
  <2>. QED BY <1>0, <1>2, <2>1, <2>3 DEF TypeOK
<1>5. ASSUME pc' = "apresponse" PROVE \A u \in used' : u[1] < conn'
  <2>1. \A u \in used : u[1] <= conn /\ u[1] \in Int
    BY <1>0 DEF KeysUnused, TypeOK
  <2>. QED BY <1>0, <1>3, <1>5, <2>1 DEF KeysUnused, TypeOK
<1>. QED BY <1>4, <1>5 DEF KeysUnused

\* Every step leaves the next nonce fresh.
LEMMA NextNonceFresh ==
  ASSUME IInv, Next
  PROVE  SendNonceFresh'
<1>0. TypeOK /\ Shape /\ KeysUnused /\ SendNonceFresh
  BY DEF IInv
<1>1. CASE UNCHANGED <<keyed, sendNonce, used>>
  BY <1>0, <1>1 DEF SendNonceFresh
<1>2. CASE keyed' = keyed /\ SendTakesNonce
  <2>1. SUFFICES ASSUME keyed # 0, NEW u \in used', u[1] = keyed
                 PROVE  u[2] < sendNonce'
    BY <1>2 DEF SendNonceFresh
  <2>2. CASE u \in used
    <3>1. u[2] < sendNonce /\ u[2] \in Nat
      BY <1>0, <2>1, <2>2 DEF SendNonceFresh, TypeOK
    <3>. QED BY <1>0, <1>2, <3>1 DEF SendTakesNonce, TypeOK
  <2>3. CASE u = <<keyed, sendNonce>>
    BY <1>0, <1>2, <2>3 DEF SendTakesNonce, TypeOK
  <2>. QED BY <1>2, <2>2, <2>3 DEF SendTakesNonce
<1>3. CASE /\ pc = "apresponse" /\ keyed' = sock
           /\ sendNonce' = 1 /\ used' = used \cup {<<sock, 0>>}
  <2>1. sock = conn /\ \A u \in used : u[1] < conn /\ u[1] \in Int
    BY <1>0, <1>3 DEF Shape, KeysUnused, TypeOK
  <2>2. \A u \in used : u[1] # sock
    BY <1>0, <2>1 DEF TypeOK
  <2>. QED BY <1>3, <2>2 DEF SendNonceFresh
<1>4. CASE keyed' = 0 /\ UNCHANGED used
  BY <1>4 DEF SendNonceFresh
<1>. QED BY <1>1, <1>2, <1>3, <1>4, NextSendStep DEF SendStep

\* Every step leaves the reader in step with the stream.
LEMMA NextInSync ==
  ASSUME IInv, Next
  PROVE  ReceiveInSync'
<1>. USE DEF session, caller, network, history
<1>0. TypeOK /\ Shape /\ Contiguous /\ ReceiveInSync
  BY DEF IInv
<1>1. CASE UNCHANGED <<keyed, sock, frames, recvNonce, rpos, faults>>
  BY <1>0, <1>1 DEF ReceiveInSync, Edge
<1>2. CASE sock' = 0 \/ keyed' # sock'
  BY <1>2 DEF ReceiveInSync
<1>3. CASE mercury_login5
  <2>1. CASE LoginRefused
    BY <1>1, <2>1 DEF LoginRefused
  <2>2. CASE ConnectFails
    BY <1>2, <2>2 DEF ConnectFails
  <2>3. CASE ConnectAndHello
    <3>1. sock' = conn + 1 /\ keyed' = keyed /\ keyed <= conn
      BY <1>0, <2>3 DEF Shape, ConnectAndHello
    <3>2. keyed' # sock'
      BY <1>0, <3>1 DEF TypeOK
    <3>. QED BY <1>2, <3>2
  <2>. QED BY <1>3, <2>1, <2>2, <2>3 DEF mercury_login5
<1>4. CASE LoginHandshake
  <2>0. keyed < conn /\ sock = conn
    BY <1>0, <1>4 DEF LoginHandshake, Shape
  <2>1. keyed # sock
    BY <1>0, <2>0 DEF TypeOK
  <2>2. CASE UNCHANGED <<keyed, sock>>
    BY <1>2, <2>1, <2>2
  <2>3. CASE KeyAndLogin /\ recvNonce' = 0 /\ rpos' = RespLen
    BY <1>0, <2>3 DEF ReceiveInSync, Edge, KeyAndLogin, TypeOK
  <2>. QED BY <1>4, <2>2, <2>3 DEF LoginHandshake, ApResponseFails, KeyAndLogin
<1>5. CASE LoginAwait
  <2>1. UNCHANGED <<keyed, sock, frames>>
    BY <1>5 DEF LoginAwait, AwaitFails, AwaitPing, AwaitOther, AwaitVerdict
  <2>2. CASE RecvFail(LoginCap)
    BY <1>0, <2>1, <2>2, RecvFailInSync, Constants
  <2>3. CASE \E h \in Decrypted, more \in SUBSET Faults : RecvOk(h, LoginCap, more)
    BY <1>0, <2>1, <2>3, RecvOkInSync, Constants
  <2>4. \A whole \in BOOLEAN : (IF whole THEN {} ELSE {"write"}) \in SUBSET Faults
    BY DEF Faults
  <2>5. CASE AwaitPing
    BY <2>3, <2>4, <2>5 DEF AwaitPing
  <2>6. CASE AwaitFails \/ AwaitOther \/ AwaitVerdict
    BY <2>2, <2>3, <2>6 DEF AwaitFails, AwaitOther, AwaitVerdict
  <2>. QED BY <1>5, <2>5, <2>6 DEF LoginAwait
<1>6. CASE mercury_send
  <2>1. UNCHANGED <<keyed, sock, frames, recvNonce, rpos>>
    BY <1>6 DEF mercury_send
  <2>2. faults' = faults \/ faults' = faults \cup {"write"}
    BY <1>6 DEF mercury_send
  <2>3. faults' \cap {"short", "over"} = faults \cap {"short", "over"}
    BY <2>2
  <2>. QED BY <1>0, <2>1, <2>3 DEF ReceiveInSync, Edge
<1>7. CASE mercury_recv
  <2>1. PICK cap \in Caps : RecvFail(cap) \/ \E h \in Decrypted : RecvOk(h, cap, {})
    BY <1>7 DEF mercury_recv
  <2>2. cap \in Nat /\ UNCHANGED <<keyed, sock, frames>>
    BY <1>7, Constants DEF mercury_recv
  <2>. QED BY <1>0, <2>1, <2>2, RecvOkInSync, RecvFailInSync
<1>8. CASE ApReceive \/ ApSend
  <2>1. UNCHANGED <<keyed, sock, recvNonce, rpos, faults, resp>> /\ resp # "none"
    BY <1>0, <1>8 DEF ApReceive, ApSend, Shape
  <2>2. CASE frames' = frames
    BY <1>1, <2>1, <2>2
  <2>3. CASE \E cmd \in ApCmds : Push(cmd)
    <3>1. /\ Len(frames') = Len(frames) + 1
          /\ \A k \in 0 .. Len(frames) : Edge(k)' = Edge(k)
      BY <1>0, <2>1, <2>3, PushExtends
    <3>2. SUFFICES ASSUME keyed = sock, sock # 0, faults \cap {"short", "over"} = {}
                   PROVE  recvNonce <= Len(frames') /\ rpos = Edge(recvNonce)'
      BY <2>1 DEF ReceiveInSync, Edge
    <3>3. recvNonce \in 0 .. Len(frames) /\ rpos = Edge(recvNonce)
      BY <1>0, <3>2 DEF ReceiveInSync, TypeOK
    <3>. QED BY <2>1, <3>1, <3>3 DEF TypeOK, Edge
  <2>. QED BY <1>8, <2>2, <2>3 DEF ApReceive, ApSend, ApCmds
<1>9. CASE mercury_init \/ mercury_disconnect \/ mercury_destroy
  BY <1>2, <1>9 DEF mercury_init, mercury_disconnect, mercury_destroy, CloseSocket
<1>10. CASE ApHello \/ ApResponse
  BY <1>1, <1>10 DEF ApHello, ApResponse
<1>. QED BY <1>3, <1>4, <1>5, <1>6, <1>7, <1>8, <1>9, <1>10
         DEF Next, Client, AccessPoint

-----------------------------------------------------------------------------
(* The theorems.                                                           *)

\* A fresh program satisfies the invariant.
LEMMA InitInv == Init => IInv
<1>. SUFFICES ASSUME Init PROVE IInv
  OBVIOUS
<1>1. TypeOK
  <2>1. 0 \in 0 .. MaxConn /\ 0 \in 0 .. MaxTries
    BY Constants
  <2>2. NoFrame \in [cmd : ApCmds \cup {"none"}, len : Nat]
    BY DEF NoFrame
  <2>3. <<>> \in Seq(UpMsg) /\ <<>> \in Seq(ApFrame)
    OBVIOUS
  <2>. QED BY <2>1, <2>2, <2>3 DEF Init, TypeOK, Codes
<1>2. Shape /\ Contiguous /\ KeysUnused /\ SendNonceFresh /\ ReceiveInSync
  BY Constants DEF Init, Shape, Contiguous, KeysUnused, SendNonceFresh, ReceiveInSync
<1>. QED BY <1>1, <1>2 DEF IInv

\* A step that changes nothing keeps it.
LEMMA StutterInv == IInv /\ UNCHANGED vars => IInv'
BY DEF vars, session, caller, network, history, IInv, TypeOK, Shape, Contiguous,
       Edge, KeysUnused, SendNonceFresh, ReceiveInSync

\* The session, the access point and the stream keep the invariant whatever the
\* interleaving, the faults and the bounds (mercury.c).
THEOREM Invariance == Spec => []IInv
<1>1. IInv /\ Next => IInv'
  BY NextTypeOK, NextShape, NextContiguous, NextKeysUnused, NextNonceFresh, NextInSync
     DEF IInv
<1>2. IInv /\ [Next]_vars => IInv'
  BY <1>1, StutterInv
<1>. QED BY InitInv, <1>2, PTL DEF Spec

\* Every variable always has its type.
THEOREM TypeCorrect == Spec => []TypeOK
<1>1. IInv => TypeOK
  BY DEF IInv
<1>. QED BY Invariance, <1>1, PTL

\* No nonce is used twice under the same keys, over any number of frames, failed
\* writes and logins (mercury_send, mercury_login5).
THEOREM NonceNeverReused == Spec => []SendNonceFresh
<1>1. IInv => SendNonceFresh
  BY DEF IInv
<1>. QED BY Invariance, <1>1, PTL

\* For frames of any length and buffers of any capacity, a receiver that was not
\* cut short or overrun stands at the frame its nonce belongs to (mercury_recv).
THEOREM ReaderInSync == Spec => []ReceiveInSync
<1>1. IInv => ReceiveInSync
  BY DEF IInv
<1>. QED BY Invariance, <1>1, PTL

-----------------------------------------------------------------------------
(* The verdict of the access point, and what is on its way to it.          *)

\* A verdict in the stream is the access point's: it has granted the login, and
\* may have refused a later frame, or it has denied it and reads no more.
Verdicts ==
  \A k \in 1 .. Len(frames) :
    /\ frames[k].cmd = "AUTH_OK" => ap \in {"auth", "rejected"}
    /\ frames[k].cmd = "AUTH_FAIL" => ap = "denied"

\* A login that still waits has lost nothing, and counts the frames it looked at.
Waiting ==
  /\ pc = "apresponse" => faults = {}
  /\ pc = "await" => "short" \notin faults /\ recvNonce = tries

\* A login that gave up on its budget, as GrantMissedOnlyByBudget has it, before
\* the access point has decided as well.
GaveUp ==
  (pc = "idle" /\ ret = -10 /\ keyed = conn /\ ap # "denied" /\ "over" \notin faults)
    => recvNonce >= MaxTries

\* Messages ahead of the frames on their way to the access point.
Ahead == IF ap = "response" THEN 1 ELSE 0

\* What is on its way is what the access point expects: the rest of the handshake,
\* and then frames under its keys, whole and with the nonces from apNonce on.
UpInOrder ==
  /\ pc = "apresponse" =>
       /\ ap \in {"hello", "response"} /\ apNonce = 0
       /\ up = IF ap = "hello" THEN <<Plain("hello")>> ELSE <<>>
  /\ (keyed = conn /\ conn # 0 /\ "write" \notin faults) =>
       /\ ap # "rejected"
       /\ ap = "response" => up # <<>> /\ Head(up).kind = "response"
       /\ ap \in {"response", "login", "auth"} =>
            /\ sendNonce = apNonce + Len(up) - Ahead
            /\ \A i \in 1 .. Len(up) : i > Ahead =>
                 up[i].whole /\ up[i].key = conn /\ up[i].nonce = apNonce + i - 1 - Ahead

\* A session that is logged in once holds what that login gave it.
OneLogin ==
  /\ connected => ret = 0
  /\ pc # "idle" => ret = 1
  /\ (ret = 1 /\ pc = "idle") \/ ~live => sock = 0
  /\ NoSocketLeak
  /\ ConnectedMeansGranted

\* What Push leaves of the frames, and what it adds.
LEMMA PushAppends ==
  ASSUME TypeOK, NEW cmd, Push(cmd)
  PROVE  /\ Len(frames') = Len(frames) + 1
         /\ \A k \in 1 .. Len(frames) : frames'[k] = frames[k]
         /\ frames'[Len(frames) + 1].cmd = cmd
<1>1. PICK n \in BodyLens :
        frames' = Append(frames, [cmd |-> cmd, len |-> n, at |-> Written])
  BY DEF Push
<1>. QED BY <1>1 DEF TypeOK

\* Every step leaves the verdicts the access point's.
LEMMA NextVerdicts ==
  ASSUME IInv, Verdicts, Next
  PROVE  Verdicts'
<1>. USE DEF session, caller, network, history
<1>0. TypeOK /\ Shape
  BY DEF IInv
<1>1. CASE UNCHANGED <<frames, ap>>
  BY <1>1 DEF Verdicts
<1>2. CASE frames' = <<>>
  BY <1>2 DEF Verdicts
<1>3. CASE ApHello
  BY <1>0, <1>2, <1>3 DEF ApHello, Shape
<1>4. CASE ApResponse
  BY <1>4 DEF ApResponse, Verdicts
<1>5. CASE ApReceive \/ ApSend
  <2>1. CASE UNCHANGED frames
    BY <1>5, <2>1 DEF ApReceive, ApSend, Push, Verdicts
  <2>2. ASSUME NEW cmd \in ApCmds, Push(cmd), ap \in {"login", "auth"},
               \/ cmd \in {"PING", "OTHER"} /\ ap' = ap
               \/ cmd = "AUTH_OK" /\ ap = "login" /\ ap' = "auth"
               \/ cmd = "AUTH_FAIL" /\ ap = "login" /\ ap' = "denied"
        PROVE  Verdicts'
    <3>1. \A k \in 1 .. Len(frames) :
            /\ frames[k].cmd # "AUTH_FAIL"
            /\ frames[k].cmd = "AUTH_OK" => ap = "auth"
      BY <2>2 DEF Verdicts
    <3>2. /\ Len(frames') = Len(frames) + 1
          /\ \A k \in 1 .. Len(frames) : frames'[k] = frames[k]
          /\ frames'[Len(frames) + 1].cmd = cmd
      BY <1>0, <2>2, PushAppends
    <3>3. \A k \in 1 .. Len(frames') : k \in 1 .. Len(frames) \/ k = Len(frames) + 1
      BY <1>0, <3>2 DEF TypeOK
    <3>. QED BY <2>2, <3>1, <3>2, <3>3 DEF Verdicts
  <2>. QED BY <1>5, <2>1, <2>2 DEF ApReceive, ApSend, ApCmds
<1>6. Next => \/ UNCHANGED <<frames, ap>> \/ frames' = <<>>
              \/ ApHello \/ ApResponse \/ ApReceive \/ ApSend
  BY DEF Next, Client, AccessPoint, mercury_init, mercury_disconnect,
         mercury_destroy, mercury_login5, LoginRefused, ConnectFails,
         ConnectAndHello, LoginHandshake, ApResponseFails, KeyAndLogin,
         LoginAwait, AwaitFails, AwaitPing, AwaitOther, AwaitVerdict,
         mercury_send, mercury_recv
<1>. QED BY <1>1, <1>2, <1>3, <1>4, <1>5, <1>6

\* Every step of a login that still waits has lost nothing.
LEMMA NextWaiting ==
  ASSUME IInv, Waiting, Next
  PROVE  Waiting'
<1>. USE DEF session, caller, network, history
<1>0. TypeOK /\ Shape
  BY DEF IInv
<1>1. CASE pc' = "idle"
  BY <1>1 DEF Waiting
<1>2. CASE UNCHANGED <<pc, faults, recvNonce, tries>>
  BY <1>2 DEF Waiting
<1>3. CASE ConnectAndHello
  BY <1>3 DEF Waiting, ConnectAndHello, Return
<1>4. CASE LoginHandshake
  BY <1>1, <1>4 DEF Waiting, LoginHandshake, ApResponseFails, KeyAndLogin, Return
<1>5. CASE LoginAwait
  <2>1. ASSUME NEW h, NEW more, RecvOk(h, LoginCap, more), "short" \notin more, NextTry
        PROVE  Waiting'
    BY <1>0, <1>1, <1>5, <2>1 DEF Waiting, LoginAwait, RecvOk, NextTry, Return, TypeOK
  <2>2. CASE AwaitPing
    <3>1. \A whole \in BOOLEAN : "short" \notin (IF whole THEN {} ELSE {"write"})
      OBVIOUS
    <3>. QED BY <2>1, <2>2, <3>1 DEF AwaitPing
  <2>3. CASE AwaitOther
    BY <2>1, <2>3 DEF AwaitOther
  <2>. QED BY <1>1, <1>5, <2>2, <2>3 DEF LoginAwait, AwaitFails, AwaitVerdict, Return
<1>6. Next => \/ pc' = "idle" \/ UNCHANGED <<pc, faults, recvNonce, tries>>
              \/ ConnectAndHello \/ LoginHandshake \/ LoginAwait
  BY <1>0 DEF Shape, Next, Client, AccessPoint, mercury_init, mercury_disconnect,
         mercury_destroy, mercury_login5, LoginRefused, ConnectFails, Return,
         mercury_send, mercury_recv, ApHello, ApResponse, ApReceive, ApSend
<1>. QED BY <1>1, <1>2, <1>3, <1>4, <1>5, <1>6

\* A verdict that was read whole is the one the access point wrote.
LEMMA VerdictRead ==
  ASSUME IInv, Verdicts, Waiting, pc = "await",
         NEW h \in Decrypted, RecvOk(h, LoginCap, {}), "over" \notin faults'
  PROVE  /\ Aligned
         /\ h.cmd = "AUTH_OK" => ap \in {"auth", "rejected"}
         /\ h.cmd = "AUTH_FAIL" => ap = "denied"
<1>1. TypeOK /\ Shape /\ ReceiveInSync
  BY DEF IInv
<1>2. sock # 0 /\ keyed = sock
  BY <1>1 DEF Shape, TypeOK
<1>3. faults \cap {"short", "over"} = {}
  BY DEF RecvOk, Waiting
<1>4. Size(h, LoginCap) <= Pending /\ LoginCap \in Nat
  BY Constants DEF RecvOk
<1>5. recvNonce + 1 \in 1 .. Len(frames) /\ rpos = Edge(recvNonce)
  BY <1>1, <1>2, <1>3, <1>4, InSyncDecrypts
<1>6. Aligned
  BY <1>1, <1>2, <1>5 DEF Aligned, TypeOK
<1>7. h.cmd = frames[recvNonce + 1].cmd
  BY <1>6 DEF Decrypted
<1>. QED BY <1>5, <1>6, <1>7 DEF Verdicts

\* A failed receive takes no nonce back.
LEMMA RecvFailCounts ==
  ASSUME TypeOK, NEW cap \in Nat, RecvFail(cap)
  PROVE  recvNonce' >= recvNonce /\ faults \subseteq faults'
BY DEF RecvFail, TypeOK

\* Every step leaves a login that gave up with a budget that is spent.
LEMMA NextGaveUp ==
  ASSUME IInv, Verdicts, Waiting, GaveUp, Next
  PROVE  GaveUp'
<1>. USE DEF session, caller, network, history
<1>0. TypeOK /\ Shape
  BY DEF IInv
<1>1. CASE pc' # "idle" \/ ret' # -10
  BY <1>1 DEF GaveUp
<1>2. CASE /\ UNCHANGED <<pc, ret, keyed, conn>>
           /\ ap # "denied" \/ ap' = "denied"
           /\ faults \subseteq faults' /\ recvNonce' >= recvNonce
  <2>1. recvNonce \in Int /\ recvNonce' \in Int /\ MaxTries \in Int
    BY <1>0, NextTypeOK, Constants DEF TypeOK
  <2>. QED BY <1>2, <2>1 DEF GaveUp
<1>3. CASE LoginAwait
  <2>1. ASSUME NEW h, NEW more, RecvOk(h, LoginCap, more), NextTry
        PROVE  GaveUp'
    <3>1. recvNonce' = recvNonce + 1 /\ recvNonce = tries
      BY <1>3, <2>1 DEF RecvOk, Waiting, LoginAwait
    <3>2. pc' = "idle" => tries + 1 >= MaxTries
      BY <1>0, <1>3, <2>1, Constants DEF NextTry, LoginAwait, TypeOK
    <3>. QED BY <3>1, <3>2 DEF GaveUp
  <2>2. CASE AwaitVerdict
    <3>1. PICK h \in Decrypted :
            /\ RecvOk(h, LoginCap, {})
            /\ (h.cmd = "AUTH_OK" /\ Return(0)) \/ (h.cmd = "AUTH_FAIL" /\ Return(-10))
      BY <2>2 DEF AwaitVerdict
    <3>2. ap' = ap
      BY <2>2 DEF AwaitVerdict
    <3>3. "over" \notin faults' /\ h.cmd = "AUTH_FAIL" => ap = "denied"
      BY <1>3, <3>1, VerdictRead DEF LoginAwait
    <3>. QED BY <3>1, <3>2, <3>3 DEF GaveUp, Return
  <2>3. CASE AwaitPing
    BY <2>1, <2>3 DEF AwaitPing
  <2>4. CASE AwaitOther
    BY <2>1, <2>4 DEF AwaitOther
  <2>. QED BY <1>1, <1>3, <2>2, <2>3, <2>4 DEF LoginAwait, AwaitFails, Return
<1>4. CASE mercury_recv
  <2>1. PICK cap \in Caps : RecvFail(cap) \/ \E h \in Decrypted : RecvOk(h, cap, {})
    BY <1>4 DEF mercury_recv
  <2>2. recvNonce' >= recvNonce /\ faults \subseteq faults'
    <3>1. cap \in Nat
      BY Constants
    <3>2. CASE RecvFail(cap)
      BY <1>0, <3>1, <3>2, RecvFailCounts
    <3>3. CASE \E h \in Decrypted : RecvOk(h, cap, {})
      BY <1>0, <3>3 DEF RecvOk, TypeOK
    <3>. QED BY <2>1, <3>2, <3>3
  <2>. QED BY <1>2, <1>4, <2>2 DEF mercury_recv
<1>5. CASE ApHello \/ ApResponse \/ ApReceive \/ ApSend
  BY <1>0, <1>2, <1>5 DEF ApHello, ApResponse, ApReceive, ApSend, TypeOK
<1>6. CASE mercury_init \/ mercury_disconnect \/ mercury_destroy \/ mercury_send
  BY <1>0, <1>1, <1>2, <1>6
     DEF mercury_init, mercury_disconnect, mercury_destroy, mercury_send, TypeOK
<1>7. CASE mercury_login5 \/ LoginHandshake
  <2>1. CASE ConnectAndHello
    BY <1>1, <2>1 DEF ConnectAndHello, Return
  <2>2. CASE LoginRefused \/ ConnectFails
    BY <1>1, <2>2 DEF LoginRefused, ConnectFails, Return
  <2>3. CASE ApResponseFails
    BY <1>1, <2>3 DEF ApResponseFails, Return
  <2>4. CASE KeyAndLogin
    <3>1. pc' = "await" \/ Return(-7) \/ Return(-8)
      BY <2>4, Zenon DEF KeyAndLogin
    <3>. QED BY <1>1, <3>1 DEF Return
  <2>. QED BY <1>7, <2>1, <2>2, <2>3, <2>4 DEF mercury_login5, LoginHandshake
<1>. QED BY <1>3, <1>4, <1>5, <1>6, <1>7 DEF Next, Client, AccessPoint

\* What a message at the end of a sequence leaves as it is.
LEMMA AppendKeeps ==
  ASSUME NEW S, NEW s \in Seq(S), NEW m \in S
  PROVE  /\ Len(Append(s, m)) = Len(s) + 1 /\ Len(s) \in Nat
         /\ \A i \in 1 .. Len(s) : Append(s, m)[i] = s[i]
         /\ Append(s, m)[Len(s) + 1] = m
         /\ s # <<>> => Head(Append(s, m)) = Head(s)
         /\ Append(s, m) # <<>>
<1>1. /\ Len(Append(s, m)) = Len(s) + 1 /\ Len(s) \in Nat
      /\ \A i \in 1 .. Len(s) : Append(s, m)[i] = s[i]
      /\ Append(s, m)[Len(s) + 1] = m
  OBVIOUS
<1>2. Append(s, m) \in Seq(S) /\ Append(s, m) # <<>>
  <2>1. Append(s, m) \in Seq(S)
    OBVIOUS
  <2>2. Len(Append(s, m)) # 0 /\ Len(<<>>) = 0
    BY <1>1
  <2>. QED BY <2>1, <2>2
<1>3. s # <<>> => Head(Append(s, m)) = Append(s, m)[1] /\ Head(s) = s[1] /\ 1 \in 1 .. Len(s)
  BY <1>1, <1>2
<1>. QED BY <1>1, <1>2, <1>3

\* A frame of the client that was written whole joins the others in order.
LEMMA AppendInOrder ==
  ASSUME TypeOK, UpInOrder, NEW kind \in UpKinds, NEW whole \in BOOLEAN,
         SendTakesNonce, up' = Append(up, NextFrame(kind, whole)),
         ~whole => "write" \in faults', faults \subseteq faults',
         UNCHANGED <<keyed, conn, ap, apNonce>>,
         pc' # "apresponse"
  PROVE  UpInOrder'
<1>. SUFFICES ASSUME keyed = conn, conn # 0, "write" \notin faults'
              PROVE  (/\ ap # "rejected"
                      /\ ap = "response" => up # <<>> /\ Head(up).kind = "response"
                      /\ ap \in {"response", "login", "auth"} =>
                           /\ sendNonce = apNonce + Len(up) - Ahead
                           /\ \A i \in 1 .. Len(up) : i > Ahead =>
                                /\ up[i].whole /\ up[i].key = conn
                                /\ up[i].nonce = apNonce + i - 1 - Ahead)'
  BY DEF UpInOrder
<1>1. /\ ap # "rejected"
      /\ ap = "response" => up # <<>> /\ Head(up).kind = "response"
      /\ ap \in {"response", "login", "auth"} =>
           /\ sendNonce = apNonce + Len(up) - Ahead
           /\ \A i \in 1 .. Len(up) : i > Ahead =>
                up[i].whole /\ up[i].key = conn /\ up[i].nonce = apNonce + i - 1 - Ahead
  BY DEF UpInOrder
<1>2. whole = TRUE /\ up \in Seq(UpMsg) /\ sendNonce' = sendNonce + 1
      /\ sendNonce \in Nat /\ apNonce \in Nat
  BY DEF TypeOK, SendTakesNonce
<1>3. Ahead' = Ahead /\ Ahead \in {0, 1}
  BY DEF Ahead
<1>4. /\ Len(up') = Len(up) + 1 /\ Len(up) \in Nat
      /\ \A i \in 1 .. Len(up) : up'[i] = up[i]
      /\ up'[Len(up) + 1] = NextFrame(kind, whole)
      /\ up # <<>> => Head(up') = Head(up)
      /\ up' # <<>>
  <2>1. NextFrame(kind, whole) \in UpMsg
    BY Messages DEF NextFrame, TypeOK
  <2>. DEFINE m == NextFrame(kind, whole)
  <2>2. up \in Seq(UpMsg) /\ m \in UpMsg /\ up' = Append(up, m)
    BY <1>2, <2>1
  <2>. HIDE DEF m
  <2>3. /\ Len(up') = Len(up) + 1 /\ Len(up) \in Nat
        /\ \A i \in 1 .. Len(up) : up'[i] = up[i]
        /\ up'[Len(up) + 1] = m
        /\ up # <<>> => Head(up') = Head(up)
        /\ up' # <<>>
    BY <2>2, AppendKeeps
  <2>. QED BY <2>3 DEF m
<1>5. /\ NextFrame(kind, whole).whole /\ NextFrame(kind, whole).key = conn
      /\ NextFrame(kind, whole).nonce = sendNonce
  BY <1>2 DEF NextFrame, Cipher
<1>6. ASSUME ap \in {"response", "login", "auth"}
      PROVE  /\ sendNonce' = apNonce + Len(up') - Ahead
             /\ \A i \in 1 .. Len(up') : i > Ahead =>
                  /\ up'[i].whole /\ up'[i].key = conn
                  /\ up'[i].nonce = apNonce + i - 1 - Ahead
  <2>1. sendNonce = apNonce + Len(up) - Ahead
    BY <1>1, <1>6
  <2>2. sendNonce' = apNonce + Len(up') - Ahead
    BY <2>1, <1>2, <1>3, <1>4
  <2>3. ASSUME NEW i \in 1 .. Len(up'), i > Ahead
        PROVE  /\ up'[i].whole /\ up'[i].key = conn
               /\ up'[i].nonce = apNonce + i - 1 - Ahead
    <3>1. CASE i = Len(up) + 1
      <4>1. apNonce + i - 1 - Ahead = sendNonce
        BY <3>1, <2>1, <1>2, <1>3, <1>4
      <4>. QED BY <3>1, <4>1, <1>4, <1>5
    <3>2. CASE i # Len(up) + 1
      <4>1. i \in 1 .. Len(up)
        BY <3>2, <1>4
      <4>. QED BY <4>1, <2>3, <1>1, <1>4, <1>6
    <3>. QED BY <3>1, <3>2
  <2>. QED BY <2>2, <2>3
<1>. QED BY <1>1, <1>3, <1>4, <1>6

\* The rest of what is on its way, once the access point has taken the first.
LEMMA TailInOrder ==
  ASSUME TypeOK, NEW s \in Seq(UpMsg), s # <<>>
  PROVE  /\ Tail(s) \in Seq(UpMsg) /\ Len(Tail(s)) = Len(s) - 1 /\ Len(s) \in Nat \ {0}
         /\ \A i \in 1 .. Len(Tail(s)) : Tail(s)[i] = s[i + 1] /\ i + 1 \in 1 .. Len(s)
         /\ Head(s) = s[1] /\ 1 \in 1 .. Len(s)
OBVIOUS

\* Every step leaves what is on its way in the order the access point expects.
LEMMA NextUpInOrder ==
  ASSUME IInv, UpInOrder, Next
  PROVE  UpInOrder'
<1>. USE DEF session, caller, network, history
<1>0. TypeOK /\ Shape
  BY DEF IInv
<1>1. CASE /\ UNCHANGED <<keyed, conn, up, ap, apNonce, sendNonce>> /\ faults \subseteq faults'
           /\ pc' = pc \/ pc' # "apresponse"
  BY <1>1 DEF UpInOrder, Ahead
<1>2. CASE keyed' # conn' \/ conn' = 0
  <2>1. CASE pc' # "apresponse"
    BY <1>2, <2>1 DEF UpInOrder
  <2>2. CASE pc' = "apresponse"
    <3>1. CASE ConnectAndHello
      <4>1. ap' = "hello" /\ apNonce' = 0 /\ up' = <<Plain("hello")>>
        BY <2>2, <3>1 DEF ConnectAndHello, Return
      <4>. QED BY <1>2, <4>1 DEF UpInOrder
    <3>2. CASE ApHello /\ pc = "apresponse"
      <4>1. up = <<Plain("hello")>>
        BY <3>2 DEF ApHello, UpInOrder
      <4>2. up' = <<>> /\ ap' = "response" /\ apNonce' = 0
        BY <3>2, <4>1 DEF ApHello, UpInOrder
      <4>. QED BY <1>2, <4>2 DEF UpInOrder
    <3>3. CASE UNCHANGED <<pc, ap, apNonce, up>>
      BY <1>2, <2>2, <3>3 DEF UpInOrder
    <3>4. pc = "apresponse" => ~ApResponse /\ ~ApReceive
      BY DEF UpInOrder, ApResponse, ApReceive
    <3>5. ConnectAndHello \/ ApHello \/ ApResponse \/ ApReceive
          \/ UNCHANGED <<pc, ap, apNonce, up>>
      BY <2>2, <1>0 DEF Shape, Next, Client, AccessPoint, mercury_init, mercury_disconnect,
         mercury_destroy, mercury_login5, LoginRefused, ConnectFails, Return,
         LoginHandshake, ApResponseFails, KeyAndLogin, LoginAwait, AwaitFails,
         AwaitPing, AwaitOther, AwaitVerdict, NextTry, mercury_send, mercury_recv, ApSend
    <3>6. ApHello \/ ApResponse \/ ApReceive => pc' = pc
      BY DEF ApHello, ApResponse, ApReceive
    <3>. QED BY <2>2, <3>1, <3>2, <3>3, <3>4, <3>5, <3>6
  <2>. QED BY <2>1, <2>2
<1>3. CASE mercury_init
  BY <1>0, <1>2, <1>3 DEF mercury_init, TypeOK
<1>4. CASE mercury_login5
  <2>1. CASE ConnectAndHello
    BY <1>0, <1>2, <2>1 DEF ConnectAndHello, Shape, TypeOK
  <2>. QED BY <1>1, <1>4, <2>1 DEF mercury_login5, LoginRefused, ConnectFails, Return
<1>5. CASE LoginHandshake
  <2>0. pc = "apresponse" /\ keyed < conn /\ sock = conn /\ conn > 0
    BY <1>0, <1>5 DEF LoginHandshake, Shape
  <2>1. CASE UNCHANGED <<keyed, conn>>
    BY <1>0, <1>2, <2>0, <2>1 DEF TypeOK
  <2>2. ASSUME NEW whole \in BOOLEAN, KeyAndLogin, keyed' = sock, sendNonce' = 1,
               up' = up \o <<Plain("response"), Cipher("LOGIN", sock, 0, whole)>>,
               IF whole THEN pc' = "await" ELSE pc' = "idle" /\ "write" \in faults'
        PROVE  UpInOrder'
    <3>1. ap = "response" /\ up = <<>> /\ apNonce = 0 /\ UNCHANGED <<conn, ap, apNonce>>
      BY <1>0, <2>0, <2>2 DEF UpInOrder, Shape, KeyAndLogin
    <3>2. up' = <<Plain("response"), Cipher("LOGIN", sock, 0, whole)>>
      BY <2>2, <3>1
    <3>3. /\ Len(up') = 2 /\ up' # <<>> /\ Head(up').kind = "response"
          /\ up'[2].key = conn /\ up'[2].nonce = 0 /\ up'[2].whole = whole
      BY <2>0, <3>2 DEF Plain, Cipher
    <3>4. Ahead' = 1 /\ pc' # "apresponse" /\ ap' = "response" /\ apNonce' = 0
      BY <2>2, <3>1 DEF Ahead
    <3>. QED BY <2>2, <3>1, <3>3, <3>4 DEF UpInOrder
  <2>. QED BY <1>5, <2>1, <2>2
           DEF LoginHandshake, ApResponseFails, KeyAndLogin, Return
<1>6. CASE LoginAwait
  <2>1. CASE AwaitPing
    <3>1. PICK h \in Decrypted, whole \in BOOLEAN :
            /\ RecvOk(h, LoginCap, IF whole THEN {} ELSE {"write"})
            /\ up' = Append(up, NextFrame("PONG", whole))
      BY <2>1 DEF AwaitPing
    <3>2. faults \subseteq faults' /\ (~whole => "write" \in faults')
      BY <3>1 DEF RecvOk
    <3>3. SendTakesNonce /\ UNCHANGED <<keyed, conn, ap, apNonce>> /\ pc' # "apresponse"
      BY <1>6, <2>1 DEF AwaitPing, LoginAwait, NextTry, Return
    <3>. QED BY <1>0, <3>1, <3>2, <3>3, AppendInOrder DEF UpKinds, RecvOk
  <2>2. CASE AwaitFails
    BY <1>0, <1>1, <2>2, RecvFailCounts, Constants DEF AwaitFails, Return
  <2>3. CASE AwaitOther
    BY <1>1, <1>6, <2>3 DEF AwaitOther, LoginAwait, RecvOk, NextTry, Return
  <2>4. CASE AwaitVerdict
    BY <1>1, <2>4 DEF AwaitVerdict, RecvOk, Return
  <2>. QED BY <1>6, <2>1, <2>2, <2>3, <2>4 DEF LoginAwait
<1>7. CASE mercury_send
  <2>1. PICK whole \in BOOLEAN :
          /\ up' = Append(up, NextFrame("REQUEST", whole))
          /\ faults' = IF whole THEN faults ELSE faults \cup {"write"}
    BY <1>7 DEF mercury_send
  <2>2. SendTakesNonce /\ UNCHANGED <<keyed, conn, ap, apNonce>> /\ pc' # "apresponse"
    BY <1>7 DEF mercury_send
  <2>3. faults \subseteq faults' /\ (~whole => "write" \in faults')
    BY <2>1
  <2>. QED BY <1>0, <2>1, <2>2, <2>3, AppendInOrder DEF UpKinds
<1>8. CASE mercury_recv
  <2>1. faults \subseteq faults'
    BY <1>0, <1>8, RecvFailCounts, Constants DEF mercury_recv, RecvOk
  <2>. QED BY <1>1, <1>8, <2>1 DEF mercury_recv
<1>9. CASE mercury_disconnect \/ mercury_destroy \/ ApSend
  BY <1>1, <1>9 DEF mercury_disconnect, mercury_destroy, ApSend
<1>10. CASE ApHello
  BY <1>0, <1>2, <1>10 DEF ApHello, Shape, TypeOK
<1>11. CASE ApResponse \/ ApReceive
  <2>1. CASE keyed = conn /\ conn # 0 /\ "write" \notin faults
    <3>0. /\ UNCHANGED <<pc, keyed, conn, sendNonce, faults>> /\ up' = Tail(up)
          /\ ap \in {"response", "login", "auth"}
          /\ up # <<>> /\ up \in Seq(UpMsg) /\ pc # "apresponse"
      BY <1>0, <1>11, <2>1 DEF ApResponse, ApReceive, TypeOK, Shape
    <3>1. /\ sendNonce = apNonce + Len(up) - Ahead
          /\ \A i \in 1 .. Len(up) : i > Ahead =>
               up[i].whole /\ up[i].key = conn /\ up[i].nonce = apNonce + i - 1 - Ahead
          /\ ap = "response" => Head(up).kind = "response"
      BY <2>1, <3>0 DEF UpInOrder
    <3>2. /\ Len(up') = Len(up) - 1 /\ Len(up) \in Nat \ {0}
          /\ \A i \in 1 .. Len(up') : up'[i] = up[i + 1] /\ i + 1 \in 1 .. Len(up)
          /\ Head(up) = up[1] /\ 1 \in 1 .. Len(up)
      BY <1>0, <3>0, TailInOrder
    <3>3. apNonce \in Nat /\ sendNonce \in Nat
      BY <1>0 DEF TypeOK
    <3>4. ASSUME NEW d \in {0, 1}, Ahead = d, Ahead' = 0, apNonce' = apNonce + 1 - d,
                 ap' \in {"login", "auth", "denied"}
          PROVE  UpInOrder'
      <4>1. sendNonce' = apNonce' + Len(up') - 0
        BY <3>0, <3>1, <3>2, <3>3, <3>4
      <4>2. ASSUME NEW i \in 1 .. Len(up')
            PROVE  up'[i].whole /\ up'[i].key = conn /\ up'[i].nonce = apNonce' + i - 1 - 0
        <5>1. i + 1 \in 1 .. Len(up) /\ i + 1 > d /\ up'[i] = up[i + 1]
          BY <3>2
        <5>2. up[i + 1].whole /\ up[i + 1].key = conn
              /\ up[i + 1].nonce = apNonce + (i + 1) - 1 - d
          BY <3>1, <3>4, <5>1
        <5>3. apNonce + (i + 1) - 1 - d = apNonce' + i - 1 - 0
          BY <3>3, <3>4
        <5>. QED BY <5>1, <5>2, <5>3
      <4>. QED BY <3>0, <3>4, <4>1, <4>2 DEF UpInOrder
    <3>5. CASE ApResponse
      <4>1. ap = "response" /\ ap' = "login" /\ apNonce' = apNonce
        BY <3>1, <3>5 DEF ApResponse
      <4>. QED BY <3>3, <3>4, <4>1 DEF Ahead
    <3>6. CASE ApReceive
      <4>1. Ahead = 0 /\ ap \in {"login", "auth"}
        BY <3>6 DEF ApReceive, Ahead
      <4>2. Head(up).whole /\ Head(up).key = conn /\ Head(up).nonce = apNonce
        BY <3>1, <3>2, <3>3, <4>1
      <4>3. ap' \in {"login", "auth", "denied"} /\ apNonce' = apNonce + 1
        BY <3>6, <4>2 DEF ApReceive, ApAccepts
      <4>4. Ahead' = 0
        BY <4>3 DEF Ahead
      <4>. QED BY <3>3, <3>4, <4>1, <4>3, <4>4
    <3>. QED BY <1>11, <3>5, <3>6
  <2>2. CASE ~(keyed = conn /\ conn # 0 /\ "write" \notin faults)
    <3>1. UNCHANGED <<pc, keyed, conn, faults>> /\ pc # "apresponse"
      BY <1>11 DEF ApResponse, ApReceive, UpInOrder
    <3>. QED BY <2>2, <3>1 DEF UpInOrder
  <2>. QED BY <2>1, <2>2
<1>. QED BY <1>3, <1>4, <1>5, <1>6, <1>7, <1>8, <1>9, <1>10, <1>11
         DEF Next, Client, AccessPoint

\* Every step of a session that is logged in once keeps what its login gave it.
LEMMA NextOneLogin ==
  ASSUME IInv, Verdicts, Waiting, OneLogin, Next, ~Relogin
  PROVE  OneLogin'
<1>. USE DEF session, caller, network, history
<1>0. TypeOK /\ Shape
  BY DEF IInv
<1>1. CASE mercury_init
  BY <1>1 DEF mercury_init, OneLogin, NoSocketLeak, ConnectedMeansGranted
<1>2. CASE mercury_disconnect \/ mercury_destroy
  BY <1>2 DEF mercury_disconnect, mercury_destroy, CloseSocket, OneLogin, NoSocketLeak,
              ConnectedMeansGranted
<1>3. CASE mercury_login5
  <2>1. live /\ pc = "idle" /\ ret = 1 /\ sock = 0 /\ connected = FALSE /\ open = {}
    BY <1>0, <1>3 DEF mercury_login5, OneLogin, NoSocketLeak, TypeOK
  <2>2. CASE LoginRefused \/ ConnectFails
    BY <2>1, <2>2 DEF LoginRefused, ConnectFails, Return, OneLogin, NoSocketLeak,
                      ConnectedMeansGranted
  <2>3. CASE ConnectAndHello
    BY <2>1, <2>3 DEF ConnectAndHello, Return, OneLogin, NoSocketLeak, ConnectedMeansGranted
  <2>. QED BY <1>3, <2>2, <2>3 DEF mercury_login5
<1>4. CASE LoginHandshake \/ LoginAwait
  <2>1. ret = 1 /\ connected = FALSE /\ pc # "idle" /\ live
    BY <1>0, <1>4 DEF LoginHandshake, LoginAwait, OneLogin, TypeOK, Shape
  <2>2. UNCHANGED <<live, sock, open>>
    BY <1>4 DEF LoginHandshake, ApResponseFails, KeyAndLogin, LoginAwait, AwaitFails,
                AwaitPing, AwaitOther, AwaitVerdict
  <2>3. CASE connected' = FALSE
    <3>1. (pc' = "idle" /\ ret' # 1) \/ (pc' # "idle" /\ ret' = 1)
      <4>1. CASE ApResponseFails
        BY <4>1 DEF ApResponseFails, Return
      <4>2. CASE KeyAndLogin
        <5>1. Return(-7) \/ Return(-8) \/ (pc' = "await" /\ ret' = ret)
          BY <4>2, Zenon DEF KeyAndLogin
        <5>. QED BY <2>1, <5>1 DEF Return
      <4>3. CASE AwaitFails \/ AwaitPing \/ AwaitOther \/ AwaitVerdict
        <5>1. Return(-9) \/ Return(-10) \/ Return(0) \/ UNCHANGED <<pc, ret>>
          BY <4>3, Zenon DEF AwaitFails, AwaitPing, AwaitOther, AwaitVerdict, NextTry
        <5>. QED BY <2>1, <5>1 DEF Return
      <4>. QED BY <1>4, <4>1, <4>2, <4>3 DEF LoginHandshake, LoginAwait
    <3>. QED BY <2>1, <2>2, <2>3, <3>1 DEF OneLogin, NoSocketLeak, ConnectedMeansGranted
  <2>4. CASE connected' # FALSE
    <3>1. pc = "await" /\ AwaitVerdict
      BY <1>4, <2>1, <2>4 DEF LoginHandshake, ApResponseFails, KeyAndLogin, LoginAwait,
                              AwaitFails, AwaitPing, AwaitOther
    <3>2. PICK h \in Decrypted : RecvOk(h, LoginCap, {}) /\ h.cmd = "AUTH_OK"
            /\ welcome' = (IF Aligned THEN "frame" ELSE "garbage") /\ Return(0)
      BY <2>1, <2>4, <3>1 DEF AwaitVerdict
    <3>3. "over" \notin faults' => welcome' = "frame" /\ ap \in {"auth", "rejected"}
      BY <3>1, <3>2, VerdictRead
    <3>4. sock = conn /\ keyed = conn /\ UNCHANGED <<keyed, conn, ap>>
      BY <1>0, <3>1 DEF Shape, AwaitVerdict
    <3>. QED BY <2>1, <2>2, <3>2, <3>3, <3>4
             DEF Return, OneLogin, NoSocketLeak, ConnectedMeansGranted
  <2>. QED BY <2>3, <2>4
<1>5. CASE mercury_send \/ mercury_recv
  <2>1. faults \subseteq faults'
    <3>1. CASE mercury_send
      BY <3>1 DEF mercury_send
    <3>2. CASE mercury_recv
      BY <1>0, <3>2, RecvFailCounts, Constants DEF mercury_recv, RecvOk
    <3>. QED BY <1>5, <3>1, <3>2
  <2>2. UNCHANGED <<live, sock, connected, keyed, welcome, pc, ret, conn, open, ap>>
    BY <1>5 DEF mercury_send, mercury_recv
  <2>. QED BY <2>1, <2>2 DEF OneLogin, NoSocketLeak, ConnectedMeansGranted
<1>6. CASE ApHello \/ ApResponse \/ ApReceive \/ ApSend
  <2>1. ap \in {"auth", "rejected"} => ap' \in {"auth", "rejected"}
    BY <1>6 DEF ApHello, ApResponse, ApReceive, ApSend
  <2>2. UNCHANGED <<session, pc, ret, conn, open, faults>>
    BY <1>6 DEF ApHello, ApResponse, ApReceive, ApSend
  <2>. QED BY <2>1, <2>2 DEF OneLogin, NoSocketLeak, ConnectedMeansGranted
<1>. QED BY <1>1, <1>2, <1>3, <1>4, <1>5, <1>6 DEF Next, Client, AccessPoint

-----------------------------------------------------------------------------
(* The verdict and the frames on their way: the theorems.                  *)

\* What makes the properties about the access point's verdict inductive.
VerdictInv ==
  IInv /\ Verdicts /\ Waiting /\ GaveUp /\ UpInOrder /\ (~Relogin => OneLogin)

\* A fresh program satisfies it.
LEMMA InitVerdictInv == Init => VerdictInv
BY InitInv DEF Init, VerdictInv, Verdicts, Waiting, GaveUp, UpInOrder, OneLogin,
               NoSocketLeak, ConnectedMeansGranted

\* A step that changes nothing keeps it.
LEMMA StutterVerdictInv == VerdictInv /\ UNCHANGED vars => VerdictInv'
<1>. SUFFICES ASSUME VerdictInv, UNCHANGED vars PROVE VerdictInv'
  OBVIOUS
<1>1. IInv'
  BY StutterInv DEF VerdictInv
<1>2. Verdicts' /\ Waiting' /\ GaveUp'
  BY DEF vars, session, caller, network, history, VerdictInv, Verdicts, Waiting, GaveUp
<1>3. UpInOrder'
  BY DEF vars, session, caller, network, history, VerdictInv, UpInOrder, Ahead
<1>4. ~Relogin => OneLogin'
  BY DEF vars, session, caller, network, history, VerdictInv, OneLogin, NoSocketLeak,
         ConnectedMeansGranted
<1>. QED BY <1>1, <1>2, <1>3, <1>4 DEF VerdictInv

\* Verdicts, waiting logins and the frames on their way fit together, whatever the
\* interleaving of the session and the access point (mercury.c).
THEOREM VerdictInvariance == Spec => []VerdictInv
<1>1. IInv /\ Next => IInv'
  BY NextTypeOK, NextShape, NextContiguous, NextKeysUnused, NextNonceFresh, NextInSync
     DEF IInv
<1>2. VerdictInv /\ Next => VerdictInv'
  BY <1>1, NextVerdicts, NextWaiting, NextGaveUp, NextUpInOrder, NextOneLogin
     DEF VerdictInv
<1>3. VerdictInv /\ [Next]_vars => VerdictInv'
  BY <1>2, StutterVerdictInv
<1>. QED BY InitVerdictInv, <1>3, PTL DEF Spec

\* Unless a write failed, the access point refuses no frame, over any number of
\* connections and frames, and also when a session is logged in again
\* (mercury_send, mercury_login5).
THEOREM FramesAccepted == Spec => []NoFrameRefused
<1>1. VerdictInv => NoFrameRefused
  BY DEF VerdictInv, UpInOrder, NoFrameRefused
<1>. QED BY VerdictInvariance, <1>1, PTL

\* A granted login is missed only when the loop's turns are used up
\* (mercury_login5), whatever their number.
THEOREM GrantMissedByBudget == Spec => []GrantMissedOnlyByBudget
<1>1. VerdictInv => GrantMissedOnlyByBudget
  BY DEF VerdictInv, GaveUp, GrantMissedOnlyByBudget
<1>. QED BY VerdictInvariance, <1>1, PTL

\* A session that is logged in once, as esp_spotify_login does, is connected only
\* if the access point granted the login on the connection it holds.
THEOREM ConnectedIsGranted == ~Relogin => (Spec => []ConnectedMeansGranted)
<1>. SUFFICES ASSUME ~Relogin PROVE Spec => []ConnectedMeansGranted
  OBVIOUS
<1>1. VerdictInv => ConnectedMeansGranted
  BY DEF VerdictInv, OneLogin
<1>. QED BY VerdictInvariance, <1>1, PTL

\* No failed step of such a session leaves a socket behind (mercury_login5,
\* mercury_disconnect, mercury_destroy).
THEOREM NoSocketLost == ~Relogin => (Spec => []NoSocketLeak)
<1>. SUFFICES ASSUME ~Relogin PROVE Spec => []NoSocketLeak
  OBVIOUS
<1>1. VerdictInv => NoSocketLeak
  BY DEF VerdictInv, OneLogin
<1>. QED BY VerdictInvariance, <1>1, PTL

-----------------------------------------------------------------------------
(* The refinement: every step is one of the channel, or is not shown.      *)

\* The access point sends no frame before the handshake is over.
NoFrameYet == ap \in {"none", "hello", "response"} => frames = <<>>

\* What the steps of the channel rest on.
ChannelInv == VerdictInv /\ NoFrameYet

\* Every step leaves the stream empty until the handshake is over.
LEMMA NextNoFrameYet == NoFrameYet /\ Next => NoFrameYet'
BY DEF session, caller, network, history, NoFrameYet,
       Next, Client, AccessPoint, mercury_init, mercury_disconnect,
       mercury_destroy, mercury_login5, LoginRefused, ConnectFails,
       ConnectAndHello, LoginHandshake, ApResponseFails, KeyAndLogin,
       LoginAwait, AwaitFails, AwaitPing, AwaitOther, AwaitVerdict,
       mercury_send, mercury_recv, ApHello, ApResponse, ApReceive, ApSend

\* The frames of the stream, without their offsets, as the channel has them.
Contents == [k \in 1 .. Len(frames) |-> [cmd |-> frames[k].cmd, len |-> frames[k].len]]

\* A step after which the session has no keys for its socket closes the channel.
LEMMA CloseStep ==
  ASSUME ChannelState' = "closed"
  PROVE  Channel!Close
BY DEF Channel!Close, Channel!Restart, IsOpen

\* A step that loses an open channel.
LEMMA LoseStep ==
  ASSUME ChannelState = "open", ChannelState' = "lost"
  PROVE  Channel!Lose
BY DEF Channel!Lose, Channel!Restart, IsOpen

\* A channel that is not open, and stays as it is, shows nothing of a step.
LEMMA NotOpenStep ==
  ASSUME ChannelState # "open", ChannelState' = ChannelState
  PROVE  UNCHANGED Channel!chan
BY DEF Channel!chan, IsOpen

\* An open channel shows nothing of a step that takes and adds no frame.
LEMMA IdleStep ==
  ASSUME ChannelState' = ChannelState, UNCHANGED <<frames, recvNonce, rx>>
  PROVE  UNCHANGED Channel!chan
BY DEF Channel!chan, IsOpen

\* The handshake opens the channel on an empty stream.
LEMMA OpenStep ==
  ASSUME ChannelState' = "open", frames' = <<>>, recvNonce' = 0, rx' = NoFrame
  PROVE  Channel!Open
<1>1. IsOpen' /\ Len(frames') = 0
  BY DEF IsOpen
<1>2. Contents' = <<>>
  BY <1>1 DEF Contents
<1>. QED BY <1>1, <1>2 DEF Channel!Open, Channel!Restart, Contents

\* A frame that the access point adds to the stream is sent on the channel.
LEMMA PushStep ==
  ASSUME TypeOK, ChannelState = "open", ChannelState' = "open", NEW cmd \in ApCmds,
         Push(cmd), UNCHANGED <<recvNonce, rx>>
  PROVE  \E f \in Header : Channel!Push(f)
<1>1. PICK n \in BodyLens :
        frames' = Append(frames, [cmd |-> cmd, len |-> n, at |-> Written])
  BY DEF Push
<1>. DEFINE f == [cmd |-> cmd, len |-> n]
<1>2. f \in Header
  BY DEF Header
<1>3. /\ Len(frames') = Len(frames) + 1 /\ Len(frames) \in Nat
      /\ \A k \in 1 .. Len(frames) : frames'[k] = frames[k]
      /\ frames'[Len(frames) + 1] = [cmd |-> cmd, len |-> n, at |-> Written]
  BY <1>1 DEF TypeOK
<1>4. Contents \in Seq(Header) /\ Len(Contents) = Len(frames)
  <2>1. ASSUME NEW k \in 1 .. Len(frames)
        PROVE  [cmd |-> frames[k].cmd, len |-> frames[k].len] \in Header
    <3>1. frames[k] \in ApFrame
      BY DEF TypeOK
    <3>. QED BY <3>1 DEF ApFrame, Header
  <2>2. Contents \in [1 .. Len(frames) -> Header]
    BY <2>1 DEF Contents
  <2>3. \A S : \A m \in Nat : \A s \in [1 .. m -> S] : s \in Seq(S) /\ Len(s) = m
    OBVIOUS
  <2>. QED BY <1>3, <2>2, <2>3
<1>5. Contents' = Append(Contents, f)
  <2>1. Contents' = [k \in 1 .. Len(frames) + 1 |->
                       [cmd |-> frames'[k].cmd, len |-> frames'[k].len]]
    BY <1>3 DEF Contents
  <2>2. Append(Contents, f) =
          [k \in 1 .. Len(frames) + 1 |-> IF k = Len(frames) + 1 THEN f ELSE Contents[k]]
    BY <1>2, <1>4
  <2>3. ASSUME NEW k \in 1 .. Len(frames) + 1
        PROVE  [cmd |-> frames'[k].cmd, len |-> frames'[k].len]
                 = IF k = Len(frames) + 1 THEN f ELSE Contents[k]
    <3>1. CASE k = Len(frames) + 1
      BY <3>1, <1>3
    <3>2. CASE k # Len(frames) + 1
      <4>1. k \in 1 .. Len(frames)
        BY <3>2, <1>3
      <4>. QED BY <3>2, <4>1, <1>3 DEF Contents
    <3>. QED BY <3>1, <3>2
  <2>. QED BY <2>1, <2>2, <2>3
<1>6. Channel!Push(f)
  BY <1>5 DEF Channel!Push, IsOpen, Contents
<1>. QED BY <1>2, <1>6

\* A receive that was not cut and not overrun takes the next frame.
LEMMA TakeStep ==
  ASSUME IInv, ChannelState = "open", ChannelState' = "open",
         NEW h \in Decrypted, NEW cap \in Nat, NEW more, RecvOk(h, cap, more),
         UNCHANGED frames
  PROVE  Channel!Take
<1>1. TypeOK /\ Shape /\ ReceiveInSync
  BY DEF IInv
<1>2. sock # 0 /\ keyed = sock /\ faults \cap {"short", "over"} = {}
  BY DEF ChannelState
<1>3. faults' \cap {"short", "over"} = {}
  BY DEF ChannelState
<1>4. ~(h.len > cap) /\ Size(h, cap) <= Pending
  BY <1>3 DEF RecvOk
<1>5. recvNonce + 1 \in 1 .. Len(frames) /\ rpos = Edge(recvNonce)
  BY <1>1, <1>2, <1>4, InSyncDecrypts
<1>6. Aligned
  BY <1>1, <1>2, <1>5 DEF Aligned, TypeOK
<1>7. h = [cmd |-> frames[recvNonce + 1].cmd, len |-> frames[recvNonce + 1].len]
  BY <1>6 DEF Decrypted
<1>8. rx' = h /\ recvNonce' = recvNonce + 1
  BY <1>4, <1>7 DEF RecvOk, Body
<1>9. Contents' = Contents /\ Contents[recvNonce + 1] = h /\ recvNonce < Len(Contents)
  BY <1>1, <1>5, <1>7 DEF Contents, TypeOK
<1>. QED BY <1>8, <1>9 DEF Channel!Take, IsOpen, Contents

\* The state of the channel is one of three.
LEMMA ChannelStates == ChannelState \in {"closed", "open", "lost"}
BY DEF ChannelState

\* A step that changes neither keys nor socket, and forgets no fault, leaves the
\* channel in its state or loses it.
LEMMA SameSession ==
  ASSUME UNCHANGED <<sock, keyed>>, faults \subseteq faults'
  PROVE  \/ ChannelState' = ChannelState
         \/ ChannelState = "open" /\ ChannelState' = "lost"
BY DEF ChannelState

\* Every successful receive takes a frame, loses the channel or goes unseen.
LEMMA RecvOkStep ==
  ASSUME IInv, NEW h \in Decrypted, NEW cap \in Nat, NEW more, RecvOk(h, cap, more),
         UNCHANGED <<frames, sock, keyed>>
  PROVE  [Channel!Next]_(Channel!chan)
<1>1. \/ ChannelState' = ChannelState
      \/ ChannelState = "open" /\ ChannelState' = "lost"
  BY SameSession DEF RecvOk
<1>2. CASE ChannelState = "open" /\ ChannelState' = "lost"
  BY <1>2, LoseStep DEF Channel!Next
<1>3. CASE ChannelState' = ChannelState /\ ChannelState # "open"
  BY <1>3, NotOpenStep
<1>4. CASE ChannelState' = ChannelState /\ ChannelState = "open"
  <2>1. Channel!Take
    BY <1>4, TakeStep
  <2>. QED BY <2>1 DEF Channel!Next
<1>. QED BY <1>1, <1>2, <1>3, <1>4

\* A failed receive loses the channel or goes unseen.
LEMMA RecvFailStep ==
  ASSUME TypeOK, NEW cap \in Nat, RecvFail(cap), UNCHANGED <<frames, sock, keyed>>
  PROVE  [Channel!Next]_(Channel!chan)
<1>1. \/ ChannelState' = ChannelState
      \/ ChannelState = "open" /\ ChannelState' = "lost"
  BY SameSession, RecvFailCounts
<1>2. CASE ChannelState = "open" /\ ChannelState' = "lost"
  BY <1>2, LoseStep DEF Channel!Next
<1>3. CASE ChannelState' = ChannelState /\ ChannelState # "open"
  BY <1>3, NotOpenStep
<1>4. CASE ChannelState' = ChannelState /\ ChannelState = "open"
  <2>1. sock # 0 /\ "short" \notin faults'
    BY <1>4 DEF ChannelState
  <2>2. PICK h \in Decrypted, n \in 0 .. Pending :
          /\ recvNonce' = IF n < Hdr THEN recvNonce ELSE recvNonce + 1
          /\ faults' = IF n > 0 THEN faults \cup {"short"} ELSE faults
    BY <2>1 DEF RecvFail
  <2>3. n = 0
    BY <2>1, <2>2, PendingInt
  <2>4. UNCHANGED <<recvNonce, rx>>
    BY <2>2, <2>3 DEF Hdr, RecvFail
  <2>. QED BY <1>4, <2>4, IdleStep
<1>. QED BY <1>1, <1>2, <1>3, <1>4

\* Every step of the session and the access point is a step of the channel, or
\* one that it does not show.
LEMMA NextChannelStep ==
  ASSUME ChannelInv, Next
  PROVE  [Channel!Next]_(Channel!chan)
<1>. USE DEF session, caller, network, history
<1>0. IInv /\ TypeOK /\ Shape /\ Waiting /\ UpInOrder /\ NoFrameYet
  BY DEF ChannelInv, VerdictInv, IInv
<1>1. CASE ChannelState' = "closed"
  BY <1>1, CloseStep DEF Channel!Next
<1>2. CASE /\ UNCHANGED <<sock, keyed, frames, recvNonce, rx>> /\ faults \subseteq faults'
           /\ "short" \in faults' => "short" \in faults
           /\ "over" \in faults' => "over" \in faults
  <2>1. ChannelState' = ChannelState
    BY <1>2 DEF ChannelState
  <2>. QED BY <1>2, <2>1, IdleStep
<1>3. CASE mercury_init \/ mercury_disconnect \/ mercury_destroy
  BY <1>1, <1>3 DEF mercury_init, mercury_disconnect, mercury_destroy, CloseSocket,
                    ChannelState
<1>4. CASE mercury_login5
  <2>1. CASE LoginRefused
    BY <1>2, <2>1 DEF LoginRefused
  <2>2. CASE ConnectFails
    BY <1>1, <2>2 DEF ConnectFails, ChannelState
  <2>3. CASE ConnectAndHello
    <3>1. sock' = conn + 1 /\ keyed' = keyed /\ keyed <= conn
      BY <1>0, <2>3 DEF Shape, ConnectAndHello
    <3>2. keyed' # sock'
      BY <1>0, <3>1 DEF TypeOK
    <3>. QED BY <1>1, <3>2 DEF ChannelState
  <2>. QED BY <1>4, <2>1, <2>2, <2>3 DEF mercury_login5
<1>5. CASE LoginHandshake
  <2>0. pc = "apresponse" /\ keyed # sock /\ sock # 0
    BY <1>0, <1>5 DEF LoginHandshake, Shape, TypeOK
  <2>1. CASE UNCHANGED <<keyed, sock>>
    BY <1>1, <2>0, <2>1 DEF ChannelState
  <2>2. CASE /\ keyed' = sock /\ UNCHANGED <<sock, frames>>
             /\ recvNonce' = 0 /\ rx' = NoFrame /\ faults' \subseteq faults \cup {"write"}
    <3>1. frames' = <<>>
      BY <1>0, <2>0, <2>2 DEF UpInOrder, NoFrameYet
    <3>2. faults' \cap {"short", "over"} = {}
      BY <1>0, <2>0, <2>2 DEF Waiting
    <3>3. ChannelState' = "open"
      BY <2>0, <2>2, <3>2 DEF ChannelState
    <3>4. Channel!Open
      BY <2>2, <3>1, <3>3, OpenStep
    <3>. QED BY <3>4 DEF Channel!Next
  <2>3. KeyAndLogin => faults' \subseteq faults \cup {"write"}
    BY DEF KeyAndLogin
  <2>. QED BY <1>5, <2>1, <2>2, <2>3 DEF LoginHandshake, ApResponseFails, KeyAndLogin
<1>6. CASE LoginAwait
  <2>1. UNCHANGED <<frames, sock, keyed>>
    BY <1>6 DEF LoginAwait, AwaitFails, AwaitPing, AwaitOther, AwaitVerdict
  <2>2. RecvFail(LoginCap) \/ \E more : \E h \in Decrypted : RecvOk(h, LoginCap, more)
    BY <1>6 DEF LoginAwait, AwaitFails, AwaitPing, AwaitOther, AwaitVerdict
  <2>. QED BY <1>0, <2>1, <2>2, RecvOkStep, RecvFailStep, Constants
<1>7. CASE mercury_send
  <2>1. faults' = faults \/ faults' = faults \cup {"write"}
    BY <1>7 DEF mercury_send
  <2>2. UNCHANGED <<sock, keyed, frames, recvNonce, rx>>
    BY <1>7 DEF mercury_send
  <2>. QED BY <1>2, <2>1, <2>2
<1>8. CASE mercury_recv
  <2>1. PICK cap \in Caps : RecvFail(cap) \/ \E h \in Decrypted : RecvOk(h, cap, {})
    BY <1>8 DEF mercury_recv
  <2>2. UNCHANGED <<frames, sock, keyed>> /\ cap \in Nat
    BY <1>8, Constants DEF mercury_recv
  <2>. QED BY <1>0, <2>1, <2>2, RecvOkStep, RecvFailStep
<1>9. CASE ApHello \/ ApResponse
  BY <1>2, <1>9 DEF ApHello, ApResponse
<1>10. CASE ApReceive \/ ApSend
  <2>1. UNCHANGED <<sock, keyed, recvNonce, rx, faults>>
    BY <1>10 DEF ApReceive, ApSend
  <2>2. ChannelState' = ChannelState
    BY <2>1 DEF ChannelState
  <2>3. CASE frames' = frames
    BY <2>1, <2>2, <2>3, IdleStep
  <2>4. CASE \E cmd \in ApCmds : Push(cmd)
    <3>1. CASE ChannelState = "open"
      <4>1. \E f \in Header : Channel!Push(f)
        BY <1>0, <2>1, <2>2, <2>4, <3>1, PushStep
      <4>. QED BY <4>1 DEF Channel!Next
    <3>. QED BY <2>2, <3>1, NotOpenStep
  <2>. QED BY <1>10, <2>3, <2>4 DEF ApReceive, ApSend, ApCmds
<1>. QED BY <1>3, <1>4, <1>5, <1>6, <1>7, <1>8, <1>9, <1>10
         DEF Next, Client, AccessPoint

\* Mercury implements the channel: mercury_recv hands out the access point's frames
\* in order and each once until a receive was cut short or overrun, for frames of
\* any length, any number of them, and any number of connections.
THEOREM MercuryIsAChannel == Spec => ImplementsChannel
<1>1. Init => Channel!Init
  BY DEF Init, Channel!Init, ChannelState, IsOpen
<1>2. Init => NoFrameYet
  BY DEF Init, NoFrameYet
<1>3. NoFrameYet /\ [Next]_vars => NoFrameYet'
  BY NextNoFrameYet DEF vars, network, NoFrameYet
<1>4. VerdictInv /\ NoFrameYet /\ [Next]_vars => [Channel!Next]_(Channel!chan)
  <2>1. VerdictInv /\ NoFrameYet /\ Next => [Channel!Next]_(Channel!chan)
    BY NextChannelStep DEF ChannelInv
  <2>2. UNCHANGED vars => UNCHANGED Channel!chan
    <3>1. UNCHANGED vars => ChannelState' = ChannelState /\ UNCHANGED <<frames, recvNonce, rx>>
      BY DEF vars, session, caller, network, history, ChannelState
    <3>. QED BY <3>1, IdleStep
  <2>. QED BY <2>1, <2>2
<1>. QED BY VerdictInvariance, <1>1, <1>2, <1>3, <1>4, PTL
         DEF Spec, ImplementsChannel, Channel!Spec

=============================================================================
