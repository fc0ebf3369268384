----------------------------- MODULE HttpProofs -----------------------------
(***************************************************************************)
(* What the HTTP requests are made of, each part for every value of its    *)
(* constants: the HTTPS exchange, the sockets, the metadata of a track and *)
(* the audio chunks.                                                       *)
(***************************************************************************)
EXTENDS Https, Sockets, Audio, Track, CommonLemmas


-----------------------------------------------------------------------------
(* HTTPS.                                                                  *)

\* What is open at each step of an exchange.
HeldAt ==
    /\ pc = "idle" => held = {}
    /\ pc = "connect" => held = IF build = "login5" THEN {"tls"} ELSE {"sock"}
    /\ pc \in {"handshake", "write", "read"} => held = {"sock", "tls"}
    /\ pc = "client" => held = {"client"}

HeldInv ==
    /\ pc \in {"idle", "connect", "handshake", "write", "read", "client", "done"}
    /\ HeldAt
    /\ ReleasedOnReturn

-----------------------------------------------------------------------------

\* A failure before the reading leaves nothing open, but for login5's.
LEMMA FailureKeeps ==
    ASSUME HeldInv, Fails
    PROVE  HeldInv'
<1>1. pc \in {"connect", "handshake", "write"} /\ pc' = "done" /\ end' = pc /\ build' = build
  BY DEF Fails
<1>2. CASE build = "login5"
  BY <1>1, <1>2 DEF Fails, FailReleases, HeldInv, HeldAt, ReleasedOnReturn
<1>3. CASE build # "login5"
  BY <1>1, <1>3 DEF Fails, FailReleases, HeldInv, HeldAt, ReleasedOnReturn
<1>. QED BY <1>2, <1>3

\* However the reading ends, everything is closed.
LEMMA EndKeeps ==
    ASSUME NEW how \in {"full", "close", "read", "ticket"}, HeldInv, Finish(how)
    PROVE  HeldInv'
BY DEF Finish, HeldInv, HeldAt, ReleasedOnReturn

LEMMA HeldInvNext == HeldInv /\ [Next]_vars => HeldInv'
<1>. SUFFICES ASSUME HeldInv, [Next]_vars
              PROVE  HeldInv'
  OBVIOUS
<1>. USE DEF HeldInv, HeldAt, ReleasedOnReturn
<1>1. CASE Start
  BY <1>1 DEF Start
<1>2. CASE EspClientInit
  BY <1>2 DEF EspClientInit
<1>3. CASE Fails
  BY <1>3, FailureKeeps
<1>4. CASE Connects
  BY <1>4 DEF Connects
<1>5. CASE Handshakes
  BY <1>5 DEF Handshakes
<1>6. CASE Writes
  BY <1>6 DEF Writes
<1>7. CASE WritesPart
  BY <1>7 DEF WritesPart
<1>8. ASSUME NEW n \in 1..Answer, ReadPiece(n)
      PROVE  HeldInv'
  BY <1>8 DEF ReadPiece
<1>9. CASE PassesTicket
  BY <1>9 DEF PassesTicket
<1>10. CASE TicketEnds \/ BufferFull \/ PeerCloses \/ ReadFails \/ TimesOut
  BY <1>10, EndKeeps DEF TicketEnds, BufferFull, PeerCloses, ReadFails, TimesOut
<1>11. ASSUME NEW ok \in BOOLEAN, EspPerforms(ok)
       PROVE  HeldInv'
  BY <1>11 DEF EspPerforms
<1>12. CASE UNCHANGED vars
  BY <1>12 DEF vars
<1>. QED BY <1>1, <1>2, <1>3, <1>4, <1>5, <1>6, <1>7, <1>8, <1>9, <1>10, <1>11, <1>12 DEF Next

(* No way out of platform_https_get leaves a socket, a context or a client *)
(* open, whichever step failed; login5 leaves what ReleasedOnReturn names, *)
(* and no more.                                                            *)
THEOREM NothingHeldOnReturn == Spec => []ReleasedOnReturn
<1>1. Init => HeldInv
  BY DEF Init, HeldInv, HeldAt, ReleasedOnReturn
<1>2. HeldInv => ReleasedOnReturn
  BY DEF HeldInv
<1>. QED BY <1>1, <1>2, HeldInvNext, PTL DEF Spec

-----------------------------------------------------------------------------
(* What is in buf is known from how much of it there is: login5 has found  *)
(* the body once a byte of it is there, and a ticket that mbedTLS still    *)
(* has to read came before everything else.                                *)

AnswerInv ==
    /\ build \in Builds /\ body \in Seq(Chars)
    /\ total \in 0..Answer
    /\ found <=> build = "login5" /\ total > HeadLen
    /\ MbedTls /\ ticket => total = 0
    /\ pc \in {"idle", "connect", "handshake", "write", "read", "client", "done"}
    /\ pc # "done" => resp = NoAnswer
    /\ pc = "client" => build = "esp32"
    /\ AnswerRead

-----------------------------------------------------------------------------
(* spotify_login5_extract_token cuts out the token, for every text that    *)
(* holds one.                                                              *)

LEMMA TwoOf ==
    ASSUME NEW S, NEW s \in Seq(S), NEW j \in 1..Len(s), NEW k, k = j + 1, k <= Len(s)
    PROVE  SubSeq(s, j, k) = <<s[j], s[k]>>
<1>1. \A n \in j..k : s[n] \in S
  OBVIOUS
<1>2. SubSeq(s, j, k) \in Seq(S) /\ Len(SubSeq(s, j, k)) = 2
  BY <1>1
<1>3. SubSeq(s, j, k)[1] = s[j] /\ SubSeq(s, j, k)[2] = s[k]
  OBVIOUS
<1>. DEFINE t == SubSeq(s, j, k)
<1>. HIDE DEF t
<1>4. \A u \in Seq(S) : Len(u) = 2 => u = <<u[1], u[2]>>
  OBVIOUS
<1>5. t \in Seq(S) /\ Len(t) = 2 /\ t[1] = s[j] /\ t[2] = s[k]
  BY <1>2, <1>3 DEF t
<1>6. t = <<s[j], s[k]>>
  BY <1>4, <1>5
<1>. QED BY <1>6 DEF t

LEMMA TokenCut ==
    ASSUME NEW p \in Seq(Chars), Len(p) >= 5,
           NEW i \in 1..Len(p), NEW k \in 1..Len(p),
           i < k, k - i < TokenMax - 1, i <= Len(p) - 5, TokenMax \in Nat,
           \A c \in ToSet(SubSeq(p, i, k)) : IsToken(c),
           k < Len(p) => ~IsToken(p[k + 1]),
           \A j \in 1..(i - 1) : ~(SubSeq(p, j, j + 1) = <<"B", "Q">>
                                   /\ p[j + 2] \in {"B", "Q", "C"}),
           Len(SubSeq(p, i, k)) >= 3, SubSeq(SubSeq(p, i, k), 1, 2) = <<"B", "Q">>,
           SubSeq(p, i, k)[3] \in {"B", "Q", "C"}
    PROVE  spotify_login5_extract_token(p) = SubSeq(p, i, k)
<1>. DEFINE text == SubSeq(p, i, k)
            starts == {j \in 1..(Len(p) - 5) : TokenAt(p, j)}
            ends == {e \in i..Len(p) : ~IsToken(p[e])} \cup {Len(p) + 1, i + TokenMax - 1}
<1>1. /\ text \in Seq(Chars) /\ Len(text) = k - i + 1 /\ DOMAIN text = 1..(k - i + 1)
      /\ \A n \in 1..(k - i + 1) : text[n] = p[i + n - 1]
  OBVIOUS
<1>2. \A e \in i..k : IsToken(p[e])
  <2>. TAKE e \in i..k
  <2>1. e - i + 1 \in 1..(k - i + 1) /\ text[e - i + 1] = p[e]
    BY <1>1
  <2>2. p[e] \in ToSet(text)
    BY <2>1, <1>1 DEF ToSet
  <2>. QED BY <2>2
<1>3. k - i >= 2
  BY <1>1
<1>4. TokenAt(p, i)
  <2>1. text[1] = p[i] /\ text[2] = p[i + 1] /\ text[3] = p[i + 2]
    BY <1>1, <1>3
  <2>2. text[1] = "B" /\ text[2] = "Q"
    <3>. HIDE DEF text
    <3>1. SubSeq(text, 1, 2) = <<text[1], text[2]>>
      <4>1. text \in Seq(Chars) /\ 1 \in 1..Len(text) /\ 2 = 1 + 1 /\ 2 <= Len(text)
        BY <1>1, <1>3
      <4>. QED BY <4>1, TwoOf, Zenon
    <3>2. SubSeq(text, 1, 2) = <<"B", "Q">>
      BY DEF text
    <3>. QED BY <3>1, <3>2
  <2>. QED BY <2>1, <2>2 DEF TokenAt
<1>5. \A j \in starts : i <= j
  <2>. SUFFICES ASSUME NEW j \in starts, j < i
                PROVE  FALSE
    OBVIOUS
  <2>1. p[j] = "B" /\ p[j + 1] = "Q" /\ p[j + 2] \in {"B", "Q", "C"} /\ j \in 1..(i - 1)
    BY DEF TokenAt
  <2>2. SubSeq(p, j, j + 1) = <<p[j], p[j + 1]>>
    BY TwoOf
  <2>. QED BY <2>1, <2>2
<1>6. Min(starts) = i
  <2>1. i \in starts /\ starts \in SUBSET Int
    BY <1>4
  <2>. QED BY <2>1, <1>5, MinIs
<1>7. Min(ends) = k + 1
  <2>1. k + 1 \in ends
    <3>1. CASE k = Len(p)
      BY ONLY <3>1, Zenon DEF ends
    <3>2. CASE k # Len(p)
      <4>1. k < Len(p) /\ k + 1 \in i..Len(p)
        BY <3>2
      <4>2. ~IsToken(p[k + 1])
        BY <4>1
      <4>. QED BY ONLY <4>1, <4>2, Zenon DEF ends
    <3>. QED BY ONLY <3>1, <3>2, Zenon
  <2>2. ends \in SUBSET Int
    OBVIOUS
  <2>3. \A e \in ends : k + 1 <= e
    BY <1>2
  <2>. HIDE DEF ends
  <2>. QED BY <2>1, <2>2, <2>3, MinIs
<1>8. spotify_login5_extract_token(p) = SubSeq(p, i, Min(ends) - 1)
  <2>1. i \in starts /\ ~(Len(p) < 5)
    BY <1>4
  <2>. QED BY <1>6, <2>1 DEF spotify_login5_extract_token
<1>9. Min(ends) - 1 = k
  BY <1>7
<1>. HIDE DEF ends
<1>. QED BY <1>8, <1>9

LEMMA EveryTokenCut ==
    ASSUME HttpsAssumption, NEW p \in Seq(Chars), Len(p) >= 5
    PROVE  CutsOutToken(p)
<1>. SUFFICES ASSUME NEW i \in 1..Len(p), NEW k \in 1..Len(p),
                     /\ i < k /\ k - i < TokenMax - 1 /\ i <= Len(p) - 5
                     /\ \A c \in ToSet(SubSeq(p, i, k)) : IsToken(c)
                     /\ k < Len(p) => ~IsToken(p[k + 1])
                     /\ \A j \in 1..(i - 1) : ~(SubSeq(p, j, j + 1) = <<"B", "Q">>
                                                /\ p[j + 2] \in {"B", "Q", "C"})
                     /\ Len(SubSeq(p, i, k)) >= 3 /\ SubSeq(SubSeq(p, i, k), 1, 2) = <<"B", "Q">>
                     /\ SubSeq(p, i, k)[3] \in {"B", "Q", "C"}
              PROVE  spotify_login5_extract_token(p) = SubSeq(p, i, k)
  BY Zenon DEF CutsOutToken
<1>1. TokenMax \in Nat
  BY DEF HttpsAssumption
<1>. QED BY <1>1, TokenCut

-----------------------------------------------------------------------------
(* The end of the reading.                                                 *)

\* The beginning of the body, as far as it has come.
LEMMA ReceivedIs ==
    ASSUME HttpsAssumption, body \in Seq(Chars), total \in 0..Answer, total >= HeadLen
    PROVE  /\ Received \in Seq(Chars) /\ Received # Garbage
           /\ IsPrefix(Received, body)
           /\ total = Answer => Received = body
<1>. DEFINE n == total - HeadLen
<1>1. n \in 0..Len(body)
  BY DEF HttpsAssumption, Answer
<1>2. Received = SubSeq(body, 1, n)
  BY DEF Received
<1>. HIDE DEF n
<1>3. Received \in Seq(Chars) /\ Len(Received) = n /\ \A j \in 1..n : Received[j] = body[j]
  BY <1>1, <1>2
<1>4. Received # Garbage
  <2>1. "garbage" \notin Chars
    BY DEF Chars
  <2>2. \A u \in Seq(Chars) : u # <<"garbage">>
    BY <2>1
  <2>. QED BY <1>3, <2>2 DEF Garbage
<1>5. IsPrefix(Received, body)
  BY <1>1, <1>2, <1>3 DEF IsPrefix
<1>6. total = Answer => Received = body
  <2>. SUFFICES ASSUME n = Len(body)
                PROVE  Received = body
    BY DEF n, Answer, HttpsAssumption
  <2>. QED BY <1>2
<1>. QED BY <1>3, <1>4, <1>5, <1>6

LEMMA EndReads ==
    ASSUME HttpsAssumption, AnswerInv, NEW how \in {"full", "close", "read", "ticket"},
           pc = "read", Finish(how), how = "ticket" => build # "login5" /\ total = 0
    PROVE  AnswerInv'
<1>1. /\ build \in Builds /\ body \in Seq(Chars) /\ total \in 0..Answer
      /\ found <=> build = "login5" /\ total > HeadLen
  BY DEF AnswerInv
<1>2. /\ StatusLen \in Nat /\ StatusLen > 0 /\ HeadLen \in Int /\ HeadLen > StatusLen /\ OutMax \in Nat
      /\ Len(body) \in Nat /\ Answer = HeadLen + Len(body) /\ total \in Nat
  <2>1. HeadLen \in Int
    BY DEF HttpsAssumption
  <2>. QED BY <1>1, <2>1 DEF HttpsAssumption, Answer
<1>3. \/ resp' = NoAnswer
      \/ resp' = [status |-> 200, body |-> NoBody]
      \/ total >= HeadLen /\ resp' = [status |-> 200, body |-> Received]
  <2>1. CASE build = "login5"
    BY <1>1, <1>2, <2>1 DEF Finish, Login5Result
  <2>2. CASE build # "login5"
    <3>1. resp' = parse_http_response
      BY <2>2 DEF Finish
    <3>. QED BY <3>1, <1>2 DEF parse_http_response
  <2>. QED BY <2>1, <2>2
<1>4. /\ build' = build /\ body' = body /\ total' = total /\ found' = found /\ ticket' = ticket
      /\ pc' = "done" /\ end' = how /\ Answer' = Answer
  BY DEF Finish, Answer
<1>5. total >= HeadLen => /\ Received \in Seq(Chars) /\ Received # Garbage
                          /\ IsPrefix(Received, body)
                          /\ total = Answer => Received = body
  BY <1>1, ReceivedIs
<1>6. NoBody # Garbage
  BY DEF NoBody, Garbage
<1>7. resp'.body # NoBody => resp'.body \in Seq(Chars) /\ resp'.body # Garbage /\ IsPrefix(resp'.body, body)
  BY <1>3, <1>5 DEF NoAnswer
<1>8. resp'.body # Garbage
  BY <1>6, <1>7
<1>9. how = "close" /\ total = Answer /\ Fits => resp' = [status |-> 200, body |-> body]
  <2>. SUFFICES ASSUME how = "close", total = Answer, Fits
                PROVE  resp' = [status |-> 200, body |-> body]
    OBVIOUS
  <2>1. total >= HeadLen /\ Received = body
    BY <1>2, <1>5
  <2>2. CASE build = "login5"
    <3>1. total > HeadLen /\ total - HeadLen <= OutMax
      BY <1>1, <1>2, <2>2 DEF Fits
    <3>. QED BY <3>1, <1>1, <2>1, <2>2 DEF Finish, Login5Result
  <2>3. CASE build # "login5"
    <3>1. resp' = parse_http_response
      BY <2>3 DEF Finish
    <3>. QED BY <3>1, <1>2, <2>1 DEF parse_http_response
  <2>. QED BY <2>2, <2>3
<1>10. how = "ticket" => resp' = NoAnswer
  <2>. SUFFICES ASSUME how = "ticket"
                PROVE  resp' = NoAnswer
    OBVIOUS
  <2>1. resp' = parse_http_response /\ total < StatusLen
    BY <1>2 DEF Finish
  <2>. QED BY <2>1 DEF parse_http_response
<1>11. TokenRead'
  <2>1. resp'.body # NoBody => resp'.body \in Seq(Chars)
    BY <1>7
  <2>. QED BY <2>1, EveryTokenCut DEF TokenRead
<1>12. AnswerRead'
  BY <1>4, <1>7, <1>8, <1>9, <1>10, <1>11, Zenon DEF AnswerRead, Fits
<1>. QED BY <1>4, <1>12, <1>1 DEF AnswerInv, MbedTls

-----------------------------------------------------------------------------

LEMMA AnswerInvNext == HttpsAssumption /\ AnswerInv /\ [Next]_vars => AnswerInv'
<1>. SUFFICES ASSUME HttpsAssumption, AnswerInv, [Next]_vars
              PROVE  AnswerInv'
  OBVIOUS
\* Before the end nothing is given, and AnswerRead says nothing.
<1>. DEFINE Kept == /\ UNCHANGED <<build, body, ticket, total, found, resp>>
                    /\ pc' \in {"idle", "connect", "handshake", "write", "read"}
<1>0. ASSUME Kept, pc # "done"
      PROVE  AnswerInv'
  BY <1>0 DEF AnswerInv, AnswerRead, Answer, MbedTls
<1>1. CASE Start
  BY <1>1, <1>0 DEF Start
<1>2. CASE EspClientInit
  BY <1>2 DEF EspClientInit, AnswerInv, AnswerRead, Answer, MbedTls
<1>3. ASSUME pc \in {"connect", "handshake", "write"}, pc' = "done", end' = pc,
             UNCHANGED <<build, body, ticket, total, found, resp>>
      PROVE  AnswerInv'
  <2>1. resp' = NoAnswer /\ resp'.body = NoBody /\ NoBody # Garbage
    BY <1>3 DEF AnswerInv, NoAnswer, NoBody, Garbage
  <2>2. AnswerRead'
    BY <1>3, <2>1 DEF AnswerRead, TokenRead
  <2>. QED BY <1>3, <2>2 DEF AnswerInv, Answer, MbedTls
<1>4. CASE Fails
  BY <1>3, <1>4 DEF Fails
<1>5. CASE Connects \/ Handshakes \/ Writes
  BY <1>5, <1>0 DEF Connects, Handshakes, Writes
<1>6. CASE WritesPart
  BY <1>6, <1>0, <1>3 DEF WritesPart
<1>7. ASSUME NEW n \in 1..Answer, ReadPiece(n)
      PROVE  AnswerInv'
  <2>1. total + n \in 0..Answer /\ total + n > total
    <3>1. BufMax[build] \in Int /\ Answer \in Int /\ total \in Nat
      BY DEF HttpsAssumption, AnswerInv, Answer
    <3>. DEFINE m == Min({Answer, BufMax[build]})
    <3>2. total + n <= m
      BY <1>7 DEF ReadPiece
    <3>3. m \in Int /\ m <= Answer
      BY <3>1, MinOfTwo
    <3>4. n \in Nat /\ n > 0
      BY <3>1
    <3>. HIDE DEF m
    <3>. QED BY <3>1, <3>2, <3>3, <3>4
  <2>2. found' <=> build = "login5" /\ total + n > HeadLen
    <3>1. found' <=> found \/ (build = "login5" /\ total + n > HeadLen)
      BY <1>7 DEF ReadPiece, HeadFound
    <3>2. found <=> build = "login5" /\ total > HeadLen
      BY DEF AnswerInv
    <3>3. total \in Int /\ n \in Int /\ HeadLen \in Int
      BY DEF AnswerInv, HttpsAssumption, Answer
    <3>4. total > HeadLen => total + n > HeadLen
      BY <2>1, <3>3
    <3>. QED BY <3>1, <3>2, <3>4
  <2>. QED BY <1>7, <2>1, <2>2 DEF ReadPiece, AnswerInv, AnswerRead, Answer, MbedTls
<1>8. CASE PassesTicket
  BY <1>8 DEF PassesTicket, AnswerInv, AnswerRead, Answer, MbedTls
<1>9. CASE TicketEnds
  BY <1>9, EndReads DEF TicketEnds, AnswerInv, MbedTls
<1>10. CASE BufferFull \/ PeerCloses \/ ReadFails \/ TimesOut
  BY <1>10, EndReads DEF BufferFull, PeerCloses, ReadFails, TimesOut
<1>11. ASSUME NEW ok \in BOOLEAN, EspPerforms(ok)
       PROVE  AnswerInv'
  <2>1. /\ build = "esp32" /\ build' = "esp32" /\ end' = "client"
        /\ resp' = NoAnswer \/ resp' = [status |-> 200, body |-> NoBody]
           \/ resp' = [status |-> 200, body |-> Garbage]
    BY <1>11 DEF EspPerforms, AnswerInv
  <2>2. resp'.body \in {NoBody, Garbage}
    BY <2>1 DEF NoAnswer
  <2>3. AnswerRead'
    BY <2>1, <2>2 DEF AnswerRead, TokenRead
  <2>. QED BY <1>11, <2>3 DEF EspPerforms, AnswerInv, Answer, MbedTls
<1>12. CASE UNCHANGED vars
  BY <1>12 DEF vars, AnswerInv, AnswerRead, TokenRead, Fits, Answer, MbedTls
<1>. QED BY <1>1, <1>2, <1>4, <1>5, <1>6, <1>7, <1>8, <1>9, <1>10, <1>11, <1>12 DEF Next

(* Whatever the server's body, the pieces it comes in and the buffers are: *)
(* what a call gives is the beginning of that body, all of it where it     *)
(* fits and the connection was closed at its end; and the token that       *)
(* spotify_login5_extract_token cuts out of login5's is the one it holds.  *)
THEOREM OwnAnswerIsRead == Spec => []AnswerRead
<1>1. Init => AnswerInv
  <2>1. Init => /\ build \in Builds /\ body \in Bodies /\ total = 0 /\ found = FALSE
                /\ pc = "idle" /\ resp = NoAnswer
    BY DEF Init
  <2>2. Init => body \in Seq(Chars) /\ Answer \in Nat /\ Answer >= 0 /\ ~(0 > HeadLen)
    BY <2>1, HttpsAssumption DEF HttpsAssumption, Answer
  <2>. QED BY <2>1, <2>2 DEF AnswerInv, AnswerRead
<1>2. AnswerInv => AnswerRead
  BY DEF AnswerInv
<1>3. AnswerInv /\ [Next]_vars => AnswerInv'
  BY HttpsAssumption, AnswerInvNext
<1>. QED BY <1>1, <1>2, <1>3, PTL DEF Spec

-----------------------------------------------------------------------------
(* Sockets.                                                                *)

-----------------------------------------------------------------------------
(* Which socket is open, and whose.                                        *)

\* The addresses before the one that is tried have refused; all have when a
\* connection failed.
OpenInv ==
    /\ sockPc \in {"idle", "connect", "listen", "accept", "up", "read", "write"}
    /\ platform \in {"posix", "windows", "esp32"} /\ bell \in BOOLEAN
    /\ hosts \in Seq({"accepts", "refuses"}) /\ Len(hosts) > 0 /\ at \in Nat
    /\ sockPc = "idle" => open = {}
    /\ sockPc \in {"listen", "accept"} => open = {"listen"}
    /\ sockPc \in {"idle", "listen", "accept"} /\ at > 0 => \A i \in Tried : hosts[i] = "refuses"
    /\ sockPc = "connect" => /\ ~bell /\ at \in Tried
                         /\ \A i \in 1..(at - 1) : hosts[i] = "refuses"
    /\ sockPc \in {"up", "read", "write"} =>
        IF bell THEN open = {"conn", "listen"}
        ELSE open = {"conn"} /\ at \in Tried /\ hosts[at] = "accepts"

LEMMA OpenInvInit == SocketsAssumption /\ SockInit => OpenInv
<1>. SUFFICES ASSUME SocketsAssumption, SockInit
              PROVE  OpenInv
  OBVIOUS
<1>1. hosts \in Seq({"accepts", "refuses"}) /\ Len(hosts) > 0
  <2>1. PICK k \in 1..MaxAddrs : hosts \in [1..k -> {"accepts", "refuses"}]
    BY DEF SockInit, HostLists
  <2>2. k \in Nat /\ k > 0
    BY DEF SocketsAssumption
  <2>. QED BY <2>1, <2>2
<1>2. platform \in {"posix", "windows", "esp32"} /\ bell \in BOOLEAN
  BY DEF SocketsAssumption, SockInit
<1>3. sockPc = "idle" /\ open = {} /\ at = 0
  BY DEF SockInit
<1>. QED BY <1>1, <1>2, <1>3 DEF OpenInv

\* The three builds' ways to an address of the host.
LEMMA ConnectKeepsOpen ==
    ASSUME OpenInv, platform_tcp_connect
    PROVE  OpenInv'
<1>1. /\ sockPc = "connect" /\ ~bell /\ at \in Tried
      /\ \A i \in 1..(at - 1) : hosts[i] = "refuses"
      /\ UNCHANGED <<platform, bell, hosts>>
  BY DEF OpenInv, platform_tcp_connect
<1>2. hosts[at] \in {"accepts", "refuses"} /\ hosts[1] \in {"accepts", "refuses"}
  BY <1>1 DEF OpenInv, Tried
<1>3. CASE Connected /\ UNCHANGED at /\ hosts[at] = "accepts"
  BY <1>1, <1>3 DEF OpenInv, Connected, Tried
<1>4. CASE ConnectFails /\ UNCHANGED at /\ \A i \in Tried : hosts[i] = "refuses"
  BY <1>1, <1>4 DEF OpenInv, ConnectFails, Tried
<1>5. CASE platform = "posix" /\ hosts[at] = "refuses" /\ at < Len(hosts)
  <2>1. at' = at + 1 /\ UNCHANGED <<sockPc, ret, open>>
    BY <1>5 DEF platform_tcp_connect, EachAddress
  <2>2. at' \in Tried /\ \A i \in 1..(at' - 1) : hosts[i] = "refuses"
    BY <1>1, <1>5, <2>1 DEF OpenInv, Tried
  <2>. QED BY <1>1, <2>1, <2>2 DEF OpenInv, Tried
<1>6. CASE platform = "posix" /\ ~(hosts[at] = "refuses" /\ at < Len(hosts))
  <2>1. hosts[at] = "refuses" => \A i \in Tried : hosts[i] = "refuses"
    BY <1>1, <1>6 DEF OpenInv, Tried
  <2>. QED BY <1>2, <1>3, <1>4, <1>6, <2>1 DEF platform_tcp_connect, EachAddress
<1>7. CASE platform # "posix"
  <2>1. at = 1 /\ Tried = {1}
    BY <1>1, <1>7 DEF Tried
  <2>. QED BY <1>2, <1>3, <1>4, <1>7, <2>1
             DEF OpenInv, platform_tcp_connect, FirstResult, FirstHostEntry
<1>. QED BY <1>5, <1>6, <1>7

LEMMA OpenInvNext == SocketsAssumption /\ OpenInv /\ [SockNext]_sockVars => OpenInv'
<1>. SUFFICES ASSUME SocketsAssumption, OpenInv, [SockNext]_sockVars
              PROVE  OpenInv'
  OBVIOUS
<1>1. CASE ConnectStarts
  <2>1. sockPc' = "connect" /\ bell' = FALSE /\ at' = 1 /\ UNCHANGED <<platform, hosts>>
    BY <1>1 DEF ConnectStarts
  <2>2. 1 \in DOMAIN hosts
    BY DEF OpenInv
  <2>3. at' \in Tried' /\ \A i \in 1..(at' - 1) : hosts'[i] = "refuses"
    BY <2>1, <2>2 DEF Tried
  <2>. QED BY <2>1, <2>3 DEF OpenInv
<1>2. CASE platform_tcp_connect
  BY <1>2, ConnectKeepsOpen
<1>3. CASE LookupFails
  BY <1>3 DEF LookupFails, ConnectFails, OpenInv, Tried
<1>4. CASE platform_tcp_close
  <2>1. /\ sockPc = "up" /\ sockPc' = (IF bell THEN "listen" ELSE "idle")
        /\ open' = open \ {"conn"} /\ bell' = FALSE /\ at' = 0
        /\ UNCHANGED <<platform, hosts>>
    BY <1>4 DEF platform_tcp_close
  <2>2. /\ platform' \in {"posix", "windows", "esp32"} /\ bell' \in BOOLEAN /\ ~bell'
        /\ hosts' \in Seq({"accepts", "refuses"}) /\ Len(hosts') > 0
        /\ at' \in Nat /\ ~(at' > 0)
    <3>1. at' \in Nat /\ ~(at' > 0)
      BY <2>1
    <3>2. bell' \in BOOLEAN /\ ~bell'
      BY <2>1
    <3>3. platform' = platform /\ hosts' = hosts
      BY <2>1
    <3>. QED BY <3>1, <3>2, <3>3 DEF OpenInv
  <2>3. CASE bell
    <3>1. sockPc' = "listen" /\ open' = {"listen"}
      BY <2>1, <2>3 DEF OpenInv
    <3>. QED BY <2>2, <3>1 DEF OpenInv
  <2>4. CASE ~bell
    <3>1. sockPc' = "idle" /\ open' = {}
      BY <2>1, <2>4 DEF OpenInv
    <3>. QED BY <2>2, <3>1 DEF OpenInv
  <2>. QED BY <2>3, <2>4
<1>5. CASE platform_tcp_set_timeout \/ Arrive \/ PeerEnds \/ ClientComes
  BY <1>5 DEF platform_tcp_set_timeout, Arrive, PeerEnds, ClientComes, OpenInv, Tried
<1>6. ASSUME NEW n \in Counts, ReadStarts(n) \/ WriteStarts(n)
      PROVE  OpenInv'
  BY <1>6 DEF ReadStarts, WriteStarts, Call, OpenInv, Tried
<1>7. ASSUME NEW k \in Counts, platform_tcp_read(k) \/ platform_tcp_write(k)
      PROVE  OpenInv'
  <2>1. UNCHANGED <<platform, bell, hosts, at, open>> /\ sockPc \in {"read", "write"}
        /\ sockPc' \in {sockPc, "up"}
    BY <1>7 DEF platform_tcp_read, platform_tcp_write, Returns
  <2>. QED BY <2>1 DEF OpenInv, Tried
<1>8. CASE ReadBreaks \/ WriteFails \/ WaitEnds
  BY <1>8 DEF ReadBreaks, WriteFails, WaitEnds, Returns, OpenInv, Tried
<1>9. CASE platform_http_server_start \/ AcceptStarts \/ platform_http_server_stop
  BY <1>9 DEF platform_http_server_start, AcceptStarts, platform_http_server_stop, OpenInv, Tried
<1>10. CASE platform_http_server_accept
  BY <1>10 DEF platform_http_server_accept, OpenInv, Tried
<1>11. ASSUME NEW n \in Counts, NEW k \in 0..MaxCount, platform_http_server_read(n, k)
       PROVE  OpenInv'
  BY <1>11 DEF platform_http_server_read, OpenInv, Tried
<1>12. CASE UNCHANGED sockVars
  BY <1>12 DEF sockVars, OpenInv, Tried
<1>. QED BY <1>1, <1>2, <1>3, <1>4, <1>5, <1>6, <1>7, <1>8, <1>9, <1>10, <1>11, <1>12
         DEF SockNext, Step

(* platform_tcp_connect fails, the name known, only when every address the *)
(* build tries has refused, and no socket of an address that refused is    *)
(* left open: for hosts of any number of addresses.                        *)
THEOREM NoAddressForgotten == SocketsAssumption => (SockSpec => []ConnectsWhereItCan)
<1>. SUFFICES ASSUME SocketsAssumption
              PROVE  SockSpec => []ConnectsWhereItCan
  OBVIOUS
<1>1. OpenInv => ConnectsWhereItCan
  BY DEF OpenInv, ConnectsWhereItCan
<1>. QED BY <1>1, OpenInvInit, OpenInvNext, PTL DEF SockSpec

-----------------------------------------------------------------------------
(* Bytes in a row.                                                         *)

Upto(n) == [i \in 1..n |-> i]
Span(a, n) == [i \in 1..n |-> a + i]

LEMMA UptoIsRow ==
    \A n \in Nat : /\ Upto(n) \in Seq(Nat) /\ Len(Upto(n)) = n
                   /\ \A i \in 1..n : Upto(n)[i] = i
BY DEF Upto

LEMMA SpanIsRow ==
    \A a, n \in Nat : /\ Span(a, n) \in Seq(Nat) /\ Len(Span(a, n)) = n
                      /\ \A i \in 1..n : Span(a, n)[i] = a + i
<1>. SUFFICES ASSUME NEW a \in Nat, NEW n \in Nat
              PROVE  /\ Span(a, n) \in Seq(Nat) /\ Len(Span(a, n)) = n
                     /\ \A i \in 1..n : Span(a, n)[i] = a + i
  OBVIOUS
<1>1. \A i \in 1..n : a + i \in Nat
  OBVIOUS
<1>. QED BY <1>1 DEF Span

LEMMA Join ==
    \A s, t \in Seq(Nat) :
        /\ s \o t \in Seq(Nat) /\ Len(s \o t) = Len(s) + Len(t)
        /\ \A i \in 1..(Len(s) + Len(t)) :
             (s \o t)[i] = IF i <= Len(s) THEN s[i] ELSE t[i - Len(s)]
BY ConcatProperties

LEMMA JoinAgain == \A s, t, u \in Seq(Nat) : (s \o t) \o u = s \o (t \o u)
<1>. SUFFICES ASSUME NEW s \in Seq(Nat), NEW t \in Seq(Nat), NEW u \in Seq(Nat)
              PROVE  (s \o t) \o u = s \o (t \o u)
  OBVIOUS
<1>. DEFINE st == s \o t
            tu == t \o u
            left == st \o u
            right == s \o tu
<1>1. /\ st \in Seq(Nat) /\ Len(st) = Len(s) + Len(t)
      /\ \A i \in 1..(Len(s) + Len(t)) : st[i] = IF i <= Len(s) THEN s[i] ELSE t[i - Len(s)]
  BY Join
<1>2. /\ tu \in Seq(Nat) /\ Len(tu) = Len(t) + Len(u)
      /\ \A i \in 1..(Len(t) + Len(u)) : tu[i] = IF i <= Len(t) THEN t[i] ELSE u[i - Len(t)]
  BY Join
<1>. HIDE DEF st, tu
<1>3. /\ left \in Seq(Nat) /\ Len(left) = Len(st) + Len(u)
      /\ \A i \in 1..(Len(st) + Len(u)) : left[i] = IF i <= Len(st) THEN st[i] ELSE u[i - Len(st)]
  BY <1>1, Join
<1>4. /\ right \in Seq(Nat) /\ Len(right) = Len(s) + Len(tu)
      /\ \A i \in 1..(Len(s) + Len(tu)) : right[i] = IF i <= Len(s) THEN s[i] ELSE tu[i - Len(s)]
  BY <1>2, Join
<1>. HIDE DEF left, right
<1>5. left = right
  <2>1. Len(s) \in Nat /\ Len(t) \in Nat /\ Len(u) \in Nat
    OBVIOUS
  <2>2. Len(left) = Len(right)
    BY <1>1, <1>2, <1>3, <1>4, <2>1
  <2>3. ASSUME NEW i \in 1..Len(left)
        PROVE  left[i] = right[i]
    <3>0. i \in Nat /\ 1 <= i /\ i <= Len(s) + Len(t) + Len(u)
      BY <1>1, <1>3, <2>1
    <3>1. CASE i <= Len(s)
      <4>1. i \in 1..(Len(st) + Len(u)) /\ i <= Len(st) /\ i \in 1..(Len(s) + Len(t)) /\ i \in 1..(Len(s) + Len(tu))
        BY <1>1, <1>2, <2>1, <3>0, <3>1
      <4>2. left[i] = st[i]
        BY <1>3, <4>1
      <4>3. st[i] = s[i]
        BY <1>1, <3>1, <4>1
      <4>4. right[i] = s[i]
        BY <1>4, <3>1, <4>1
      <4>. QED BY <4>2, <4>3, <4>4
    <3>2. CASE ~(i <= Len(s)) /\ i <= Len(s) + Len(t)
      <4>1. /\ i \in 1..(Len(st) + Len(u)) /\ i <= Len(st) /\ i \in 1..(Len(s) + Len(t)) /\ i \in 1..(Len(s) + Len(tu))
            /\ i - Len(s) \in 1..(Len(t) + Len(u)) /\ i - Len(s) <= Len(t)
        BY <1>1, <1>2, <2>1, <3>0, <3>2
      <4>2. left[i] = st[i]
        BY <1>3, <4>1
      <4>3. st[i] = t[i - Len(s)]
        BY <1>1, <3>2, <4>1
      <4>4. right[i] = tu[i - Len(s)]
        BY <1>4, <3>2, <4>1
      <4>5. tu[i - Len(s)] = t[i - Len(s)]
        BY <1>2, <4>1
      <4>. QED BY <4>2, <4>3, <4>4, <4>5
    <3>3. CASE ~(i <= Len(s) + Len(t))
      <4>1. /\ i \in 1..(Len(st) + Len(u)) /\ ~(i <= Len(st)) /\ i \in 1..(Len(s) + Len(tu)) /\ ~(i <= Len(s))
            /\ i - Len(s) \in 1..(Len(t) + Len(u)) /\ ~(i - Len(s) <= Len(t))
            /\ i - Len(st) = (i - Len(s)) - Len(t)
        BY <1>1, <1>2, <2>1, <3>0, <3>3
      <4>2. left[i] = u[i - Len(st)]
        BY <1>3, <4>1
      <4>3. right[i] = tu[i - Len(s)]
        BY <1>4, <4>1
      <4>4. tu[i - Len(s)] = u[(i - Len(s)) - Len(t)]
        BY <1>2, <4>1
      <4>. QED BY <4>1, <4>2, <4>3, <4>4
    <3>. QED BY <3>1, <3>2, <3>3
  <2>. QED BY <1>3, <1>4, <2>2, <2>3, SeqEqual
<1>. QED BY <1>5 DEF left, right, st, tu

LEMMA UptoGoesOn ==
    ASSUME NEW n \in Nat, NEW k \in Nat
    PROVE  Upto(n) \o Span(n, k) = Upto(n + k)
<1>. DEFINE u == Upto(n)
            v == Span(n, k)
            w == Upto(n + k)
<1>0. n + k \in Nat
  OBVIOUS
<1>1. u \in Seq(Nat) /\ Len(u) = n /\ \A i \in 1..n : u[i] = i
  BY UptoIsRow
<1>2. v \in Seq(Nat) /\ Len(v) = k /\ \A i \in 1..k : v[i] = n + i
  BY SpanIsRow
<1>3. w \in Seq(Nat) /\ Len(w) = n + k /\ \A i \in 1..(n + k) : w[i] = i
  BY <1>0, UptoIsRow
<1>. HIDE DEF u, v, w
<1>4. /\ u \o v \in Seq(Nat) /\ Len(u \o v) = n + k
      /\ \A i \in 1..(n + k) : (u \o v)[i] = IF i <= n THEN u[i] ELSE v[i - n]
  BY <1>1, <1>2, Join
<1>5. ASSUME NEW i \in 1..(n + k)
      PROVE  (u \o v)[i] = w[i]
  <2>1. CASE i <= n
    <3>1. i \in 1..n
      BY <2>1
    <3>. QED BY <1>1, <1>3, <1>4, <2>1, <3>1
  <2>2. CASE ~(i <= n)
    <3>1. i - n \in 1..k /\ n + (i - n) = i
      BY <2>2
    <3>. QED BY <1>2, <1>3, <1>4, <2>2, <3>1
  <2>. QED BY <2>1, <2>2
<1>6. u \o v = w
  BY <1>3, <1>4, <1>5, SeqEqual
<1>. QED BY <1>6 DEF u, v, w

LEMMA SpanGoesOn ==
    ASSUME NEW a \in Nat, NEW n \in Nat, NEW k \in Nat
    PROVE  Span(a, n) \o Span(a + n, k) = Span(a, n + k)
<1>. DEFINE u == Span(a, n)
            v == Span(a + n, k)
            w == Span(a, n + k)
<1>0. n + k \in Nat /\ a + n \in Nat
  OBVIOUS
<1>1. u \in Seq(Nat) /\ Len(u) = n /\ \A i \in 1..n : u[i] = a + i
  BY SpanIsRow
<1>2. v \in Seq(Nat) /\ Len(v) = k /\ \A i \in 1..k : v[i] = a + n + i
  BY <1>0, SpanIsRow
<1>3. w \in Seq(Nat) /\ Len(w) = n + k /\ \A i \in 1..(n + k) : w[i] = a + i
  BY <1>0, SpanIsRow
<1>. HIDE DEF u, v, w
<1>4. /\ u \o v \in Seq(Nat) /\ Len(u \o v) = n + k
      /\ \A i \in 1..(n + k) : (u \o v)[i] = IF i <= n THEN u[i] ELSE v[i - n]
  BY <1>1, <1>2, Join
<1>5. ASSUME NEW i \in 1..(n + k)
      PROVE  (u \o v)[i] = w[i]
  <2>1. CASE i <= n
    <3>1. i \in 1..n
      BY <2>1
    <3>. QED BY <1>1, <1>3, <1>4, <2>1, <3>1
  <2>2. CASE ~(i <= n)
    <3>1. i - n \in 1..k /\ a + n + (i - n) = a + i
      BY <2>2
    <3>. QED BY <1>2, <1>3, <1>4, <2>2, <3>1
  <2>. QED BY <2>1, <2>2
<1>6. u \o v = w
  BY <1>3, <1>4, <1>5, SeqEqual
<1>. QED BY <1>6 DEF u, v, w

-----------------------------------------------------------------------------
(* What goes through a connection.                                         *)

StreamTypes ==
    /\ taken \in Nat /\ want \in Nat /\ given \in Nat
    /\ buf \in Seq(Nat) /\ got \in Seq(Nat) /\ put \in Seq(Nat) /\ stream \in Seq(Nat)

\* Before the first call on a connection nothing has gone through it.
Fresh ==
    /\ taken = 0 /\ given = 0 /\ buf = <<>> /\ stream = <<>> /\ got = <<>> /\ put = <<>>

\* In the middle of a read the buffer goes on where the reads so far have
\* ended, and in the middle of a write the system has what the writes have
\* said and the beginning of this one.
Moving ==
    /\ sockPc = "read" => got \o buf = Upto(taken)
    /\ sockPc # "read" => got = Upto(taken)
    /\ sockPc = "write" => stream = put \o Span(given, Len(buf))
    /\ sockPc # "write" => stream = put
    /\ Loops => put = Upto(given)

StreamInv ==
    /\ StreamTypes
    /\ sockPc = "connect" => Fresh
    /\ sockPc \in {"up", "read", "write"} /\ ~broken => Moving

LEMMA FreshMoves ==
    ASSUME Fresh', sockPc' \notin {"read", "write"}
    PROVE  Moving'
<1>1. Upto(taken)' = <<>> /\ Upto(given)' = <<>>
  BY DEF Fresh, Upto
<1>. QED BY <1>1 DEF Fresh, Moving

LEMMA NewConnIsFresh ==
    ASSUME NewConn
    PROVE  StreamTypes' /\ Fresh'
BY EmptySeq DEF NewConn, StreamTypes, Fresh

\* A call of read or write begins with nothing.
LEMMA CallKeepsStream ==
    ASSUME StreamInv, NEW n \in Nat, NEW op \in {"read", "write"}, Call(op, n)
    PROVE  StreamInv'
<1>1. /\ sockPc = "up" /\ sockPc' = op /\ want' = n /\ buf' = <<>>
      /\ UNCHANGED <<platform, bell, taken, given, stream, got, put, broken>>
  BY DEF Call
<1>2. buf' \in Seq(Nat) /\ Len(buf') = 0
  BY <1>1, EmptySeq
<1>3. StreamTypes'
  BY <1>1, <1>2 DEF StreamInv, StreamTypes
<1>4. ASSUME ~broken
      PROVE  Moving'
  <2>1. got = Upto(taken) /\ stream = put /\ (Loops => put = Upto(given))
    BY <1>1, <1>4 DEF StreamInv, Moving
  <2>2. got' \o buf' = Upto(taken)'
    BY <1>1, <2>1, ConcatEmptySeq DEF StreamInv, StreamTypes
  <2>3. Span(given, Len(buf))' = <<>>
    BY <1>2 DEF Span
  <2>4. stream' = put' \o Span(given, Len(buf))'
    BY <1>1, <2>1, <2>3, ConcatEmptySeq DEF StreamInv, StreamTypes
  <2>5. got' = Upto(taken)' /\ stream' = put'
    BY <1>1, <2>1 DEF Upto
  <2>6. Loops' => put' = Upto(given)'
    BY <1>1, <2>1 DEF Loops, Upto
  <2>. QED BY <2>2, <2>4, <2>5, <2>6 DEF Moving
<1>. QED BY <1>1, <1>3, <1>4 DEF StreamInv

LEMMA ReadKeepsStream ==
    ASSUME StreamInv, NEW k \in Nat, platform_tcp_read(k)
    PROVE  StreamInv'
<1>. DEFINE all == buf \o Span(taken, k)
<1>1. /\ sockPc = "read" /\ taken' = taken + k
      /\ UNCHANGED <<platform, bell, given, stream, put, broken>>
  BY DEF platform_tcp_read, Receive
<1>2. \/ Len(all) < want /\ buf' = all /\ UNCHANGED <<sockPc, want, got>>
      \/ sockPc' = "up" /\ want' = 0 /\ buf' = <<>> /\ got' = got \o all
  BY DEF platform_tcp_read, Returns, Span
<1>0. /\ taken \in Nat /\ want \in Nat /\ given \in Nat
      /\ buf \in Seq(Nat) /\ got \in Seq(Nat) /\ put \in Seq(Nat) /\ stream \in Seq(Nat)
  BY DEF StreamInv, StreamTypes
<1>3. Span(taken, k) \in Seq(Nat) /\ all \in Seq(Nat)
  <2>1. Span(taken, k) \in Seq(Nat)
    BY <1>0, SpanIsRow
  <2>. QED BY <1>0, <2>1, Join
<1>. HIDE DEF all
<1>4. StreamTypes'
  <2>1. got \o all \in Seq(Nat) /\ <<>> \in Seq(Nat)
    BY <1>0, <1>3, Join, EmptySeq
  <2>2. taken' \in Nat /\ want' \in Nat /\ given' \in Nat
    BY <1>0, <1>1, <1>2
  <2>3. buf' \in Seq(Nat) /\ got' \in Seq(Nat) /\ put' \in Seq(Nat) /\ stream' \in Seq(Nat)
    BY <1>0, <1>1, <1>2, <1>3, <2>1
  <2>. QED BY <2>2, <2>3 DEF StreamTypes
<1>5. ASSUME ~broken
      PROVE  Moving'
  <2>1. got \o buf = Upto(taken) /\ stream = put /\ (Loops => put = Upto(given))
    BY <1>1, <1>5 DEF StreamInv, Moving
  <2>2. got \o all = (got \o buf) \o Span(taken, k)
    BY <1>0, <1>3, JoinAgain DEF all
  <2>3. got \o all = Upto(taken + k)
    BY <1>0, <2>1, <2>2, UptoGoesOn
  <2>4. stream' = put' /\ (Loops' => put' = Upto(given)')
    BY <1>1, <2>1 DEF Loops, Upto
  <2>5. CASE buf' = all /\ UNCHANGED <<sockPc, got>>
    BY <1>1, <2>3, <2>4, <2>5 DEF Moving, Upto
  <2>6. CASE sockPc' = "up" /\ got' = got \o all
    BY <1>1, <2>3, <2>4, <2>6 DEF Moving, Upto
  <2>. QED BY <1>2, <2>5, <2>6
<1>. QED BY <1>1, <1>2, <1>4, <1>5 DEF StreamInv

LEMMA WriteKeepsStream ==
    ASSUME StreamInv, NEW k \in Nat, platform_tcp_write(k)
    PROVE  StreamInv'
<1>. DEFINE sofar == Len(buf)
            piece == Span(given + sofar, k)
            zeros == [i \in 1..k |-> 0]
<1>0. /\ taken \in Nat /\ want \in Nat /\ given \in Nat
      /\ buf \in Seq(Nat) /\ got \in Seq(Nat) /\ put \in Seq(Nat) /\ stream \in Seq(Nat)
  BY DEF StreamInv, StreamTypes
<1>3. sofar \in Nat /\ given + sofar \in Nat /\ sofar + k \in Nat
  BY <1>0
<1>1. /\ sockPc = "write" /\ k <= want - sofar /\ stream' = stream \o piece
      /\ UNCHANGED <<platform, bell, taken, got, broken>>
  BY DEF platform_tcp_write, Send, Span
<1>2. \/ buf' = buf \o zeros /\ UNCHANGED <<sockPc, want, given, put>>
      \/ /\ sockPc' = "up" /\ want' = 0 /\ buf' = <<>> /\ given' = given + want
         /\ put' = put \o Span(given, sofar + k) /\ (Loops => sofar + k >= want)
  <2>1. CASE Loops /\ sofar + k < want
    BY <2>1 DEF platform_tcp_write
  <2>2. CASE ~(Loops /\ sofar + k < want)
    <3>1. /\ sockPc' = "up" /\ want' = 0 /\ buf' = <<>> /\ given' = given + want
          /\ put' = put \o Span(given, sofar + k)
      BY <2>2 DEF platform_tcp_write, Returns, Span
    <3>2. Loops => sofar + k >= want
      BY <1>0, <1>3, <2>2
    <3>. QED BY <3>1, <3>2
  <2>. QED BY <2>1, <2>2
<1>4. /\ piece \in Seq(Nat) /\ zeros \in Seq(Nat) /\ Len(zeros) = k
      /\ Span(given, sofar) \in Seq(Nat) /\ Span(given, sofar + k) \in Seq(Nat)
  <2>1. zeros \in Seq(Nat) /\ Len(zeros) = k
    OBVIOUS
  <2>. QED BY <1>0, <1>3, <2>1, SpanIsRow
<1>. HIDE DEF piece, zeros
<1>5. buf \o zeros \in Seq(Nat) /\ Len(buf \o zeros) = sofar + k
  BY <1>0, <1>4, Join
<1>6. StreamTypes'
  <2>1. stream \o piece \in Seq(Nat) /\ put \o Span(given, sofar + k) \in Seq(Nat)
    BY <1>0, <1>4, Join
  <2>2. <<>> \in Seq(Nat)
    BY EmptySeq
  <2>3. taken' \in Nat /\ want' \in Nat /\ given' \in Nat
    BY <1>0, <1>1, <1>2
  <2>4. buf' \in Seq(Nat) /\ got' \in Seq(Nat) /\ put' \in Seq(Nat) /\ stream' \in Seq(Nat)
    BY <1>0, <1>1, <1>2, <1>5, <2>1, <2>2
  <2>. QED BY <2>3, <2>4 DEF StreamTypes
<1>7. ASSUME ~broken
      PROVE  Moving'
  <2>1. got = Upto(taken) /\ stream = put \o Span(given, sofar) /\ (Loops => put = Upto(given))
    BY <1>1, <1>7 DEF StreamInv, Moving
  <2>2. stream' = put \o (Span(given, sofar) \o piece)
    <3>1. Span(given, sofar) \in Seq(Nat) /\ piece \in Seq(Nat) /\ put \in Seq(Nat)
      BY <1>0, <1>4
    <3>2. (put \o Span(given, sofar)) \o piece = put \o (Span(given, sofar) \o piece)
      BY ONLY <3>1, JoinAgain
    <3>3. stream' = stream \o piece
      BY <1>1
    <3>. QED BY ONLY <2>1, <3>2, <3>3
  <2>3. stream' = put \o Span(given, sofar + k)
    BY <1>0, <1>3, <2>2, SpanGoesOn DEF piece
  <2>4. got' = Upto(taken)' /\ Loops' = Loops
    BY <1>1, <2>1 DEF Upto, Loops
  <2>5. CASE buf' = buf \o zeros /\ UNCHANGED <<sockPc, want, given, put>>
    <3>1. stream' = put' \o Span(given, Len(buf))'
      BY <1>5, <2>3, <2>5 DEF Span
    <3>2. Loops' => put' = Upto(given)'
      BY <2>1, <2>4, <2>5 DEF Upto
    <3>. QED BY <1>1, <2>4, <2>5, <3>1, <3>2 DEF Moving
  <2>6. CASE /\ sockPc' = "up" /\ given' = given + want
             /\ put' = put \o Span(given, sofar + k) /\ (Loops => sofar + k >= want)
    <3>1. ASSUME Loops
          PROVE  put' = Upto(given)'
      <4>1. sofar + k = want
        <5>1. sofar + k >= want
          BY <2>6, <3>1
        <5>2. want \in Nat /\ sofar \in Nat /\ k \in Nat
          BY <1>0, <1>3
        <5>3. k <= want - sofar
          BY <1>1
        <5>. QED BY ONLY <5>1, <5>2, <5>3
      <4>2. put' = Upto(given) \o Span(given, want)
        BY <2>1, <2>6, <3>1, <4>1
      <4>. QED BY <1>0, <2>6, <4>2, UptoGoesOn DEF Upto
    <3>. QED BY <2>3, <2>4, <2>6, <3>1 DEF Moving
  <2>. QED BY <1>2, <2>5, <2>6
<1>. QED BY <1>1, <1>2, <1>6, <1>7 DEF StreamInv

\* One receive of the bell's.
LEMMA BellReadKeepsStream ==
    ASSUME StreamInv, NEW n \in Nat, NEW k \in Nat, platform_http_server_read(n, k)
    PROVE  StreamInv'
<1>1. /\ sockPc = "up" /\ taken' = taken + k /\ got' = got \o Span(taken, k)
      /\ UNCHANGED <<platform, bell, sockPc, want, buf, given, stream, put, broken>>
  BY DEF platform_http_server_read, Receive, Span
<1>2. StreamTypes'
  <2>1. got \o Span(taken, k) \in Seq(Nat)
    BY SpanIsRow, Join DEF StreamInv, StreamTypes
  <2>. QED BY <1>1, <2>1 DEF StreamInv, StreamTypes
<1>3. ASSUME ~broken
      PROVE  Moving'
  <2>1. got = Upto(taken) /\ stream = put /\ (Loops => put = Upto(given))
    BY <1>1, <1>3 DEF StreamInv, Moving
  <2>2. got' = Upto(taken + k)
    BY <1>1, <2>1, UptoGoesOn DEF StreamInv, StreamTypes
  <2>3. Loops' => put' = Upto(given)'
    BY <1>1, <2>1 DEF Loops, Upto
  <2>. QED BY <1>1, <2>1, <2>2, <2>3 DEF Moving, Upto
<1>. QED BY <1>1, <1>2, <1>3 DEF StreamInv

\* Steps that leave the connection's bytes alone, and do not begin or end a call.
LEMMA SameStream ==
    ASSUME StreamInv, UNCHANGED <<taken, want, buf, given, stream, got, put, broken>>,
           UNCHANGED <<platform, bell, sockPc>>
    PROVE  StreamInv'
BY DEF StreamInv, StreamTypes, Fresh, Moving, Loops, Upto, Span

\* Steps outside of a connection.
LEMMA ElsewhereKeepsStream ==
    ASSUME StreamInv, UNCHANGED conn, sockPc' \notin {"connect", "up", "read", "write"}
    PROVE  StreamInv'
BY DEF StreamInv, StreamTypes, conn

LEMMA StreamInvNext ==
    SocketsAssumption /\ OpenInv /\ StreamInv /\ [SockNext]_sockVars => StreamInv'
<1>. SUFFICES ASSUME SocketsAssumption, OpenInv, StreamInv, [SockNext]_sockVars
              PROVE  StreamInv'
  OBVIOUS
<1>0. Counts \subseteq Nat /\ 0..MaxCount \subseteq Nat
  BY DEF SocketsAssumption, Counts
<1>1. CASE ConnectStarts
  <2>1. sockPc' = "connect" /\ StreamTypes' /\ Fresh'
    BY <1>1, NewConnIsFresh DEF ConnectStarts
  <2>. QED BY <2>1 DEF StreamInv
<1>2. CASE platform_tcp_connect \/ LookupFails
  <2>1. sockPc = "connect" /\ UNCHANGED conn /\ Fresh
    BY <1>2 DEF platform_tcp_connect, LookupFails, StreamInv
  <2>2. sockPc' \in {"connect", "up", "idle"}
    <3>1. CASE LookupFails
      BY <3>1 DEF LookupFails, ConnectFails
    <3>2. CASE platform_tcp_connect
      <4>1. platform \in {"posix", "windows", "esp32"}
        BY DEF OpenInv
      <4>2. EachAddress \/ FirstResult \/ FirstHostEntry
        BY <3>2, <4>1 DEF platform_tcp_connect
      <4>. QED BY <2>1, <4>2 DEF EachAddress, FirstResult, FirstHostEntry, Connected, ConnectFails
    <3>. QED BY <1>2, <3>1, <3>2
  <2>3. StreamTypes' /\ Fresh'
    BY <2>1 DEF StreamInv, StreamTypes, Fresh, conn
  <2>4. Moving'
    BY <2>2, <2>3, FreshMoves
  <2>. QED BY <2>3, <2>4 DEF StreamInv
<1>3. CASE platform_tcp_close
  <2>1. sockPc' \in {"listen", "idle"} /\ StreamTypes'
    BY <1>3, NewConnIsFresh DEF platform_tcp_close
  <2>. QED BY <2>1 DEF StreamInv
<1>4. CASE platform_tcp_set_timeout \/ Arrive \/ PeerEnds \/ ClientComes
  <2>1. /\ UNCHANGED <<taken, want, buf, given, stream, got, put, broken>>
        /\ UNCHANGED <<platform, bell, sockPc>>
    BY <1>4 DEF platform_tcp_set_timeout, Arrive, PeerEnds, ClientComes, conn
  <2>. QED BY <2>1, SameStream
<1>5. ASSUME NEW n \in Counts, ReadStarts(n) \/ WriteStarts(n)
      PROVE  StreamInv'
  BY <1>0, <1>5, CallKeepsStream DEF ReadStarts, WriteStarts
<1>6. ASSUME NEW k \in Counts, platform_tcp_read(k) \/ platform_tcp_write(k)
      PROVE  StreamInv'
  BY <1>0, <1>6, ReadKeepsStream, WriteKeepsStream
<1>7. CASE ReadBreaks \/ WriteFails \/ WaitEnds
  <2>1. /\ sockPc' = "up" /\ broken' = TRUE /\ want' = 0 /\ buf' = <<>>
        /\ given' \in {given, given + want}
        /\ UNCHANGED <<taken, stream, got, put>>
    BY <1>7 DEF ReadBreaks, WriteFails, WaitEnds, Returns
  <2>2. <<>> \in Seq(Nat)
    BY EmptySeq
  <2>. QED BY <2>1, <2>2 DEF StreamInv, StreamTypes
<1>8. CASE platform_http_server_start \/ AcceptStarts \/ platform_http_server_stop
  <2>1. UNCHANGED conn /\ sockPc' \in {"listen", "idle", "accept"}
    BY <1>8 DEF platform_http_server_start, AcceptStarts, platform_http_server_stop
  <2>. QED BY <2>1, ElsewhereKeepsStream
<1>9. CASE platform_http_server_accept
  <2>1. CASE sockPc' = "up" /\ NewConn
    <3>1. StreamTypes' /\ Fresh'
      BY <2>1, NewConnIsFresh
    <3>2. Moving'
      BY <2>1, <3>1, FreshMoves
    <3>. QED BY <2>1, <3>1, <3>2 DEF StreamInv
  <2>2. CASE sockPc' = "listen" /\ UNCHANGED conn
    BY <2>2, ElsewhereKeepsStream
  <2>. QED BY <1>9, <2>1, <2>2 DEF platform_http_server_accept, conn
<1>10. ASSUME NEW n \in Counts, NEW k \in 0..MaxCount, platform_http_server_read(n, k)
       PROVE  StreamInv'
  BY <1>0, <1>10, BellReadKeepsStream
<1>11. CASE UNCHANGED sockVars
  <2>1. /\ UNCHANGED <<taken, want, buf, given, stream, got, put, broken>>
        /\ UNCHANGED <<platform, bell, sockPc>>
    BY <1>11 DEF sockVars, conn
  <2>. QED BY <2>1, SameStream
<1>. QED BY <1>1, <1>2, <1>3, <1>4, <1>5, <1>6, <1>7, <1>8, <1>9, <1>10, <1>11
         DEF SockNext, Step

(* As long as no call on a connection has failed, what was read is what    *)
(* the peer sent, and what was sent is what the writes say, in order and   *)
(* with nothing left out, for pieces and calls of any length.              *)
THEOREM BytesStayInOrder == SocketsAssumption => (SockSpec => []InStep)
<1>. SUFFICES ASSUME SocketsAssumption
              PROVE  SockSpec => []InStep
  OBVIOUS
<1>1. SockInit => StreamInv
  <2>. SUFFICES ASSUME SockInit
                PROVE  StreamInv
    OBVIOUS
  <2>1. StreamTypes /\ sockPc = "idle"
    BY EmptySeq DEF SockInit, NoConn, StreamTypes
  <2>. QED BY <2>1 DEF StreamInv
<1>2. StreamInv => InStep
  BY DEF StreamInv, Moving, InStep, Upto, Loops
<1>. QED BY <1>1, <1>2, OpenInvInit, OpenInvNext, StreamInvNext, PTL DEF SockSpec

-----------------------------------------------------------------------------
(* Audio.                                                                  *)

Decryptions == [file : Files, n : Nat]

\* The buffer begins with the downloaded bytes; after one decryption with the
\* right key, each it covered carries the key stream of its own position and
\* that of its place in the buffer, which cancel out only if they are one.
BufferInv ==
  ops = <<>> =>
    \A i \in 1 .. chunk.got : buffer[i] = Cipher(chunk.file, chunk.from + i - 1)

DecryptedInv ==
  Len(ops) = 1 /\ ops[1].file = chunk.file =>
    \A i \in 1 .. chunk.got : i <= ops[1].n =>
      buffer[i].ks = SymDiff({<<chunk.file, chunk.from + i - 1>>}, {Counter(chunk.file, i)})

\* A partial answer begins at the offset and is no longer than the range.
ChunkInv ==
  /\ chunk.got \in Nat /\ chunk.got <= BufSize /\ chunk.from \in Nat
  /\ ops \in Seq(Decryptions)
  /\ chunk.status = 206 /\ chunk.length > 0 =>
       chunk.from = chunk.offset /\ chunk.got <= chunk.length

AudioInv == ChunkInv /\ BufferInv /\ DecryptedInv

-----------------------------------------------------------------------------

\* size_t counts round: the end of a range that wraps is before its beginning,
\* and no server can answer it with a part.
LEMMA RangeIsLength ==
  ASSUME AudioAssumption, NEW offset \in 0 .. SizeMod - 1, NEW length \in 0 .. SizeMod - 1,
         length > 0, Range_hdr(offset, length).first <= Range_hdr(offset, length).last
  PROVE  /\ Range_hdr(offset, length).first = offset
         /\ Range_hdr(offset, length).last = offset + length - 1
<1>. DEFINE x == offset + length - 1
<1>1. SizeMod \in Nat /\ SizeMod > 0
  BY DEF AudioAssumption
<1>2. x \in Nat /\ x < 2 * SizeMod
  BY <1>1
<1>3. /\ Range_hdr(offset, length).first = offset
      /\ Range_hdr(offset, length).last = x % SizeMod
  BY DEF Range_hdr
<1>4. offset <= x % SizeMod
  BY <1>3
<1>5. CASE x < SizeMod
  <2>1. x % SizeMod = x
    BY <1>1, <1>2, <1>5
  <2>. QED BY <1>3, <2>1
<1>6. CASE ~(x < SizeMod)
  <2>1. x - SizeMod < offset
    BY <1>1
  <2>2. x % SizeMod = x - SizeMod
    <3>. HIDE DEF x
    <3>. QED BY <1>1, <1>2, <1>6
  <2>. QED BY <1>1, <1>4, <2>1, <2>2
<1>. QED BY <1>5, <1>6

\* What an answer to a call holds.
LEMMA AnswerRight ==
  ASSUME AudioAssumption, NEW offset \in Offsets, NEW length \in Lengths,
         NEW a \in Answers(Range_hdr(offset, length))
  PROVE  /\ a.from \in Nat /\ a.n \in Int
         /\ a.status = 206 /\ length > 0 => a.from = offset /\ a.n <= length
<1>. DEFINE r == Range_hdr(offset, length)
            whole == [status |-> 200, from |-> 0, n |-> FileLen]
            last == Min({r.last, FileLen - 1})
            part == [status |-> 206, from |-> r.first, n |-> last - r.first + 1]
<1>1. /\ offset \in 0 .. SizeMod - 1 /\ length \in 0 .. SizeMod - 1
      /\ SizeMod \in Nat /\ FileLen \in Nat
  BY DEF AudioAssumption
<1>2. r.first = offset /\ r.last \in Int
  <2>1. r.last = (offset + length - 1) % SizeMod /\ r.first = offset
    BY DEF Range_hdr
  <2>2. (offset + length - 1) % SizeMod \in Int
    BY <1>1
  <2>. QED BY <2>1, <2>2
<1>3. last \in Int /\ last <= r.last
  <2>. HIDE DEF r
  <2>. QED BY <1>1, <1>2, MinOfTwo
<1>4. a = whole \/ (r.first <= r.last /\ a = part)
  BY DEF Answers
<1>5. CASE a = whole
  BY <1>1, <1>5
<1>6. CASE r.first <= r.last /\ a = part
  <2>1. a.from = offset /\ a.n = last - offset + 1
    BY <1>2, <1>6
  <2>2. length > 0 => r.last = offset + length - 1
    BY <1>1, <1>6, RangeIsLength
  <2>. HIDE DEF r, last
  <2>3. length > 0 => a.n <= length
    BY <1>1, <1>2, <1>3, <2>1, <2>2
  <2>. QED BY <1>1, <1>3, <2>1, <2>3
<1>. QED BY <1>4, <1>5, <1>6

-----------------------------------------------------------------------------

LEMMA AudioInvInit == AudioAssumption /\ AudioInit => AudioInv
<1>. SUFFICES ASSUME AudioAssumption, AudioInit
              PROVE  AudioInv
  OBVIOUS
<1>1. /\ chunk = NoChunk /\ ops = <<>>
      /\ chunk.got = 0 /\ chunk.from = 0 /\ chunk.status = 0
  BY DEF AudioInit, NoChunk
<1>2. ChunkInv
  BY <1>1 DEF ChunkInv, AudioAssumption
<1>3. BufferInv /\ DecryptedInv
  BY <1>1 DEF BufferInv, DecryptedInv
<1>. QED BY <1>2, <1>3 DEF AudioInv

LEMMA DownloadKeeps ==
  ASSUME AudioAssumption, spclient_download_audio
  PROVE  AudioInv'
<1>0. PICK url \in Files, offset \in Offsets, length \in Lengths :
        \E a \in Answers(Range_hdr(offset, length)), k \in 0 .. RespMax :
          /\ k <= a.n
          /\ buffer' = [i \in 1 .. BufSize |->
                          IF i <= CopyLen(k) THEN Cipher(url, a.from + i - 1) ELSE buffer[i]]
          /\ chunk' = [file |-> url, length |-> length, offset |-> offset,
                       from |-> a.from, status |-> a.status, got |-> CopyLen(k)]
  BY DEF spclient_download_audio
<1>1. PICK a \in Answers(Range_hdr(offset, length)), k \in 0 .. RespMax :
        /\ k <= a.n
        /\ buffer' = [i \in 1 .. BufSize |->
                        IF i <= CopyLen(k) THEN Cipher(url, a.from + i - 1) ELSE buffer[i]]
        /\ chunk' = [file |-> url, length |-> length, offset |-> offset,
                     from |-> a.from, status |-> a.status, got |-> CopyLen(k)]
  BY <1>0
<1>2. ops' = <<>>
  BY DEF spclient_download_audio
<1>3. /\ a.from \in Nat /\ a.n \in Int
      /\ a.status = 206 /\ length > 0 => a.from = offset /\ a.n <= length
  BY AnswerRight
<1>4. CopyLen(k) \in Nat /\ CopyLen(k) <= k /\ CopyLen(k) <= BufSize /\ BufSize \in Nat
  <2>1. k \in Int /\ k >= 0 /\ BufSize \in Nat
    BY DEF AudioAssumption
  <2>2. CopyLen(k) = IF k <= BufSize THEN k ELSE BufSize
    BY <2>1, MinOfTwo DEF CopyLen
  <2>. QED BY <2>1, <2>2
<1>5. /\ chunk'.file = url /\ chunk'.length = length /\ chunk'.offset = offset
      /\ chunk'.from = a.from /\ chunk'.status = a.status /\ chunk'.got = CopyLen(k)
  BY <1>1
<1>6. ChunkInv'
  <2>1. a.status = 206 /\ length > 0 => CopyLen(k) <= length
    <3>1. length \in Int /\ k \in Int
      BY DEF AudioAssumption
    <3>. QED BY <1>1, <1>3, <1>4, <3>1
  <2>2. ops' \in Seq(Decryptions)
    BY <1>2
  <2>. QED BY <1>3, <1>4, <1>5, <2>1, <2>2 DEF ChunkInv
<1>7. BufferInv'
  <2>1. ASSUME NEW i \in 1 .. CopyLen(k)
        PROVE  buffer'[i] = Cipher(url, a.from + i - 1)
    <3>1. i \in 1 .. BufSize /\ i <= CopyLen(k)
      BY <1>4
    <3>. QED BY <1>1, <3>1
  <2>. QED BY <1>5, <2>1 DEF BufferInv
<1>8. DecryptedInv'
  BY <1>2 DEF DecryptedInv
<1>. QED BY <1>6, <1>7, <1>8 DEF AudioInv

LEMMA DecryptKeeps ==
  ASSUME AudioAssumption, AudioInv, decrypt_audio
  PROVE  AudioInv'
<1>1. PICK f \in Files, n \in Lengths :
        /\ 0 < n /\ n <= BufSize
        /\ buffer' = [i \in 1 .. BufSize |->
                        IF i <= n THEN [buffer[i] EXCEPT !.ks = SymDiff(@, {Counter(f, i)})]
                        ELSE buffer[i]]
        /\ ops' = Append(ops, [file |-> f, n |-> n])
  BY DEF decrypt_audio
<1>2. chunk' = chunk
  BY DEF decrypt_audio
<1>3. ops \in Seq(Decryptions) /\ [file |-> f, n |-> n] \in Decryptions
  BY DEF AudioInv, ChunkInv, AudioAssumption, Decryptions
<1>4. /\ ops' \in Seq(Decryptions) /\ Len(ops') = Len(ops) + 1 /\ Len(ops) \in Nat
      /\ Len(ops) = 0 => ops = <<>> /\ ops'[1] = [file |-> f, n |-> n]
  BY <1>1, <1>3
<1>5. ChunkInv'
  BY <1>2, <1>4 DEF AudioInv, ChunkInv
<1>6. BufferInv'
  <2>1. ops' # <<>>
    BY <1>4
  <2>. QED BY <2>1 DEF BufferInv
<1>7. DecryptedInv'
  <2>. SUFFICES ASSUME Len(ops') = 1, ops'[1].file = chunk'.file,
                       NEW i \in 1 .. chunk'.got, i <= ops'[1].n
                PROVE  buffer'[i].ks = SymDiff({<<chunk'.file, chunk'.from + i - 1>>},
                                               {Counter(chunk'.file, i)})
    BY DEF DecryptedInv
  <2>1. ops = <<>> /\ f = chunk.file /\ i <= n
    <3>1. Len(ops) = 0
      BY <1>4
    <3>2. ops'[1].file = f /\ ops'[1].n = n
      BY <1>4, <3>1
    <3>. QED BY <1>2, <1>4, <3>1, <3>2
  <2>2. buffer[i] = Cipher(chunk.file, chunk.from + i - 1)
    BY <1>2, <2>1 DEF AudioInv, BufferInv
  <2>3. i \in 1 .. BufSize
    BY <1>2 DEF AudioInv, ChunkInv, AudioAssumption
  <2>4. buffer'[i] = [buffer[i] EXCEPT !.ks = SymDiff(@, {Counter(f, i)})]
    BY <1>1, <2>1, <2>3
  <2>5. buffer'[i].ks = SymDiff({<<chunk.file, chunk.from + i - 1>>}, {Counter(f, i)})
    BY <2>2, <2>4 DEF Cipher
  <2>. QED BY <1>2, <2>1, <2>5
<1>. QED BY <1>5, <1>6, <1>7 DEF AudioInv

LEMMA AudioInvariance == AudioAssumption => (AudioSpec => []AudioInv)
<1>. SUFFICES ASSUME AudioAssumption
              PROVE  AudioSpec => []AudioInv
  OBVIOUS
<1>1. AudioInv /\ [AudioNext]_audioVars => AudioInv'
  <2>. SUFFICES ASSUME AudioInv, [AudioNext]_audioVars
                PROVE  AudioInv'
    OBVIOUS
  <2>1. CASE UNCHANGED audioVars
    BY <2>1 DEF audioVars, AudioInv, ChunkInv, BufferInv, DecryptedInv
  <2>. QED BY <2>1, DownloadKeeps, DecryptKeeps DEF AudioNext
<1>. QED BY <1>1, AudioInvInit, PTL DEF AudioSpec

(* A server that honours the Range header makes the buffer begin with the  *)
(* bytes asked for and no more, even where offset + length goes round.     *)
THEOREM RangeAnswered == AudioAssumption => (AudioSpec => []RangeHonoured)
<1>. SUFFICES ASSUME AudioAssumption
              PROVE  AudioSpec => []RangeHonoured
  OBVIOUS
<1>1. AudioInv => RangeHonoured
  BY DEF AudioInv, ChunkInv, BufferInv, RangeHonoured
<1>. QED BY <1>1, AudioInvariance, PTL

(* One call of decrypt_audio makes what it covers of a chunk that begins   *)
(* the file plain.                                                         *)
THEOREM OneCallFromStart == AudioAssumption => (AudioSpec => []PlainFromStart)
<1>. SUFFICES ASSUME AudioAssumption
              PROVE  AudioSpec => []PlainFromStart
  OBVIOUS
<1>1. AudioInv => PlainFromStart
  <2>. SUFFICES ASSUME AudioInv, chunk.from = 0, NEW i \in Covered
                PROVE  buffer[i].ks = {}
    BY DEF PlainFromStart
  <2>0. Len(ops) = 1 /\ ops[1].file = chunk.file /\ i \in 1 .. Min({ops[1].n, chunk.got})
    BY DEF Covered
  <2>1. chunk.from \in Nat /\ chunk.got \in Nat /\ ops[1].n \in Nat
    <3>1. ops \in Seq(Decryptions)
      BY DEF AudioInv, ChunkInv
    <3>2. ops[1] \in Decryptions
      <4>1. Len(ops) = 1
        BY <2>0
      <4>. QED BY ONLY <3>1, <4>1
    <3>. QED BY <3>2 DEF AudioInv, ChunkInv, Decryptions
  <2>2. i \in 1 .. chunk.got /\ i <= ops[1].n
    BY <2>0, <2>1, MinOfTwo
  <2>3. buffer[i].ks = SymDiff({<<chunk.file, chunk.from + i - 1>>}, {<<chunk.file, i - 1>>})
    BY <2>0, <2>2 DEF AudioInv, DecryptedInv, Counter
  <2>4. buffer[i].ks = SymDiff({<<chunk.file, i - 1>>}, {<<chunk.file, i - 1>>})
    <3>1. chunk.from + i - 1 = i - 1
      BY <2>0, <2>1
    <3>. QED BY <2>3, <3>1
  <2>. QED BY <2>4 DEF SymDiff
<1>. QED BY <1>1, AudioInvariance, PTL

-----------------------------------------------------------------------------
(* The files of a track.                                                   *)

\* seen[j] are the file_ids among the first j tokens.
AreSeen(seen, toks) ==
    /\ seen[0] = <<>>
    /\ \A j \in 1..Len(toks) :
        seen[j] = IF toks[j].kind = "id" THEN Append(seen[j - 1], j) ELSE seen[j - 1]

LEMMA SeenOf ==
    ASSUME NEW toks, Len(toks) \in Nat
    PROVE  \E seen \in [0..Len(toks) -> Seq(Nat)] :
             AreSeen(seen, toks) /\ IdPlaces(toks) = seen[Len(toks)]
<1>. DEFINE n == Len(toks)
            SeenNow(j, s) == IF toks[j].kind = "id" THEN Append(s, j) ELSE s
            Body(g) == [j \in 0..n |-> IF j = 0 THEN <<>> ELSE SeenNow(j, g[j - 1])]
            step == [j \in 1..n |-> [s \in Seq(Nat) |-> SeenNow(j, s)]]
            seen == CHOOSE g : g = Body(g)
<1>1. n \in Nat /\ <<>> \in Seq(Nat)
  OBVIOUS
<1>2. \A j \in 1..n, s \in Seq(Nat) : SeenNow(j, s) \in Seq(Nat)
  OBVIOUS
<1>3. step \in [1..n -> [Seq(Nat) -> Seq(Nat)]]
  <2>. HIDE DEF SeenNow
  <2>. QED BY <1>2
<1>4. PICK g : g \in [0..n -> Seq(Nat)] /\ Recursive(g, <<>>, step, n)
  <2>. HIDE DEF step, n
  <2>. QED BY <1>1, <1>3, RecursionExists
<1>5. g[0] = <<>> /\ \A j \in 1..n : g[j] = step[j][g[j - 1]]
  <2>. DEFINE start == <<>>
  <2>. HIDE DEF step, n, start
  <2>1. n \in Nat /\ Recursive(g, start, step, n)
    BY <1>1, <1>4 DEF start
  <2>2. g[0] = start /\ \A j \in 1..n : g[j] = step[j][g[j - 1]]
    BY ONLY <2>1, RecursionUnwinds
  <2>. QED BY <2>2 DEF start
<1>6. \A j \in 1..n : g[j] = SeenNow(j, g[j - 1])
  <2>1. \A j \in 1..n : g[j - 1] \in Seq(Nat)
    BY <1>1, <1>4
  <2>. HIDE DEF SeenNow
  <2>. QED BY <1>5, <2>1
<1>7. g = Body(g)
  <2>1. g = [j \in 0..n |-> g[j]]
    BY <1>4
  <2>2. \A j \in 0..n : j = 0 \/ j \in 1..n
    BY <1>1
  <2>3. \A j \in 1..n : j # 0
    OBVIOUS
  <2>4. \A j \in 0..n : g[j] = IF j = 0 THEN <<>> ELSE SeenNow(j, g[j - 1])
    <3>. HIDE DEF SeenNow, n
    <3>. QED BY <1>5, <1>6, <2>2, <2>3
  <2>. HIDE DEF SeenNow
  <2>. QED BY <2>1, <2>4
<1>8. seen = Body(seen)
  <2>1. \E h : h = Body(h)
    <3>. HIDE DEF Body
    <3>. QED BY <1>7
  <2>. HIDE DEF Body
  <2>. QED BY <2>1, Zenon
<1>9. IdPlaces(toks) = seen[n]
  <2>. HIDE DEF seen
  <2>. QED BY DEF IdPlaces, seen, Body, SeenNow, n
<1>. HIDE DEF seen
<1>10. seen[0] = <<>> /\ \A j \in 1..n : seen[j] = SeenNow(j, seen[j - 1])
  <2>1. \A j \in 1..n : j \in 0..n /\ j # 0
    OBVIOUS
  <2>2. 0 \in 0..n
    BY <1>1
  <2>. HIDE DEF SeenNow
  <2>3. \A j \in 0..n : seen[j] = IF j = 0 THEN <<>> ELSE SeenNow(j, seen[j - 1])
    BY <1>8
  <2>. QED BY <2>1, <2>2, <2>3
<1>11. \A j \in 0..n : seen[j] = g[j]
  <2>1. \A j \in 1..n : seen[j - 1] = g[j - 1] => seen[j] = g[j]
    <3>. HIDE DEF SeenNow
    <3>. QED BY <1>6, <1>10
  <2>2. seen[0] = g[0]
    BY <1>5, <1>10
  <2>. HIDE DEF n, SeenNow, Body, step
  <2>3. n \in Nat
    BY <1>1
  <2>. QED BY ONLY <2>1, <2>2, <2>3, SameRecursion
<1>12. seen \in [0..n -> Seq(Nat)]
  <2>1. seen = [j \in 0..n |-> seen[j]]
    <3>. HIDE DEF SeenNow
    <3>. QED BY <1>8
  <2>2. \A j \in 0..n : g[j] \in Seq(Nat)
    BY <1>4
  <2>3. \A j \in 0..n : seen[j] \in Seq(Nat)
    BY <1>11, <2>2
  <2>. QED BY <2>1, <2>3, Zenon
<1>13. AreSeen(seen, toks)
  BY <1>10 DEF AreSeen
<1>. QED BY <1>9, <1>12, <1>13

-----------------------------------------------------------------------------

Tok == [kind : {"id", "fmt"}, v : FileIds \cup Formats]

\* The tokens of the i-th entry of d follow the first len[i - 1], up to len[i],
\* and the file_ids of the other arrays follow those of the last.
Laid(toks, len, d) ==
    /\ len[0] = 0
    /\ \A i \in DOMAIN d.entries :
        /\ toks[len[i - 1] + 1] = Id(d.entries[i].id) /\ len[i] <= Len(toks)
        /\ d.entries[i].fmt = Missing => len[i] = len[i - 1] + 1
        /\ d.entries[i].fmt # Missing =>
            len[i] = len[i - 1] + 2 /\ toks[len[i - 1] + 2] = Fmt(d.entries[i].fmt)
    /\ Len(toks) = len[Len(d.entries)] + Len(d.after)
    /\ \A j \in DOMAIN d.after : toks[len[Len(d.entries)] + j] = Id(d.after[j])

LEMMA DocIs ==
    ASSUME TrackAssumption, NEW d \in Docs
    PROVE  d.entries \in Seq(Entry) /\ d.after \in Seq(FileIds)
<1>1. ASSUME NEW S, NEW n \in Nat, NEW s \in SeqOf(S, n)
      PROVE  s \in Seq(S)
  <2>1. PICK m \in 0..n : s \in [1..m -> S]
    BY DEF SeqOf
  <2>. QED BY <2>1
<1>2. d.entries \in SeqOf(Entry, MaxEntries) /\ d.after \in SeqOf(FileIds, 1)
  BY DEF Docs
<1>. QED BY <1>1, <1>2 DEF TrackAssumption

LEMMA EntryTokensAre ==
    ASSUME NEW e \in Entry
    PROVE  /\ EntryTokens(e) \in Seq(Tok)
           /\ EntryTokens(e)[1] = Id(e.id)
           /\ e.fmt = Missing => Len(EntryTokens(e)) = 1
           /\ e.fmt # Missing => /\ Len(EntryTokens(e)) = 2
                                 /\ EntryTokens(e)[2] = Fmt(e.fmt)
<1>1. Id(e.id) \in Tok
  BY DEF Entry, Id, Tok
<1>2. CASE e.fmt = Missing
  BY <1>1, <1>2 DEF EntryTokens
<1>3. CASE e.fmt # Missing
  <2>1. Fmt(e.fmt) \in Tok
    BY <1>3 DEF Entry, Fmt, Tok
  <2>. QED BY <1>1, <1>3, <2>1 DEF EntryTokens
<1>. QED BY <1>2, <1>3

\* What joining keeps in place, and what it puts after it.
LEMMA JoinKeeps ==
    ASSUME NEW S, NEW s \in Seq(S), NEW t \in Seq(S)
    PROVE  /\ s \o t \in Seq(S) /\ Len(s \o t) = Len(s) + Len(t)
           /\ \A i \in 1..Len(s) : (s \o t)[i] = s[i]
           /\ \A j \in 1..Len(t) : (s \o t)[Len(s) + j] = t[j]
OBVIOUS

LEMMA TokensLaid ==
    ASSUME TrackAssumption, NEW d \in Docs
    PROVE  \E len : len \in [0..Len(d.entries) -> Nat] /\ Laid(Tokens(d), len, d)
<1>. DEFINE es == d.entries
            n == Len(es)
            parts == [k \in DOMAIN es |-> EntryTokens(es[k])]
            after == [k \in DOMAIN d.after |-> Id(d.after[k])]
<1>1. es \in Seq(Entry) /\ n \in Nat /\ DOMAIN es = 1..n /\ \A i \in 1..n : es[i] \in Entry
  BY DocIs
<1>2. /\ after \in Seq(Tok) /\ Len(after) = Len(d.after) /\ DOMAIN d.after = 1..Len(d.after)
      /\ \A j \in DOMAIN d.after : after[j] = Id(d.after[j])
  <2>1. d.after \in Seq(FileIds)
    BY DocIs
  <2>2. \A f \in FileIds : Id(f) \in Tok
    BY DEF Id, Tok
  <2>. QED BY <2>1, <2>2
<1>3. parts \in Seq(Seq(Tok)) /\ Len(parts) = n /\ \A i \in 1..n : parts[i] = EntryTokens(es[i])
  <2>1. \A i \in 1..n : EntryTokens(es[i]) \in Seq(Tok)
    BY <1>1, EntryTokensAre
  <2>2. parts = [k \in 1..n |-> EntryTokens(es[k])]
    BY <1>1
  <2>3. parts \in [1..n -> Seq(Tok)]
    <3>. HIDE DEF n, es
    <3>. QED BY <2>1, <2>2
  <2>. HIDE DEF n, es, parts
  <2>. QED BY <1>1, <2>2, <2>3
<1>4. PICK flat : /\ flat \in [0..n -> Seq(Tok)] /\ AreJoined(flat, parts)
                  /\ FlattenSeq(parts) = flat[n]
  <2>. HIDE DEF parts
  <2>. QED BY <1>3, JoinedOf
<1>5. Tokens(d) = flat[n] \o after
  BY <1>4 DEF Tokens
<1>. HIDE DEF after, parts
<1>6. flat[0] = <<>> /\ \A i \in 1..n : flat[i] = flat[i - 1] \o EntryTokens(es[i])
  BY <1>3, <1>4 DEF AreJoined
<1>. DEFINE len == [k \in 0..n |-> Len(flat[k])]
<1>7. len \in [0..n -> Nat] /\ len[0] = 0
  <2>1. \A k \in 0..n : flat[k] \in Seq(Tok)
    BY <1>4
  <2>2. 0 \in 0..n
    BY <1>1
  <2>. QED BY <1>6, <2>1, <2>2
<1>8. \A i \in 1..n : /\ i - 1 \in 0..n /\ i \in 0..n
                      /\ flat[i - 1] \in Seq(Tok) /\ len[i - 1] = Len(flat[i - 1])
                      /\ flat[i] \in Seq(Tok) /\ len[i] = Len(flat[i])
  <2>1. \A i \in 1..n : i - 1 \in 0..n /\ i \in 0..n
    BY <1>1
  <2>. HIDE DEF n
  <2>. QED BY <1>4, <2>1
<1>9. ASSUME NEW i \in 1..n
      PROVE  /\ flat[i][len[i - 1] + 1] = Id(es[i].id) /\ len[i - 1] + 1 \in 1..len[i]
             /\ es[i].fmt = Missing => len[i] = len[i - 1] + 1
             /\ es[i].fmt # Missing =>
                  len[i] = len[i - 1] + 2 /\ flat[i][len[i - 1] + 2] = Fmt(es[i].fmt)
             /\ \A j \in 1..len[i - 1] : flat[i][j] = flat[i - 1][j]
             /\ len[i - 1] <= len[i]
  <2>. DEFINE t == EntryTokens(es[i])
              s == flat[i - 1]
  <2>1. s \in Seq(Tok) /\ t \in Seq(Tok) /\ flat[i] = s \o t /\ len[i - 1] = Len(s) /\ len[i] = Len(flat[i])
    BY <1>1, <1>6, <1>8, EntryTokensAre
  <2>2. /\ t[1] = Id(es[i].id)
        /\ es[i].fmt = Missing => Len(t) = 1
        /\ es[i].fmt # Missing => Len(t) = 2 /\ t[2] = Fmt(es[i].fmt)
    BY <1>1, EntryTokensAre
  <2>. HIDE DEF s, t, len
  <2>3. /\ Len(s \o t) = Len(s) + Len(t) /\ Len(s) \in Nat
        /\ \A j \in 1..Len(s) : (s \o t)[j] = s[j]
        /\ \A j \in 1..Len(t) : (s \o t)[Len(s) + j] = t[j]
    BY <2>1, JoinKeeps
  <2>4. flat[i - 1] = s
    BY DEF s
  <2>5. Len(t) = 1 \/ Len(t) = 2
    BY <2>2
  <2>6. 1 \in 1..Len(t) /\ (Len(t) = 2 => 2 \in 1..Len(t))
    <3>1. CASE Len(t) = 1
      BY <3>1
    <3>2. CASE Len(t) = 2
      BY <3>2
    <3>. QED BY <2>5, <3>1, <3>2
  <2>7. flat[i][len[i - 1] + 1] = t[1] /\ (Len(t) = 2 => flat[i][len[i - 1] + 2] = t[2])
    BY <2>1, <2>3, <2>6
  <2>8. len[i - 1] \in Nat /\ len[i] = len[i - 1] + Len(t)
    BY <2>1, <2>3
  <2>9. \A j \in 1..len[i - 1] : flat[i][j] = flat[i - 1][j]
    BY <2>1, <2>3, <2>4
  <2>. HIDE DEF es, n
  <2>10. len[i - 1] + 1 \in 1..len[i] /\ len[i - 1] <= len[i]
    <3>1. \A a \in Nat, b \in {1, 2} : a + 1 \in 1..(a + b) /\ a <= a + b
      OBVIOUS
    <3>2. Len(t) \in {1, 2}
      BY <2>5
    <3>. QED BY <2>8, <3>1, <3>2, Zenon
  <2>11. /\ es[i].fmt = Missing => len[i] = len[i - 1] + 1
         /\ es[i].fmt # Missing => len[i] = len[i - 1] + 2
    BY <2>2, <2>8
  <2>12. /\ flat[i][len[i - 1] + 1] = Id(es[i].id)
         /\ es[i].fmt # Missing => flat[i][len[i - 1] + 2] = Fmt(es[i].fmt)
    BY <2>2, <2>7
  <2>. QED BY <2>9, <2>10, <2>11, <2>12
<1>10. \A k \in 0..n : \A i \in 1..k : len[i] <= len[k] /\ \A j \in 1..len[i] : flat[k][j] = flat[i][j]
  <2>. DEFINE P == {k \in 0..n : \A i \in 1..k :
                      len[i] <= len[k] /\ \A j \in 1..len[i] : flat[k][j] = flat[i][j]}
  <2>1. 0 \in P
    BY <1>1
  <2>2. ASSUME NEW k \in 0..(n - 1), k \in P
        PROVE  k + 1 \in P
    <3>1. k \in 0..n /\ k + 1 \in 1..n /\ k + 1 \in 0..n /\ (k + 1) - 1 = k
      BY <1>1
    <3>2. len[k] <= len[k + 1] /\ \A j \in 1..len[k] : flat[k + 1][j] = flat[k][j]
      <4>. HIDE DEF len, n, es
      <4>. QED BY <1>9, <3>1
    <3>3. ASSUME NEW i \in 1..(k + 1)
          PROVE  len[i] <= len[k + 1] /\ \A j \in 1..len[i] : flat[k + 1][j] = flat[i][j]
      <4>0. i = k + 1 \/ i \in 1..k
        BY <3>1
      <4>1. i \in 0..n /\ len[i] \in Nat /\ len[k] \in Nat /\ len[k + 1] \in Nat
        <5>1. i \in 0..n
          BY <3>1
        <5>. HIDE DEF len, n
        <5>. QED BY <1>7, <3>1, <5>1
      <4>. HIDE DEF len, n
      <4>2. CASE i = k + 1
        BY <4>1, <4>2
      <4>3. CASE i \in 1..k
        <5>1. len[i] <= len[k] /\ \A j \in 1..len[i] : flat[k][j] = flat[i][j]
          BY <2>2, <4>3
        <5>. QED BY <3>2, <4>1, <5>1
      <4>. QED BY <4>0, <4>2, <4>3
    <3>. HIDE DEF len, n
    <3>. QED BY <3>1, <3>3
  <2>3. 0..n \subseteq P
    <3>. HIDE DEF P, n
    <3>. QED BY <1>1, <2>1, <2>2, UpTo
  <2>. QED BY <2>3
<1>11. /\ \A i \in 1..n : \A j \in 1..len[i] : Tokens(d)[j] = flat[i][j]
       /\ Len(Tokens(d)) = len[n] + Len(d.after)
       /\ \A j \in DOMAIN d.after : Tokens(d)[len[n] + j] = Id(d.after[j])
  <2>. DEFINE s == flat[n]
  <2>1. s \in Seq(Tok) /\ len[n] = Len(s) /\ n \in 0..n
    <3>1. n \in 0..n
      BY <1>1
    <3>. HIDE DEF n
    <3>. QED BY <1>4, <3>1
  <2>2. /\ Len(s \o after) = Len(s) + Len(after)
        /\ \A i \in 1..Len(s) : (s \o after)[i] = s[i]
        /\ \A j \in 1..Len(after) : (s \o after)[Len(s) + j] = after[j]
    <3>. HIDE DEF s
    <3>1. s \in Seq(Tok) /\ after \in Seq(Tok)
      BY <1>2, <2>1
    <3>. QED BY ONLY <3>1, JoinKeeps
  <2>3. ASSUME NEW i \in 1..n, NEW j \in 1..len[i]
        PROVE  Tokens(d)[j] = flat[i][j]
    <3>1. len[i] <= len[n] /\ flat[n][j] = flat[i][j]
      <4>. HIDE DEF len, n
      <4>. QED BY <1>10, <2>1
    <3>2. len[i] \in Nat /\ len[n] \in Nat
      <4>1. i \in 0..n
        BY <1>1
      <4>. HIDE DEF len, n
      <4>. QED BY <1>7, <2>1, <4>1
    <3>3. j \in 1..Len(s)
      <4>. HIDE DEF len, n, s
      <4>. QED BY <2>1, <3>1, <3>2
    <3>. QED BY <1>5, <2>2, <3>1, <3>3
  <2>. HIDE DEF len, n
  <2>. QED BY <1>2, <1>5, <2>1, <2>2, <2>3
<1>12. ASSUME NEW i \in 1..n
       PROVE  /\ Tokens(d)[len[i - 1] + 1] = Id(es[i].id)
              /\ es[i].fmt # Missing => Tokens(d)[len[i - 1] + 2] = Fmt(es[i].fmt)
  <2>1. len[i - 1] \in Nat /\ len[i] \in Nat
    <3>. HIDE DEF len, n
    <3>. QED BY <1>7, <1>8
  <2>. HIDE DEF len, n, es
  <2>2. len[i - 1] + 1 \in 1..len[i]
    BY <1>9
  <2>3. es[i].fmt # Missing => len[i - 1] + 2 \in 1..len[i]
    BY <1>9, <2>1
  <2>4. Tokens(d)[len[i - 1] + 1] = flat[i][len[i - 1] + 1]
    BY <1>11, <2>2
  <2>5. es[i].fmt # Missing => Tokens(d)[len[i - 1] + 2] = flat[i][len[i - 1] + 2]
    BY <1>11, <2>3
  <2>. QED BY <1>9, <2>4, <2>5
<1>13. ASSUME NEW i \in 1..n
       PROVE  len[i] <= Len(Tokens(d))
  <2>1. n \in 0..n /\ i \in 0..n
    BY <1>1
  <2>. HIDE DEF len, n
  <2>2. len[i] <= len[n] /\ len[i] \in Nat /\ len[n] \in Nat
    BY <1>7, <1>10, <2>1
  <2>3. Len(d.after) \in Nat
    BY <1>2
  <2>. QED BY <1>11, <2>2, <2>3
<1>14. Laid(Tokens(d), len, d)
  <2>. HIDE DEF len
  <2>. QED BY <1>1, <1>7, <1>9, <1>11, <1>12, <1>13 DEF Laid
<1>. QED BY <1>7, <1>14

\* After the k-th entry the first k file_ids have been seen, where each entry begins.
LEMMA EntriesSeen ==
    ASSUME TrackAssumption, NEW d \in Docs, NEW toks, NEW len, NEW seen,
           len \in [0..Len(d.entries) -> Nat], Laid(toks, len, d),
           seen \in [0..Len(toks) -> Seq(Nat)], AreSeen(seen, toks)
    PROVE  /\ len[Len(d.entries)] \in 0..Len(toks)
           /\ Len(seen[len[Len(d.entries)]]) = Len(d.entries)
           /\ \A i \in DOMAIN d.entries : seen[len[Len(d.entries)]][i] = len[i - 1] + 1
<1>. DEFINE es == d.entries
            n == Len(es)
            N == Len(toks)
            P == {k \in 0..n : /\ len[k] <= N => /\ Len(seen[len[k]]) = k
                                                 /\ \A i \in 1..k : seen[len[k]][i] = len[i - 1] + 1}
<1>1. n \in Nat /\ DOMAIN es = 1..n /\ Len(d.after) \in Nat
  <2>1. d.entries \in Seq(Entry) /\ d.after \in Seq(FileIds)
    BY DocIs
  <2>. QED BY <2>1
<1>2. \A k \in 0..n : len[k] \in Nat
  OBVIOUS
<1>3. /\ len[0] = 0 /\ N = len[n] + Len(d.after)
      /\ \A i \in 1..n : /\ toks[len[i - 1] + 1].kind = "id"
                         /\ \/ len[i] = len[i - 1] + 1
                            \/ len[i] = len[i - 1] + 2 /\ toks[len[i - 1] + 2].kind = "fmt"
  <2>1. len[0] = 0 /\ N = len[n] + Len(d.after)
    BY DEF Laid
  <2>2. ASSUME NEW i \in 1..n
        PROVE  /\ toks[len[i - 1] + 1].kind = "id"
               /\ \/ len[i] = len[i - 1] + 1
                  \/ len[i] = len[i - 1] + 2 /\ toks[len[i - 1] + 2].kind = "fmt"
    <3>1. /\ toks[len[i - 1] + 1] = Id(es[i].id)
          /\ es[i].fmt = Missing => len[i] = len[i - 1] + 1
          /\ es[i].fmt # Missing =>
              len[i] = len[i - 1] + 2 /\ toks[len[i - 1] + 2] = Fmt(es[i].fmt)
      BY <1>1, Zenon DEF Laid
    <3>2. \A v : Id(v).kind = "id" /\ Fmt(v).kind = "fmt"
      BY DEF Id, Fmt
    <3>. QED BY <3>1, <3>2, Zenon
  <2>. HIDE DEF n, N, es
  <2>. QED BY <2>1, <2>2
<1>4. n \in 0..n /\ 0 \in 0..n /\ N \in Nat /\ len[n] <= N
  <2>1. n \in 0..n /\ 0 \in 0..n
    BY <1>1
  <2>2. len[n] \in Nat
    BY <1>2, <2>1
  <2>. HIDE DEF n
  <2>. QED BY <1>1, <1>3, <2>1, <2>2
<1>5. 0 \in P
  <2>1. seen[len[0]] = <<>>
    BY <1>3 DEF AreSeen
  <2>2. Len(seen[len[0]]) = 0
    BY <2>1
  <2>3. 1..0 = {}
    OBVIOUS
  <2>. QED BY <1>4, <2>2, <2>3, Zenon
<1>6. ASSUME NEW k \in 0..(n - 1), k \in P
      PROVE  k + 1 \in P
  <2>. DEFINE a == len[k]
              b == len[k + 1]
              s == seen[a]
  <2>1. k \in 0..n /\ k + 1 \in 1..n /\ k + 1 \in 0..n /\ (k + 1) - 1 = k /\ k \in Nat
    BY <1>1
  <2>2. /\ a \in Nat /\ b \in Nat /\ toks[a + 1].kind = "id"
        /\ b = a + 1 \/ (b = a + 2 /\ toks[a + 2].kind = "fmt")
    <3>. HIDE DEF n
    <3>. QED BY <1>2, <1>3, <2>1
  <2>. SUFFICES ASSUME b <= N
                PROVE  /\ Len(seen[b]) = k + 1
                       /\ \A i \in 1..(k + 1) : seen[b][i] = len[i - 1] + 1
    BY <2>1
  <2>3. a + 1 \in 1..N /\ (a + 1) - 1 = a /\ a <= N /\ a \in 0..N
    <3>. HIDE DEF a, b, N
    <3>. QED BY <1>4, <2>2
  <2>4. s \in Seq(Nat) /\ Len(s) = k /\ \A i \in 1..k : s[i] = len[i - 1] + 1
    BY <1>6, <2>3
  <2>5. seen[a + 1] = Append(s, a + 1)
    BY <2>2, <2>3 DEF AreSeen
  <2>6. seen[b] = seen[a + 1]
    <3>1. CASE b = a + 1
      BY <3>1
    <3>2. CASE b = a + 2 /\ toks[a + 2].kind = "fmt"
      <4>1. a + 2 \in 1..N /\ (a + 2) - 1 = a + 1
        BY <1>4, <2>2, <3>2
      <4>. HIDE DEF a, b, N
      <4>2. seen[a + 2] = seen[(a + 2) - 1]
        BY <3>2, <4>1 DEF AreSeen, N
      <4>. QED BY <3>2, <4>1, <4>2
    <3>. QED BY <2>2, <3>1, <3>2
  <2>. HIDE DEF a, s, n
  <2>7. Len(seen[b]) = k + 1
    BY <2>2, <2>4, <2>5, <2>6
  <2>8. ASSUME NEW i \in 1..(k + 1)
        PROVE  seen[b][i] = len[i - 1] + 1
    <3>1. seen[b] = Append(s, a + 1)
      BY <2>5, <2>6
    <3>2. CASE i \in 1..k
      <4>1. Append(s, a + 1)[i] = s[i]
        BY <2>2, <2>4, <3>2
      <4>. QED BY <2>4, <3>1, <3>2, <4>1
    <3>3. CASE i = k + 1
      <4>1. Append(s, a + 1)[k + 1] = a + 1
        <5>1. \A x \in Nat : Append(s, x)[Len(s) + 1] = x
          BY <2>4
        <5>. QED BY <2>2, <2>4, <5>1
      <4>2. len[i - 1] = a
        BY <2>1, <3>3 DEF a
      <4>. QED BY <3>1, <3>3, <4>1, <4>2
    <3>. QED BY <2>1, <3>2, <3>3
  <2>. QED BY <2>7, <2>8
<1>7. 0..n \subseteq P
  <2>. HIDE DEF P, n
  <2>. QED BY <1>1, <1>5, <1>6, UpTo
<1>8. n \in P /\ len[n] \in 0..N
  <2>1. len[n] \in Nat
    BY <1>2, <1>4
  <2>. HIDE DEF n, P, N
  <2>. QED BY <1>4, <1>7, <2>1
<1>. QED BY <1>1, <1>4, <1>8

\* The file_ids that are read are those of the entries, where each begins, and
\* one for each of the other arrays' after them.
LEMMA PlacesAre ==
    ASSUME TrackAssumption, NEW d \in Docs, NEW toks, NEW len,
           len \in [0..Len(d.entries) -> Nat], Laid(toks, len, d)
    PROVE  /\ IdPlaces(toks) \in Seq(Nat)
           /\ Len(IdPlaces(toks)) = Len(d.entries) + Len(d.after)
           /\ \A i \in DOMAIN d.entries : IdPlaces(toks)[i] = len[i - 1] + 1
<1>. DEFINE es == d.entries
            n == Len(es)
            m == Len(d.after)
            N == Len(toks)
            e == len[n]
<1>1. n \in Nat /\ DOMAIN es = 1..n /\ m \in Nat /\ DOMAIN d.after = 1..m
  <2>1. d.entries \in Seq(Entry) /\ d.after \in Seq(FileIds)
    BY DocIs
  <2>. QED BY <2>1
<1>2. N = e + m /\ e \in Nat /\ N \in Nat
  <2>1. n \in 0..n
    BY <1>1
  <2>2. e \in Nat
    BY <2>1
  <2>3. N = e + m
    BY DEF Laid
  <2>. HIDE DEF e, m, N
  <2>. QED BY <1>1, <2>2, <2>3
<1>3. PICK seen : /\ seen \in [0..N -> Seq(Nat)] /\ AreSeen(seen, toks)
                  /\ IdPlaces(toks) = seen[N]
  BY <1>2, SeenOf
<1>4. Len(seen[e]) = n /\ \A i \in 1..n : seen[e][i] = len[i - 1] + 1
  <2>1. /\ Len(seen[len[Len(d.entries)]]) = Len(d.entries)
        /\ \A i \in DOMAIN d.entries : seen[len[Len(d.entries)]][i] = len[i - 1] + 1
    <3>1. Laid(toks, len, d) /\ len \in [0..Len(d.entries) -> Nat]
      OBVIOUS
    <3>2. seen \in [0..Len(toks) -> Seq(Nat)] /\ AreSeen(seen, toks)
      BY <1>3
    <3>. QED BY ONLY TrackAssumption, d \in Docs, <3>1, <3>2, EntriesSeen
  <2>. QED BY <1>1, <2>1, Zenon
<1>. DEFINE P == {j \in 0..m : /\ Len(seen[e + j]) = n + j
                               /\ \A i \in 1..n : seen[e + j][i] = len[i - 1] + 1}
<1>5. 0 \in P
  <2>1. 0 \in 0..m /\ e + 0 = e /\ n + 0 = n
    BY <1>1, <1>2
  <2>. HIDE DEF e, n, m
  <2>. QED BY <1>4, <2>1
<1>6. ASSUME NEW j \in 0..(m - 1), j \in P
      PROVE  j + 1 \in P
  <2>. DEFINE s == seen[e + j]
              q == e + (j + 1)
  <2>1. j + 1 \in 1..m /\ j + 1 \in 0..m /\ j \in 0..m /\ j \in Nat
    BY <1>1
  <2>2. q \in 1..N /\ q - 1 = e + j /\ e + j \in 0..N /\ q \in Nat
    <3>. HIDE DEF e, m, N
    <3>. QED BY <1>1, <1>2, <2>1
  <2>3. toks[q].kind = "id"
    <3>1. j + 1 \in DOMAIN d.after
      BY <1>1, <2>1
    <3>2. toks[e + (j + 1)] = Id(d.after[j + 1])
      BY <3>1, Zenon DEF Laid
    <3>. QED BY <3>2 DEF Id
  <2>4. s \in Seq(Nat) /\ Len(s) = n + j
    BY <1>3, <1>6, <2>2
  <2>5. seen[q] = Append(s, q)
    <3>1. seen[q] = Append(seen[q - 1], q)
      <4>. HIDE DEF q
      <4>. QED BY <1>3, <2>2, <2>3 DEF AreSeen
    <3>. QED BY <2>2, <3>1
  <2>. HIDE DEF s, q, n, m, e
  <2>6. Len(seen[q]) = n + (j + 1)
    BY <1>1, <2>1, <2>2, <2>4, <2>5
  <2>7. ASSUME NEW i \in 1..n
        PROVE  seen[q][i] = len[i - 1] + 1
    <3>1. i \in 1..Len(s)
      BY <1>1, <2>1, <2>4
    <3>2. Append(s, q)[i] = s[i]
      BY <2>2, <2>4, <3>1
    <3>. QED BY <1>6, <2>5, <3>2 DEF s
  <2>. QED BY <2>1, <2>6, <2>7 DEF q
<1>7. 0..m \subseteq P
  <2>. HIDE DEF P, m
  <2>. QED BY <1>1, <1>5, <1>6, UpTo
<1>8. m \in P
  <2>1. m \in 0..m
    BY <1>1
  <2>. QED BY <1>7, <2>1, Zenon
<1>9. seen[e + m] = IdPlaces(toks) /\ IdPlaces(toks) \in Seq(Nat)
  <2>1. N \in 0..N
    BY <1>2
  <2>. HIDE DEF N
  <2>. QED BY <1>2, <1>3, <2>1
<1>. HIDE DEF e
<1>. QED BY <1>1, <1>8, <1>9

\* In a document as expected the next format is the entry's own.
LEMMA OwnFormat ==
    ASSUME TrackAssumption, NEW d \in Docs, AsExpected(d), NEW toks, NEW len,
           len \in [0..Len(d.entries) -> Nat], Laid(toks, len, d), NEW k \in DOMAIN d.entries
    PROVE  FormatAfter(toks, len[k - 1] + 1)
             = IF d.entries[k].fmt \in LongFormats THEN Missing ELSE d.entries[k].fmt
<1>. DEFINE i == len[k - 1] + 1
            f == d.entries[k].fmt
            later == {j \in i + 1 .. Len(toks) : toks[j].kind = "fmt"}
<1>1. Len(toks) \in Nat /\ len[k] \in Nat /\ len[k - 1] \in Nat
  <2>1. Len(d.entries) \in Nat /\ DOMAIN d.entries = 1..Len(d.entries) /\ Len(d.after) \in Nat
    <3>1. d.entries \in Seq(Entry) /\ d.after \in Seq(FileIds)
      BY DocIs
    <3>. QED BY <3>1
  <2>2. k \in 0..Len(d.entries) /\ k - 1 \in 0..Len(d.entries) /\ Len(d.entries) \in 0..Len(d.entries)
    BY <2>1
  <2>3. len[Len(d.entries)] \in Nat /\ len[k] \in Nat /\ len[k - 1] \in Nat
    BY <2>2
  <2>. QED BY <2>1, <2>3 DEF Laid
<1>2. len[k] = len[k - 1] + 2 /\ toks[len[k - 1] + 2] = Fmt(f) /\ len[k] <= Len(toks)
  BY DEF Laid, AsExpected
<1>. HIDE DEF f
<1>3. i + 1 \in later /\ i + 1 = len[k - 1] + 2
  <2>1. i + 1 = len[k - 1] + 2 /\ i + 1 \in i + 1 .. Len(toks)
    BY <1>1, <1>2
  <2>2. toks[i + 1].kind = "fmt"
    <3>. HIDE DEF i
    <3>. QED BY <1>2, <2>1 DEF Fmt
  <2>. HIDE DEF i
  <2>. QED BY <2>1, <2>2
<1>4. Min(later) = i + 1
  <2>1. later \in SUBSET Int /\ \A j \in later : i + 1 <= j
    BY <1>1
  <2>. HIDE DEF later, i
  <2>. QED BY <1>3, <2>1, MinIs
<1>5. toks[Min(later)].v = f /\ later # {}
  <2>. HIDE DEF later, i
  <2>. QED BY <1>2, <1>3, <1>4 DEF Fmt
<1>6. FormatAfter(toks, i) = IF later = {} \/ toks[Min(later)].v \in LongFormats THEN Missing
                             ELSE toks[Min(later)].v
  BY Zenon DEF FormatAfter
<1>. HIDE DEF later
<1>. QED BY <1>5, <1>6, Zenon DEF f

\* The files that are taken from what a document's tokens are.
LEMMA FilesAre ==
    ASSUME TrackAssumption, NEW d \in Docs, NEW files, files = FilesOf(Tokens(d)),
           NEW k \in DOMAIN d.entries
    PROVE  /\ k \in DOMAIN files /\ files[k].id = d.entries[k].id
           /\ AsExpected(d) =>
                /\ Len(files) = Len(d.entries)
                /\ files[k].fmt \in {d.entries[k].fmt, Missing}
                /\ d.entries[k].fmt \notin LongFormats => files[k].fmt = d.entries[k].fmt
<1>. DEFINE toks == Tokens(d)
            n == Len(d.entries)
            places == IdPlaces(toks)
<1>1. /\ n \in Nat /\ DOMAIN d.entries = 1..n /\ Len(d.after) \in Nat
      /\ d.after = <<>> => Len(d.after) = 0
  <2>1. d.entries \in Seq(Entry) /\ d.after \in Seq(FileIds)
    BY DocIs
  <2>. QED BY <2>1
<1>2. PICK len : len \in [0..n -> Nat] /\ Laid(toks, len, d)
  BY TokensLaid
<1>. HIDE DEF toks
<1>3. /\ places \in Seq(Nat) /\ Len(places) = n + Len(d.after)
      /\ places[k] = len[k - 1] + 1
  BY <1>2, PlacesAre
<1>4. k \in DOMAIN places
  <2>. HIDE DEF places, n
  <2>. QED BY <1>1, <1>3
<1>5. files = [j \in DOMAIN places |-> [id |-> toks[places[j]].v, fmt |-> FormatAfter(toks, places[j])]]
  BY DEF FilesOf, toks
<1>6. toks[len[k - 1] + 1].v = d.entries[k].id
  <2>1. toks[len[k - 1] + 1] = Id(d.entries[k].id)
    BY <1>2, Zenon DEF Laid
  <2>. QED BY <2>1 DEF Id
<1>7. ASSUME AsExpected(d)
      PROVE  FormatAfter(toks, len[k - 1] + 1)
               = IF d.entries[k].fmt \in LongFormats THEN Missing ELSE d.entries[k].fmt
  BY <1>2, <1>7, OwnFormat
<1>8. AsExpected(d) => Len(files) = n
  <2>1. AsExpected(d) => Len(places) = n
    BY <1>1, <1>3 DEF AsExpected
  <2>2. DOMAIN files = 1..Len(places)
    <3>. HIDE DEF places
    <3>. QED BY <1>3, <1>5
  <2>. HIDE DEF places, n
  <2>. QED BY <1>1, <2>1, <2>2
<1>. HIDE DEF places, n
<1>9. files[k] = [id |-> toks[places[k]].v, fmt |-> FormatAfter(toks, places[k])] /\ k \in DOMAIN files
  BY <1>4, <1>5
<1>10. files[k].id = d.entries[k].id /\ files[k].fmt = FormatAfter(toks, len[k - 1] + 1)
  BY <1>3, <1>6, <1>9
<1>11. AsExpected(d) =>
         /\ files[k].fmt \in {d.entries[k].fmt, Missing}
         /\ d.entries[k].fmt \notin LongFormats => files[k].fmt = d.entries[k].fmt
  BY <1>7, <1>10, Zenon
<1>. QED BY <1>8, <1>9, <1>10, <1>11, Zenon DEF n

-----------------------------------------------------------------------------

\* What a lookup that succeeded returned comes from the document it got.
TrackInv == metaRet = 0 => doc \in Docs /\ meta = FilesOf(Tokens(doc))

\* FilesReadBack: however many files a track has and whatever formats they are
\* in, spclient_get_track_metadata returns them all, in order, and for a document
\* as its comment expects none with the format of another: a format of up to seven
\* characters is the file's, a longer one is left out.
THEOREM EveryFileRead == TrackAssumption => (TrackSpec => []FilesReadBack)
<1>. SUFFICES ASSUME TrackAssumption
              PROVE  TrackSpec => []FilesReadBack
  OBVIOUS
<1>1. TrackInit => TrackInv
  BY DEF TrackInit, TrackInv
<1>2. TrackInv /\ [TrackNext]_trackVars => TrackInv'
  <2>. SUFFICES ASSUME TrackInv, [TrackNext]_trackVars
                PROVE  TrackInv'
    OBVIOUS
  <2>1. CASE spclient_get_track_metadata
    BY <2>1 DEF spclient_get_track_metadata, TrackInv
  <2>2. CASE spclient_resolve_cdn_url
    BY <2>2 DEF spclient_resolve_cdn_url, TrackInv
  <2>3. CASE UNCHANGED trackVars
    BY <2>3 DEF trackVars, TrackInv
  <2>. QED BY <2>1, <2>2, <2>3 DEF TrackNext
<1>3. TrackInv => FilesReadBack
  BY FilesAre, Zenon DEF TrackInv, FilesReadBack
<1>. QED BY <1>1, <1>2, <1>3, PTL DEF TrackSpec

=============================================================================
