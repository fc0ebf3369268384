------------------------------ MODULE SpClient ------------------------------
(***************************************************************************)
(* The requests spclient.c makes over one Mercury connection after login:  *)
(* the client token and the audio keys.  Each call sends one frame and     *)
(* then looks at a bounded number of incoming frames for the answer; the   *)
(* access point also sends PINGs and frames of its own.                    *)
(*                                                                         *)
(* Frames come through FrameChannel, which Mercury implements.  Requests   *)
(* on a connection are numbered by `asked`: the code sends every key       *)
(* request with sequence number 1, so the number is not on the wire and    *)
(* only the model knows which request a key answers.                       *)
(***************************************************************************)
EXTENDS Naturals, Integers, Sequences, FiniteSets

CONSTANTS
  TokenTries,  \* frames spclient_get_client_token looks at (20)
  KeyTries,    \* frames spclient_get_audio_key looks at (15)
  MaxLogin,    \* bound: logins
  MaxReq,      \* bound: key requests on one connection
  MaxPush      \* bound: frames the access point sends unasked

ASSUME SpClientAssumption ==
  /\ TokenTries \in Nat \ {0} /\ KeyTries \in Nat \ {0}
  /\ MaxLogin \in Nat /\ MaxReq \in Nat /\ MaxPush \in Nat

\* SMALL, LARGE and HUGE stand for all other frames, by the buffer they fit:
\* 256 bytes (audio key), 4096 bytes (token), neither.
Cmds == {"PING", "TOKEN", "KEY", "KEYFAIL", "SMALL", "LARGE", "HUGE"}
Frame == [cmd : Cmds, of : Nat]
NoFrame == [cmd |-> "NONE", of |-> 0]

VARIABLES
  state, sent, got, last,  \* the channel (FrameChannel)
  up,      \* frames on their way to the access point
  deaf,    \* a write failed: the access point takes no further frame
  pushed,  \* frames it sent unasked
  logins,  \* logins made
  call,    \* the call in progress
  tries,   \* its loop counter
  ret,     \* what the last call returned (1: none on this connection)
  asked,   \* key requests made on this connection
  gaveUp,  \* history: those that returned without an answer
  answer   \* history: the request whose answer ended the last key call

Channel == INSTANCE FrameChannel WITH Nothing <- NoFrame

chan == <<state, sent, got, last>>
peer == <<up, deaf, pushed>>
vars == <<chan, peer, logins, call, tries, ret, asked, gaveUp, answer>>

Msg(cmd, of) == [cmd |-> cmd, of |-> of]

Init ==
  /\ Channel!Init
  /\ up = <<>> /\ deaf = FALSE /\ pushed = 0 /\ logins = 0
  /\ call = "idle" /\ tries = 0 /\ ret = 1
  /\ asked = 0 /\ gaveUp = 0 /\ answer = 0

-----------------------------------------------------------------------------
(* One mercury_recv.                                                       *)

Fits(cmd) ==
  IF call = "token" THEN cmd # "HUGE"
  ELSE cmd \in {"PING", "KEY", "KEYFAIL", "SMALL"}

\* The frames the next receive can return.  `of` is 0 in a frame that answers
\* no request, and in whatever is read once the channel is lost.
Incoming ==
  CASE state = "open" /\ got < Len(sent) -> {sent[got + 1]}
    [] state = "lost" -> [cmd : Cmds, of : {0}]
    [] OTHER -> {}

\* It returns frame f.  One that does not fit is cut to the buffer, and the
\* rest of it is what the next receive reads.
Received(f) ==
  IF state = "lost" THEN UNCHANGED chan
  ELSE IF Fits(f.cmd) THEN Channel!Take ELSE Channel!Lose

\* It fails: nothing came in time, or only a part of a frame.
NotReceived == UNCHANGED chan \/ Channel!Lose

-----------------------------------------------------------------------------
(* What is sent.                                                           *)

\* mercury_send: the access point takes no frame after one whose write failed,
\* the nonce it expects is gone.
Written(m) == up' = (IF deaf THEN up ELSE Append(up, m)) /\ UNCHANGED deaf
NotWritten == deaf' = TRUE /\ UNCHANGED up

\* The answer to a PING; nobody looks whether it could be written.
Pong == Written(Msg("PONG", 0)) \/ NotWritten

-----------------------------------------------------------------------------
(* The calls.                                                              *)

Return(code) == ret' = code /\ call' = "idle"

\* Without an answer to the request made last.
GiveUp(code) ==
  /\ Return(code)
  /\ gaveUp' = IF call = "key" THEN gaveUp + 1 ELSE gaveUp

\* Mutant: a failed receive does not count as a turn.
NextTryOfFrame(bound, code) ==
  /\ tries' = IF chan' = chan THEN tries ELSE tries + 1
  /\ IF tries' < bound THEN UNCHANGED <<call, ret, gaveUp>> ELSE GiveUp(code)
\* Another turn of the loop, or the loop is used up.
NextTry(bound, code) ==
  /\ tries' = tries + 1
  /\ IF tries' < bound THEN UNCHANGED <<call, ret, gaveUp>> ELSE GiveUp(code)

\* esp_spotify_login: a session of its own takes the place of the last one.
\* When mercury_login5 has failed it holds no socket, or one of a connection
\* that may be out of step, and that the access point may have granted without
\* the login getting to know; else the token is asked for right away.
Login ==
  /\ call = "idle" /\ logins < MaxLogin
  /\ logins' = logins + 1
  /\ asked' = 0 /\ gaveUp' = 0 /\ answer' = 0 /\ tries' = 0 /\ pushed' = 0
  /\ Channel!Restart
  /\ \/ /\ state' \in {"closed", "open", "lost"}
        /\ up' = <<>> /\ deaf' \in BOOLEAN
        /\ ret' = 1 /\ UNCHANGED call
     \/ /\ state' \in {"open", "lost"}
        /\ \/ /\ up' = <<Msg("TOKENREQ", 0)>> /\ deaf' = FALSE
              /\ call' = "token" /\ ret' = 1
           \/ /\ up' = <<>> /\ deaf' = TRUE
              /\ Return(-2)

AwaitToken ==
  /\ call = "token"
  /\ \/ /\ NotReceived
        /\ NextTry(TokenTries, -3)
        /\ UNCHANGED peer
     \/ \E f \in Incoming :
          /\ Received(f)
          /\ \/ /\ f.cmd = "PING"
                /\ Pong /\ UNCHANGED pushed
                /\ NextTry(TokenTries, -3)
             \/ /\ f.cmd = "TOKEN"
                /\ Return(0)
                /\ UNCHANGED <<tries, gaveUp, peer>>
             \/ /\ f.cmd # "PING"   \* no token, or none that can be read
                /\ NextTry(TokenTries, -3)
                /\ UNCHANGED peer
  /\ UNCHANGED <<logins, asked, answer>>

\* spclient_get_audio_key up to its first receive.
spclient_get_audio_key ==
  /\ call = "idle" /\ logins > 0 /\ asked < MaxReq
  /\ asked' = asked + 1
  /\ \/ /\ state # "closed"
        /\ Written(Msg("KEYREQ", asked + 1))
        /\ call' = "key" /\ tries' = 0
        /\ UNCHANGED <<ret, gaveUp>>
     \/ /\ state # "closed"
        /\ NotWritten
        /\ Return(-2) /\ gaveUp' = gaveUp + 1
        /\ UNCHANGED tries
     \/ /\ state = "closed"
        /\ Return(-2) /\ gaveUp' = gaveUp + 1
        /\ UNCHANGED <<up, deaf, tries>>
  /\ UNCHANGED <<chan, pushed, logins, answer>>

\* Mutants: a refusal does not end the wait; any frame does.
EndsOnlyOnKey(f) == f.cmd = "KEY"
EndsOnAnyFrame(f) == f.cmd # "PING"

\* The commands that end the wait for a key.
EndsKeyCall(f) == f.cmd \in {"KEY", "KEYFAIL"}

AwaitKey ==
  /\ call = "key"
  /\ \/ /\ NotReceived
        /\ NextTry(KeyTries, -4)
        /\ UNCHANGED <<peer, answer>>
     \/ \E f \in Incoming :
          /\ Received(f)
          /\ \/ /\ f.cmd = "PING"
                /\ Pong /\ UNCHANGED <<pushed, answer>>
                /\ NextTry(KeyTries, -4)
             \/ /\ EndsKeyCall(f)
                /\ Return(IF f.cmd = "KEY" THEN 0 ELSE -3)
                /\ answer' = f.of
                /\ UNCHANGED <<tries, gaveUp, peer>>
             \/ /\ f.cmd # "PING" /\ ~EndsKeyCall(f)
                /\ NextTry(KeyTries, -4)
                /\ UNCHANGED <<peer, answer>>
  /\ UNCHANGED <<logins, asked>>

\* esp_spotify_stop closes the connection under the session.
mercury_disconnect ==
  /\ call = "idle"
  /\ Channel!Close
  /\ up' = <<>>
  /\ UNCHANGED <<deaf, pushed, logins, call, tries, ret, asked, gaveUp, answer>>

-----------------------------------------------------------------------------
(* The access point.  It answers requests in the order they arrive, or not *)
(* at all, whenever it gets to it.                                         *)

Answers(m) ==
  CASE m.cmd = "TOKENREQ" -> {Msg("TOKEN", 0)}
    [] m.cmd = "KEYREQ"   -> {Msg("KEY", m.of), Msg("KEYFAIL", m.of)}
    [] OTHER              -> {}

ApAnswer ==
  /\ up # <<>> /\ state # "closed"
  /\ up' = Tail(up)
  /\ \/ UNCHANGED chan
     \/ \E f \in Answers(Head(up)) : Channel!Push(f)
  /\ UNCHANGED <<deaf, pushed, logins, call, tries, ret, asked, gaveUp, answer>>

ApPush ==
  /\ pushed < MaxPush /\ ~deaf
  /\ pushed' = pushed + 1
  /\ \E cmd \in {"PING", "SMALL", "LARGE", "HUGE"} : Channel!Push(Msg(cmd, 0))
  /\ UNCHANGED <<up, deaf, logins, call, tries, ret, asked, gaveUp, answer>>

-----------------------------------------------------------------------------
Next ==
  \/ Login \/ AwaitToken
  \/ spclient_get_audio_key \/ AwaitKey
  \/ mercury_disconnect
  \/ ApAnswer \/ ApPush

Spec == Init /\ [][Next]_vars

\* A call that was made goes on: each receive ends by the socket's timeout.
FairSpec == Spec /\ WF_vars(AwaitToken) /\ WF_vars(AwaitKey)

-----------------------------------------------------------------------------
(* Properties.                                                             *)

\* Every variable has its type.
TypeOK ==
  /\ Channel!TypeOK
  /\ up \in Seq([cmd : {"TOKENREQ", "KEYREQ", "PONG"}, of : Nat])
  /\ deaf \in BOOLEAN /\ pushed \in Nat /\ logins \in Nat
  /\ call \in {"idle", "token", "key"}
  /\ tries \in Nat /\ (call = "token" => tries < TokenTries) /\ (call = "key" => tries < KeyTries)
  /\ ret \in {-4, -3, -2, 0, 1}
  /\ asked \in Nat /\ gaveUp \in 0 .. asked /\ answer \in 0 .. asked

\* The answers to key requests among the first n frames of s.
IsAnswer(f) == f.cmd \in {"KEY", "KEYFAIL"}
AnswersIn(s, n) == {k \in 1 .. n : IsAnswer(s[k])}
Count(s, n) == Cardinality(AnswersIn(s, n))
Waiting == IF call = "key" THEN 1 ELSE 0

\* As long as the channel is not lost, every key request is either still
\* waiting, was given up, or took exactly one answer: the loops neither drop
\* an answer on the way to another nor take one twice (AwaitToken, AwaitKey).
EachAnswerEndsOneCall ==
  state = "open" => Count(sent, got) = asked - gaveUp - Waiting

\* A key, or a refusal, belongs to a request at most as far back as the number
\* of requests that were given up before: each one that timed out shifts the
\* answers of all later ones, for as long as the connection lives.
AnswerLag ==
  (state = "open" /\ answer # 0) => asked - Waiting - answer <= gaveUp

\* The inductive invariant behind the two.  Requests on their way are newer than
\* all answers sent, and in order, so that the k-th answer the access point sent
\* is for the k-th request or a later one.  The token is asked for before any key.
RequestsInOrder ==
  \A j \in 1 .. Len(up) : up[j].cmd = "KEYREQ" =>
    /\ Count(sent, Len(sent)) < up[j].of /\ up[j].of <= asked
    /\ \A i \in 1 .. j - 1 : up[i].cmd = "KEYREQ" => up[i].of < up[j].of

AnswersInOrder ==
  /\ Count(sent, Len(sent)) <= asked
  /\ \A k \in 1 .. Len(sent) : IsAnswer(sent[k]) =>
       Count(sent, k) <= sent[k].of /\ sent[k].of <= asked

KeyInv ==
  /\ TypeOK
  /\ gaveUp + Waiting <= asked
  /\ call = "token" => asked = 0
  /\ EachAnswerEndsOneCall
  /\ RequestsInOrder
  /\ AnswersInOrder
  /\ AnswerLag

\* A call returns, whatever the access point sends or withholds.
CallReturns == (call # "idle") ~> (call = "idle")

-----------------------------------------------------------------------------
(* What the repository says and the code does not keep: refuted.           *)

\* include/internal/spclient.h: spclient_get_audio_key requests the key "for a
\* track+file" and "waits for AUDIO_KEY_SUCCESS_RESPONSE": of that request.
KeyForRequestedTrack ==
  (call = "idle" /\ ret = 0 /\ state = "open" /\ asked > 0) => answer = asked

=============================================================================
