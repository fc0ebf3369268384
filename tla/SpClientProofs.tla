--------------------------- MODULE SpClientProofs ---------------------------
(***************************************************************************)
(* Proofs about SpClient: the accounting of key requests and answers holds *)
(* for any number of logins, requests, turns and pushed frames.            *)
(*                                                                         *)
(* The first part is about counting answers in a sequence of frames, the   *)
(* second has a lemma per group of actions, the third the theorems.        *)
(***************************************************************************)
EXTENDS SpClient, FiniteSetTheorems, TLAPS

-----------------------------------------------------------------------------
(* Counting the answers among the first n frames of s.                     *)

LEMMA AnswersFinite ==
  ASSUME NEW s, NEW n \in Nat
  PROVE  IsFiniteSet(AnswersIn(s, n)) /\ Count(s, n) \in Nat
<1>1. IsFiniteSet(1 .. n)
  BY FS_Interval
<1>2. AnswersIn(s, n) \in SUBSET (1 .. n)
  BY DEF AnswersIn
<1> QED
  BY <1>1, <1>2, FS_Subset, FS_CardinalityType DEF Count

LEMMA CountZero == \A s : Count(s, 0) = 0
<1>1. \A s : AnswersIn(s, 0) = {}
  BY DEF AnswersIn
<1> QED
  BY <1>1, FS_EmptySet DEF Count

LEMMA CountNext ==
  ASSUME NEW s, NEW n \in Nat
  PROVE  Count(s, n + 1) = IF IsAnswer(s[n + 1]) THEN Count(s, n) + 1 ELSE Count(s, n)
<1>1. CASE IsAnswer(s[n + 1])
  <2>1. AnswersIn(s, n + 1) = AnswersIn(s, n) \cup {n + 1}
    BY <1>1 DEF AnswersIn
  <2>2. n + 1 \notin AnswersIn(s, n)
    BY DEF AnswersIn
  <2> QED
    BY <1>1, <2>1, <2>2, AnswersFinite, FS_AddElement DEF Count
<1>2. CASE ~IsAnswer(s[n + 1])
  <2>1. AnswersIn(s, n + 1) = AnswersIn(s, n)
    BY <1>2 DEF AnswersIn
  <2> QED
    BY <1>2, <2>1 DEF Count
<1> QED
  BY <1>1, <1>2

LEMMA CountMonotonic ==
  ASSUME NEW s, NEW m \in Nat, NEW n \in Nat, m <= n
  PROVE  Count(s, m) <= Count(s, n)
<1>1. AnswersIn(s, m) \in SUBSET AnswersIn(s, n)
  BY DEF AnswersIn
<1> QED
  BY <1>1, AnswersFinite, FS_Subset DEF Count

LEMMA CountAppend ==
  ASSUME NEW T, NEW s \in Seq(T), NEW f \in T, NEW n \in 0 .. Len(s)
  PROVE  Count(Append(s, f), n) = Count(s, n)
<1>1. AnswersIn(Append(s, f), n) = AnswersIn(s, n)
  <2>1. \A k \in 1 .. n : Append(s, f)[k] = s[k]
    OBVIOUS
  <2> QED
    BY <2>1 DEF AnswersIn
<1> QED
  BY <1>1 DEF Count

-----------------------------------------------------------------------------
(* What the parts of an action do to the parts of the invariant.           *)

UpMsg == [cmd : {"TOKENREQ", "KEYREQ", "PONG"}, of : Nat]

\* A receive, whatever becomes of it.
Reads == UNCHANGED chan \/ Channel!Take \/ Channel!Lose

LEMMA ReceivesAreReads ==
  ASSUME NEW f \in Incoming, Received(f) \/ NotReceived
  PROVE  Reads
  BY DEF Received, NotReceived, Reads

LEMMA NotReceivedReads == NotReceived => Reads
  BY DEF NotReceived, Reads

LEMMA ReadsKeepAnswers ==
  ASSUME KeyInv, Reads, asked' = asked
  PROVE  /\ Channel!TypeOK'
         /\ AnswersInOrder'
         /\ Count(sent', Len(sent')) \in Nat
         /\ Count(sent', Len(sent')) <= Count(sent, Len(sent))
<1>1. /\ Channel!TypeOK /\ AnswersInOrder /\ asked \in Nat
      /\ Len(sent) \in Nat
      /\ Count(sent, Len(sent)) \in Nat
  BY AnswersFinite DEF KeyInv, TypeOK, Channel!TypeOK
<1>2. CASE sent' = sent /\ Channel!TypeOK'
  <2>1. AnswersInOrder'
    BY <1>1, <1>2 DEF AnswersInOrder
  <2> QED
    BY <1>1, <1>2, <2>1
<1>3. CASE Channel!Lose
  <2>1. sent' = <<>> /\ Channel!TypeOK'
    BY <1>3 DEF Channel!Lose, Channel!Restart, Channel!TypeOK
  <2>2. Len(sent') = 0
    BY <2>1
  <2>3. Count(sent', Len(sent')) = 0
    BY <2>2, CountZero
  <2>4. AnswersInOrder'
    BY <1>1, <2>2, <2>3 DEF AnswersInOrder
  <2> QED
    BY <1>1, <2>1, <2>3, <2>4
<1>4. ASSUME UNCHANGED chan PROVE sent' = sent /\ Channel!TypeOK'
  BY <1>1, <1>4 DEF chan, Channel!TypeOK
<1>5. ASSUME Channel!Take PROVE sent' = sent /\ Channel!TypeOK'
  BY <1>1, <1>5 DEF Channel!Take, Channel!TypeOK
<1> QED
  BY <1>2, <1>3, <1>4, <1>5 DEF Reads

LEMMA UpMsgFields == \A m \in UpMsg : m.of \in Nat
  BY DEF UpMsg

LEMMA RequestsKept ==
  ASSUME KeyInv, asked' = asked,
         Count(sent', Len(sent')) \in Nat, Count(sent', Len(sent')) <= Count(sent, Len(sent)),
         \/ up' = up
         \/ \E m \in UpMsg : m.cmd # "KEYREQ" /\ up' = Append(up, m)
  PROVE  RequestsInOrder' /\ up' \in Seq(UpMsg)
<1>1. Count(sent, Len(sent)) \in Nat /\ up \in Seq(UpMsg) /\ asked \in Nat
  BY AnswersFinite DEF KeyInv, TypeOK, Channel!TypeOK, UpMsg
<1>2. RequestsInOrder
  BY DEF KeyInv
<1>3. CASE up' = up
  <2>1. \A j \in 1 .. Len(up) : up[j] \in UpMsg
    BY <1>1
  <2>2. \A j \in 1 .. Len(up) : up[j].of \in Nat
    BY <2>1, UpMsgFields
  <2> QED
    BY <1>1, <1>2, <1>3, <2>2 DEF RequestsInOrder
<1>4. ASSUME NEW m \in UpMsg, m.cmd # "KEYREQ", up' = Append(up, m)
      PROVE  RequestsInOrder' /\ up' \in Seq(UpMsg)
  <2>1. /\ Len(up') = Len(up) + 1 /\ up' \in Seq(UpMsg)
        /\ up'[Len(up) + 1] = m
        /\ \A j \in 1 .. Len(up) : up'[j] = up[j] /\ up[j] \in UpMsg
    BY <1>1, <1>4
  <2>3. \A j \in 1 .. Len(up) : up[j].of \in Nat
    BY <2>1, UpMsgFields
  <2>2. \A j \in 1 .. Len(up') : up'[j].cmd = "KEYREQ" => j \in 1 .. Len(up)
    <3>1. \A j \in 1 .. Len(up') : j \in 1 .. Len(up) \/ j = Len(up) + 1
      BY <1>1, <2>1
    <3> QED
      BY <1>4, <2>1, <3>1
  <2>4. ASSUME NEW j \in 1 .. Len(up'), up'[j].cmd = "KEYREQ"
        PROVE  /\ Count(sent', Len(sent')) < up'[j].of /\ up'[j].of <= asked'
               /\ \A i \in 1 .. j - 1 : up'[i].cmd = "KEYREQ" => up'[i].of < up'[j].of
    <3>1. j \in 1 .. Len(up) /\ up'[j] = up[j] /\ up[j].of \in Nat
      BY <2>1, <2>2, <2>3, <2>4
    <3>2. \A i \in 1 .. j - 1 : up'[i] = up[i]
      BY <1>1, <2>1, <3>1
    <3>3. Count(sent, Len(sent)) < up[j].of /\ up[j].of <= asked
      BY <1>2, <2>4, <3>1 DEF RequestsInOrder
    <3>4. \A i \in 1 .. j - 1 : up[i].cmd = "KEYREQ" => up[i].of < up[j].of
      BY <1>2, <2>4, <3>1 DEF RequestsInOrder
    <3> QED
      BY <1>1, <3>1, <3>2, <3>3, <3>4
  <2> QED
    BY <2>1, <2>4 DEF RequestsInOrder
<1> QED
  BY <1>3, <1>4

LEMMA ReceivedCounts ==
  ASSUME KeyInv, NEW f \in Incoming, Received(f), state' = "open"
  PROVE  /\ state = "open" /\ got + 1 \in 1 .. Len(sent) /\ f = sent[got + 1]
         /\ Count(sent, got) \in Nat
         /\ Count(sent', got') = IF IsAnswer(f) THEN Count(sent, got) + 1 ELSE Count(sent, got)
<1>1. got \in 0 .. Len(sent) /\ Len(sent) \in Nat /\ state \in {"closed", "open", "lost"}
  BY DEF KeyInv, TypeOK, Channel!TypeOK
<1>2. state # "lost"
  BY DEF Received, chan
<1>3. state = "open" /\ got < Len(sent) /\ f = sent[got + 1]
  BY <1>1, <1>2 DEF Incoming
<1>4. sent' = sent /\ got' = got + 1
  BY <1>2 DEF Received, Channel!Take, Channel!Lose
<1> QED
  BY <1>1, <1>3, <1>4, CountNext, AnswersFinite

LEMMA NotReceivedCounts ==
  ASSUME NotReceived, state' = "open"
  PROVE  state = "open" /\ sent' = sent /\ got' = got
  BY DEF NotReceived, Channel!Lose, chan

LEMMA AnswersAreDue ==
  ASSUME KeyInv, NEW f \in Incoming, IsAnswer(f)
  PROVE  f.of \in 0 .. asked
<1>1. /\ got \in 0 .. Len(sent) /\ Len(sent) \in Nat /\ asked \in Nat
      /\ AnswersInOrder
  BY DEF KeyInv, TypeOK, Channel!TypeOK
<1>2. CASE state = "open" /\ got < Len(sent)
  <2>1. f = sent[got + 1] /\ got + 1 \in 1 .. Len(sent)
    BY <1>1, <1>2 DEF Incoming
  <2>2. Count(sent, got + 1) \in Nat
    BY <1>1, AnswersFinite
  <2>3. sent[got + 1] \in Frame
    BY <2>1 DEF KeyInv, TypeOK, Channel!TypeOK
  <2>4. sent[got + 1].of \in Nat
    BY <2>3 DEF Frame
  <2> QED
    BY <1>1, <2>1, <2>2, <2>4 DEF AnswersInOrder
<1>3. CASE ~(state = "open" /\ got < Len(sent))
  BY <1>1, <1>3 DEF Incoming
<1> QED
  BY <1>2, <1>3

\* Before the first key request nothing that comes ends one.
LEMMA NoAnswerBeforeRequest ==
  ASSUME KeyInv, asked = 0, NEW f \in Incoming, state = "open"
  PROVE  ~IsAnswer(f)
<1>1. got \in 0 .. Len(sent) /\ Len(sent) \in Nat /\ Count(sent, Len(sent)) <= 0
  BY DEF KeyInv, TypeOK, Channel!TypeOK, AnswersInOrder
<1>2. got + 1 \in 1 .. Len(sent) /\ f = sent[got + 1]
  BY <1>1 DEF Incoming
<1>3. Count(sent, got) \in Nat /\ Count(sent, got + 1) \in Nat /\ Count(sent, Len(sent)) \in Nat
  BY <1>1, AnswersFinite
<1>4. Count(sent, got + 1) <= Count(sent, Len(sent))
  BY <1>1, <1>2, CountMonotonic
<1> QED
  BY <1>1, <1>2, <1>3, <1>4, CountNext

LEMMA NextTryEffect ==
  ASSUME KeyInv, NEW bound \in Nat, NEW code, NextTry(bound, code)
  PROVE  /\ tries' \in Nat
         /\ \/ tries' < bound /\ UNCHANGED <<call, ret, gaveUp>>
            \/ call' = "idle" /\ ret' = code
               /\ gaveUp' = IF call = "key" THEN gaveUp + 1 ELSE gaveUp
  BY DEF KeyInv, TypeOK, NextTry, GiveUp, Return

LEMMA PongKeeps ==
  ASSUME Pong
  PROVE  /\ \/ up' = up
            \/ \E m \in UpMsg : m.cmd # "KEYREQ" /\ up' = Append(up, m)
         /\ deaf' \in {deaf, TRUE}
  BY DEF Pong, Written, NotWritten, Msg, UpMsg

-----------------------------------------------------------------------------
(* The actions.                                                            *)

LEMMA AwaitTokenKeeps ==
  ASSUME KeyInv, AwaitToken
  PROVE  KeyInv'
<1>1. /\ asked = 0 /\ gaveUp = 0 /\ answer = 0 /\ Waiting = 0
      /\ call = "token" /\ UNCHANGED <<logins, asked, answer>>
  BY DEF AwaitToken, KeyInv, TypeOK, Waiting
<1>2. TokenTries \in Nat
  BY SpClientAssumption
<1>3. /\ Reads
      /\ state' = "open" => Count(sent', got') = 0
  <2>1. EachAnswerEndsOneCall
    BY DEF KeyInv
  <2>2. CASE NotReceived
    BY <1>1, <2>1, <2>2, NotReceivedReads, NotReceivedCounts DEF EachAnswerEndsOneCall
  <2>3. ASSUME NEW f \in Incoming, Received(f)
        PROVE  Reads /\ (state' = "open" => Count(sent', got') = 0)
    <3>1. Reads
      BY <2>3, ReceivesAreReads
    <3>2. ASSUME state' = "open" PROVE Count(sent', got') = 0
      BY <1>1, <2>1, <2>3, <3>2, ReceivedCounts, NoAnswerBeforeRequest
         DEF EachAnswerEndsOneCall
    <3> QED
      BY <3>1, <3>2
  <2> QED
    BY <2>2, <2>3 DEF AwaitToken
<1>4. /\ Channel!TypeOK' /\ AnswersInOrder'
      /\ Count(sent', Len(sent')) \in Nat
      /\ Count(sent', Len(sent')) <= Count(sent, Len(sent))
  BY <1>1, <1>3, ReadsKeepAnswers
<1>5. /\ \/ up' = up
         \/ \E m \in UpMsg : m.cmd # "KEYREQ" /\ up' = Append(up, m)
      /\ deaf' \in {deaf, TRUE} /\ pushed' = pushed
  BY PongKeeps DEF AwaitToken, peer
<1>6. RequestsInOrder' /\ up' \in Seq(UpMsg)
  BY <1>1, <1>4, <1>5, RequestsKept
<1>7. /\ tries' \in Nat /\ gaveUp' = 0
      /\ call' \in {"idle", "token"} /\ (call' = "token" => tries' < TokenTries)
      /\ ret' \in {ret, 0, -3}
  <2>1. NextTry(TokenTries, -3) \/ (Return(0) /\ UNCHANGED <<tries, gaveUp>>)
    BY DEF AwaitToken
  <2>2. CASE NextTry(TokenTries, -3)
    BY <1>1, <1>2, <2>2, NextTryEffect
  <2>3. CASE Return(0) /\ UNCHANGED <<tries, gaveUp>>
    BY <1>1, <2>3 DEF Return, KeyInv, TypeOK
  <2> QED
    BY <2>1, <2>2, <2>3
<1>8. TypeOK'
  BY <1>1, <1>4, <1>5, <1>6, <1>7 DEF KeyInv, TypeOK, UpMsg
<1>9. Waiting' = 0
  BY <1>7 DEF Waiting
<1>10. EachAnswerEndsOneCall' /\ AnswerLag'
  BY <1>1, <1>3, <1>7, <1>9 DEF EachAnswerEndsOneCall, AnswerLag
<1> QED
  BY <1>1, <1>4, <1>6, <1>7, <1>8, <1>9, <1>10 DEF KeyInv

LEMMA AwaitKeyKeeps ==
  ASSUME KeyInv, AwaitKey
  PROVE  KeyInv'
<1>1. /\ call = "key" /\ Waiting = 1 /\ UNCHANGED <<logins, asked>>
      /\ asked \in Nat /\ gaveUp \in Nat /\ answer \in 0 .. asked /\ gaveUp + 1 <= asked
      /\ EachAnswerEndsOneCall /\ AnswerLag
  BY DEF AwaitKey, KeyInv, TypeOK, Waiting
<1>2. KeyTries \in Nat
  BY SpClientAssumption
\* A turn without an answer, and one that ends the call.
<1> DEFINE NoAnswer == /\ NextTry(KeyTries, -4) /\ answer' = answer
                       /\ state' = "open" => /\ state = "open"
                                             /\ Count(sent', got') = Count(sent, got)
           Answered == \E f \in Incoming :
                         /\ IsAnswer(f) /\ answer' = f.of
                         /\ UNCHANGED <<tries, gaveUp>>
                         /\ call' = "idle" /\ ret' \in {0, -3}
                         /\ state' = "open" => /\ state = "open"
                                               /\ Count(sent, got) \in Nat
                                               /\ Count(sent', got') = Count(sent, got) + 1
                                               /\ got + 1 \in 1 .. Len(sent)
                                               /\ f = sent[got + 1]
<1>3. /\ Reads
      /\ \/ up' = up
         \/ \E m \in UpMsg : m.cmd # "KEYREQ" /\ up' = Append(up, m)
      /\ deaf' \in {deaf, TRUE} /\ pushed' = pushed
      /\ NoAnswer \/ Answered
  <2>1. CASE NotReceived /\ NextTry(KeyTries, -4) /\ UNCHANGED <<peer, answer>>
    BY <2>1, NotReceivedReads, NotReceivedCounts DEF peer
  <2>2. ASSUME NEW f \in Incoming, Received(f), f.cmd = "PING", Pong,
               UNCHANGED <<pushed, answer>>, NextTry(KeyTries, -4)
        PROVE  <1>3!:
    <3>1. ~IsAnswer(f)
      BY <2>2 DEF IsAnswer
    <3> QED
      BY <2>2, <3>1, ReceivesAreReads, ReceivedCounts, PongKeeps
  <2>3. ASSUME NEW f \in Incoming, Received(f), EndsKeyCall(f),
               Return(IF f.cmd = "KEY" THEN 0 ELSE -3), answer' = f.of,
               UNCHANGED <<tries, gaveUp, peer>>
        PROVE  <1>3!:
    <3>1. IsAnswer(f)
      BY <2>3 DEF IsAnswer, EndsKeyCall
    <3> QED
      BY <2>3, <3>1, ReceivesAreReads, ReceivedCounts DEF peer, Return
  <2>4. ASSUME NEW f \in Incoming, Received(f), ~EndsKeyCall(f),
               NextTry(KeyTries, -4), UNCHANGED <<peer, answer>>
        PROVE  <1>3!:
    <3>1. ~IsAnswer(f)
      BY <2>4 DEF IsAnswer, EndsKeyCall
    <3> QED
      BY <2>4, <3>1, ReceivesAreReads, ReceivedCounts DEF peer
  <2> QED
    BY <2>1, <2>2, <2>3, <2>4 DEF AwaitKey
<1>4. /\ Channel!TypeOK' /\ AnswersInOrder'
      /\ Count(sent', Len(sent')) \in Nat
      /\ Count(sent', Len(sent')) <= Count(sent, Len(sent))
  BY <1>1, <1>3, ReadsKeepAnswers
<1>5. RequestsInOrder' /\ up' \in Seq(UpMsg)
  BY <1>1, <1>3, <1>4, RequestsKept
<1>6. CASE NoAnswer
  <2>1. /\ tries' \in Nat
        /\ \/ tries' < KeyTries /\ UNCHANGED <<call, ret, gaveUp>>
           \/ call' = "idle" /\ ret' = -4 /\ gaveUp' = gaveUp + 1
    BY <1>1, <1>2, <1>6, NextTryEffect
  <2>2. \/ Waiting' = 1 /\ gaveUp' = gaveUp
        \/ Waiting' = 0 /\ gaveUp' = gaveUp + 1
    BY <1>1, <2>1 DEF Waiting
  <2>7. answer' = answer
        /\ (state' = "open" => state = "open" /\ Count(sent', got') = Count(sent, got))
    BY <1>6, Zenon
  <2>5. gaveUp' \in 0 .. asked' /\ answer' \in 0 .. asked' /\ asked' = asked
    BY <1>1, <2>7, <2>2
  <2>6. /\ call' \in {"idle", "key"} /\ (call' = "key" => tries' < KeyTries)
        /\ ret' \in {ret, -4}
    BY <1>1, <2>1
  <2>3. TypeOK'
    BY <1>1, <1>3, <1>4, <1>5, <2>1, <2>5, <2>6 DEF KeyInv, TypeOK, UpMsg
  <2>4. EachAnswerEndsOneCall' /\ AnswerLag'
    <3>1. EachAnswerEndsOneCall'
      BY <1>1, <2>7, <2>2 DEF EachAnswerEndsOneCall
    <3>2. AnswerLag'
      BY <1>1, <2>7, <2>2 DEF AnswerLag
    <3> QED
      BY <3>1, <3>2
  <2> QED
    BY <1>1, <1>4, <1>5, <2>1, <2>2, <2>3, <2>4 DEF KeyInv
<1>7. CASE Answered
  <2>1. PICK f \in Incoming : Answered!(f)
    BY <1>7
  <2>2. Waiting' = 0 /\ gaveUp' = gaveUp /\ f.of \in 0 .. asked
    BY <2>1, AnswersAreDue DEF Waiting
  <2>3. TypeOK'
    BY <1>1, <1>3, <1>4, <1>5, <2>1, <2>2 DEF KeyInv, TypeOK, UpMsg
  <2>4. EachAnswerEndsOneCall'
    BY <1>1, <2>1, <2>2 DEF EachAnswerEndsOneCall
  <2>5. AnswerLag'
    <3> SUFFICES ASSUME state' = "open" PROVE asked - f.of <= gaveUp
      BY <1>1, <2>1, <2>2 DEF AnswerLag
    <3>1. /\ state = "open" /\ f = sent[got + 1] /\ IsAnswer(f)
          /\ Count(sent, got) \in Nat /\ got + 1 \in 1 .. Len(sent)
      BY <2>1
    <3>2. got \in Nat /\ AnswersInOrder
      BY DEF KeyInv, TypeOK, Channel!TypeOK
    <3>3. Count(sent, got + 1) = Count(sent, got) + 1
      BY <3>1, <3>2, CountNext
    <3>4. Count(sent, got + 1) <= f.of
      BY <3>1, <3>2 DEF AnswersInOrder
    <3>5. Count(sent, got) = asked - gaveUp - 1
      BY <1>1, <3>1 DEF EachAnswerEndsOneCall
    <3> QED
      BY <1>1, <2>2, <3>1, <3>3, <3>4, <3>5
  <2> QED
    BY <1>1, <1>4, <1>5, <2>1, <2>2, <2>3, <2>4, <2>5 DEF KeyInv
<1> QED
  BY <1>3, <1>6, <1>7

LEMMA LoginKeeps ==
  ASSUME KeyInv, Login
  PROVE  KeyInv'
<1>1. /\ sent' = <<>> /\ got' = 0 /\ last' = NoFrame
      /\ state' \in {"closed", "open", "lost"}
      /\ asked' = 0 /\ gaveUp' = 0 /\ answer' = 0 /\ tries' = 0 /\ pushed' = 0
      /\ logins' \in Nat /\ deaf' \in BOOLEAN
      /\ call' \in {"idle", "token"} /\ ret' \in {1, -2}
      /\ up' = <<>> \/ up' = <<Msg("TOKENREQ", 0)>>
  <2>1. /\ logins' = logins + 1 /\ call = "idle" /\ logins \in Nat
        /\ sent' = <<>> /\ got' = 0 /\ last' = NoFrame
        /\ asked' = 0 /\ gaveUp' = 0 /\ answer' = 0 /\ tries' = 0 /\ pushed' = 0
    BY DEF KeyInv, TypeOK, Login, Channel!Restart
  <2>2. /\ state' \in {"closed", "open", "lost"} /\ deaf' \in BOOLEAN
        /\ call' \in {call, "idle", "token"} /\ ret' \in {1, -2}
        /\ up' = <<>> \/ up' = <<Msg("TOKENREQ", 0)>>
    BY Zenon DEF Login, Return
  <2> QED
    BY <2>1, <2>2
<1>2. Channel!TypeOK'
  BY <1>1 DEF Channel!TypeOK
<1>3. up' \in Seq(UpMsg) /\ \A j \in 1 .. Len(up') : up'[j].cmd # "KEYREQ"
  <2>1. Msg("TOKENREQ", 0) \in UpMsg /\ Msg("TOKENREQ", 0).cmd # "KEYREQ"
    BY DEF Msg, UpMsg
  <2>2. ASSUME NEW m \in UpMsg, m.cmd # "KEYREQ", up' = <<m>>
        PROVE  up' \in Seq(UpMsg) /\ \A j \in 1 .. Len(up') : up'[j].cmd # "KEYREQ"
    <3>1. up' \in Seq(UpMsg) /\ Len(up') = 1 /\ up'[1] = m
      BY <2>2
    <3> QED
      BY <2>2, <3>1
  <2>3. CASE up' = <<>>
    BY <2>3
  <2> QED
    BY <1>1, <2>1, <2>2, <2>3
<1>4. TypeOK'
  BY <1>1, <1>2, <1>3, SpClientAssumption DEF TypeOK, UpMsg
<1>5. Len(sent') = 0 /\ Count(sent', 0) = 0 /\ Waiting' = 0
  BY <1>1, CountZero DEF Waiting
<1>6. RequestsInOrder' /\ AnswersInOrder'
  BY <1>1, <1>3, <1>5 DEF RequestsInOrder, AnswersInOrder
<1>7. EachAnswerEndsOneCall' /\ AnswerLag'
  BY <1>1, <1>5 DEF EachAnswerEndsOneCall, AnswerLag
<1> QED
  BY <1>1, <1>4, <1>5, <1>6, <1>7 DEF KeyInv

LEMMA AskKeeps ==
  ASSUME KeyInv, spclient_get_audio_key
  PROVE  KeyInv'
<1>1. /\ call = "idle" /\ Waiting = 0 /\ asked' = asked + 1
      /\ UNCHANGED <<state, sent, got, last, pushed, logins, answer>>
      /\ asked \in Nat /\ gaveUp \in 0 .. asked /\ answer \in 0 .. asked
      /\ Channel!TypeOK /\ up \in Seq(UpMsg)
      /\ EachAnswerEndsOneCall /\ AnswerLag /\ RequestsInOrder /\ AnswersInOrder
      /\ Count(sent, Len(sent)) \in Nat
  BY AnswersFinite DEF spclient_get_audio_key, KeyInv, TypeOK, Waiting, chan, UpMsg, Channel!TypeOK
<1>2. /\ \/ call' = "key" /\ Waiting' = 1 /\ gaveUp' = gaveUp
         \/ call' = "idle" /\ Waiting' = 0 /\ gaveUp' = gaveUp + 1
      /\ tries' \in {0, tries} /\ (call' = "key" => tries' = 0)
      /\ ret' \in {ret, -2} /\ deaf' \in {deaf, TRUE}
  BY <1>1 DEF spclient_get_audio_key, Return, Waiting, Written, NotWritten
<1>3. up' = up \/ up' = Append(up, Msg("KEYREQ", asked'))
  BY <1>1 DEF spclient_get_audio_key, Written, NotWritten
<1>4. Channel!TypeOK'
  BY <1>1 DEF Channel!TypeOK
<1>5. AnswersInOrder'
  <2>1. \A k \in 1 .. Len(sent) : IsAnswer(sent[k]) => sent[k].of \in Nat
    <3>1. \A k \in 1 .. Len(sent) : sent[k] \in Frame
      BY <1>1 DEF Channel!TypeOK
    <3> QED
      BY <3>1 DEF Frame
  <2> QED
    BY <1>1, <2>1 DEF AnswersInOrder
<1>6. RequestsInOrder' /\ up' \in Seq(UpMsg)
  <2>1. Msg("KEYREQ", asked') \in UpMsg /\ Msg("KEYREQ", asked').of = asked + 1
    BY <1>1 DEF Msg, UpMsg
  <2>2. \A j \in 1 .. Len(up) : up[j] \in UpMsg
    BY <1>1
  <2>3. \A j \in 1 .. Len(up) : up[j].of \in Nat
    BY <2>2, UpMsgFields
  <2>4. CASE up' = up
    BY <1>1, <2>3, <2>4 DEF RequestsInOrder
  <2>5. CASE up' = Append(up, Msg("KEYREQ", asked'))
    <3>1. /\ Len(up') = Len(up) + 1 /\ up' \in Seq(UpMsg)
          /\ up'[Len(up) + 1].of = asked + 1
          /\ \A j \in 1 .. Len(up) : up'[j] = up[j]
      BY <1>1, <2>1, <2>5
    <3>2. \A j \in 1 .. Len(up') : j \in 1 .. Len(up) \/ j = Len(up) + 1
      BY <1>1, <3>1
    <3>3. Count(sent, Len(sent)) <= asked
      BY <1>1 DEF AnswersInOrder
    <3>4. ASSUME NEW j \in 1 .. Len(up'), up'[j].cmd = "KEYREQ"
          PROVE  /\ Count(sent', Len(sent')) < up'[j].of /\ up'[j].of <= asked'
                 /\ \A i \in 1 .. j - 1 : up'[i].cmd = "KEYREQ" => up'[i].of < up'[j].of
      <4>1. CASE j \in 1 .. Len(up)
        <5>1. \A i \in 1 .. j - 1 : up'[i] = up[i]
          BY <1>1, <3>1, <4>1
        <5> QED
          <6>1. up'[j] = up[j] /\ up[j].of \in Nat /\ up[j].cmd = "KEYREQ"
            BY <2>3, <3>1, <3>4, <4>1
          <6>2. /\ Count(sent, Len(sent)) < up[j].of /\ up[j].of <= asked
                /\ \A i \in 1 .. j - 1 : up[i].cmd = "KEYREQ" => up[i].of < up[j].of
            BY <1>1, <4>1, <6>1 DEF RequestsInOrder
          <6>3. Count(sent', Len(sent')) = Count(sent, Len(sent)) /\ asked' = asked + 1 /\ asked \in Nat
            BY <1>1
          <6>4. \A i \in 1 .. j - 1 : up'[i].cmd = "KEYREQ" => up'[i].of < up'[j].of
            BY ONLY <5>1, <6>1, <6>2
          <6> QED
            BY ONLY <6>1, <6>2, <6>3, <6>4
      <4>2. CASE j = Len(up) + 1
        <5>1. \A i \in 1 .. j - 1 : i \in 1 .. Len(up) /\ up'[i] = up[i]
          BY <1>1, <3>1, <4>2
        <5>2. \A i \in 1 .. j - 1 : up[i].cmd = "KEYREQ" => up[i].of < asked + 1
          BY <1>1, <2>3, <5>1 DEF RequestsInOrder
        <5> QED
          BY <1>1, <3>1, <3>3, <4>2, <5>1, <5>2
      <4> QED
        BY <3>2, <4>1, <4>2
    <3> QED
      BY <3>1, <3>4 DEF RequestsInOrder
  <2> QED
    BY <1>3, <2>4, <2>5
<1>7. TypeOK'
  <2>1. asked' \in Nat /\ gaveUp' \in 0 .. asked' /\ answer' \in 0 .. asked'
    BY <1>1, <1>2
  <2>2. /\ tries' \in Nat /\ call' \in {"idle", "key"}
        /\ (call' = "key" => tries' < KeyTries)
        /\ ret' \in {-4, -3, -2, 0, 1} /\ deaf' \in BOOLEAN
        /\ pushed' \in Nat /\ logins' \in Nat
    <3>1. TypeOK /\ KeyTries \in Nat \ {0}
      BY SpClientAssumption DEF KeyInv
    <3>2. tries' \in Nat /\ ret' \in {-4, -3, -2, 0, 1}
      BY <1>2, <3>1 DEF TypeOK
    <3>5. deaf' \in BOOLEAN
      <4>1. deaf \in BOOLEAN /\ (deaf' = deaf \/ deaf' = TRUE)
        BY <1>2, <3>1, Zenon DEF TypeOK
      <4> QED
        BY <4>1, Zenon
    <3>3. call' \in {"idle", "key"} /\ (call' = "key" => tries' < KeyTries)
      BY <1>2, <3>1
    <3>4. pushed' \in Nat /\ logins' \in Nat
      BY <1>1, <3>1 DEF TypeOK
    <3> QED
      BY <3>2, <3>3, <3>4, <3>5
  <2> QED
    BY <1>4, <1>6, <2>1, <2>2 DEF TypeOK, UpMsg
<1>8. EachAnswerEndsOneCall' /\ AnswerLag'
  BY <1>1, <1>2 DEF EachAnswerEndsOneCall, AnswerLag
<1> QED
  BY <1>1, <1>2, <1>5, <1>6, <1>7, <1>8 DEF KeyInv

LEMMA DisconnectKeeps ==
  ASSUME KeyInv, mercury_disconnect
  PROVE  KeyInv'
<1>1. /\ sent' = <<>> /\ got' = 0 /\ last' = NoFrame /\ state' = "closed" /\ up' = <<>>
      /\ UNCHANGED <<deaf, pushed, logins, call, tries, ret, asked, gaveUp, answer>>
  BY DEF mercury_disconnect, Channel!Close, Channel!Restart
<1>2. Channel!TypeOK' /\ up' \in Seq(UpMsg)
  BY <1>1 DEF Channel!TypeOK
<1>3. TypeOK'
  BY <1>1, <1>2 DEF KeyInv, TypeOK, UpMsg
<1>4. Len(sent') = 0 /\ Count(sent', 0) = 0 /\ Waiting' = Waiting
  BY <1>1, CountZero DEF Waiting
<1>5. RequestsInOrder' /\ AnswersInOrder'
  BY <1>1, <1>4 DEF KeyInv, TypeOK, RequestsInOrder, AnswersInOrder
<1>6. EachAnswerEndsOneCall' /\ AnswerLag'
  BY <1>1 DEF EachAnswerEndsOneCall, AnswerLag
<1> QED
  BY <1>1, <1>3, <1>4, <1>5, <1>6 DEF KeyInv

\* A frame is appended; if it is an answer, to a request newer than the others.
LEMMA PushKeeps ==
  ASSUME KeyInv, NEW f \in Frame, Channel!Push(f), asked' = asked,
         IsAnswer(f) => Count(sent, Len(sent)) < f.of /\ f.of <= asked
  PROVE  /\ Channel!TypeOK' /\ AnswersInOrder'
         /\ UNCHANGED <<state, got>> /\ Count(sent', got') = Count(sent, got)
         /\ Count(sent, Len(sent)) \in Nat
         /\ Count(sent', Len(sent')) = IF IsAnswer(f) THEN Count(sent, Len(sent)) + 1
                                       ELSE Count(sent, Len(sent))
<1>1. /\ sent \in Seq(Frame) /\ got \in 0 .. Len(sent) /\ Len(sent) \in Nat
      /\ last \in Frame \cup {NoFrame} /\ state = "open"
      /\ sent' = Append(sent, f) /\ UNCHANGED <<state, got, last>>
      /\ AnswersInOrder /\ asked \in Nat
  BY DEF KeyInv, TypeOK, Channel!TypeOK, Channel!Push
<1>2. /\ Len(sent') = Len(sent) + 1 /\ sent' \in Seq(Frame)
      /\ sent'[Len(sent) + 1] = f
      /\ \A k \in 1 .. Len(sent) : sent'[k] = sent[k]
  BY <1>1
<1>3. Channel!TypeOK'
  BY <1>1, <1>2 DEF Channel!TypeOK
<1>4. \A n \in 0 .. Len(sent) : Count(sent', n) = Count(sent, n)
  BY <1>1, CountAppend
<1>5. /\ Count(sent, Len(sent)) \in Nat
      /\ Count(sent', Len(sent')) = IF IsAnswer(f) THEN Count(sent, Len(sent)) + 1
                                    ELSE Count(sent, Len(sent))
  <2>1. Count(sent', Len(sent)) = Count(sent, Len(sent)) /\ Count(sent, Len(sent)) \in Nat
    BY <1>1, <1>4, AnswersFinite
  <2> QED
    BY <1>1, <1>2, <2>1, CountNext
<1>6. f.of \in Nat
  BY DEF Frame
<1>7. Count(sent', Len(sent')) <= asked'
  BY <1>1, <1>5, <1>6 DEF AnswersInOrder
<1>8. ASSUME NEW k \in 1 .. Len(sent'), IsAnswer(sent'[k])
      PROVE  Count(sent', k) <= sent'[k].of /\ sent'[k].of <= asked'
  <2>1. CASE k \in 1 .. Len(sent)
    BY <1>1, <1>2, <1>4, <1>8, <2>1 DEF AnswersInOrder
  <2>2. CASE k = Len(sent')
    BY <1>1, <1>2, <1>5, <1>6, <1>8, <2>2
  <2> QED
    BY <1>1, <1>2, <2>1, <2>2
<1>9. AnswersInOrder'
  BY <1>7, <1>8 DEF AnswersInOrder
<1> QED
  BY <1>1, <1>3, <1>4, <1>5, <1>9

LEMMA ApPushKeeps ==
  ASSUME KeyInv, ApPush
  PROVE  KeyInv'
<1>1. /\ pushed' = pushed + 1
      /\ UNCHANGED <<up, deaf, logins, call, tries, ret, asked, gaveUp, answer>>
  BY DEF ApPush
<1>2. PICK cmd \in {"PING", "SMALL", "LARGE", "HUGE"} : Channel!Push(Msg(cmd, 0))
  BY DEF ApPush
<1>3. Msg(cmd, 0) \in Frame /\ ~IsAnswer(Msg(cmd, 0))
  BY DEF Msg, Frame, Cmds, IsAnswer
<1>4. /\ Channel!TypeOK' /\ AnswersInOrder' /\ UNCHANGED <<state, got>>
      /\ Count(sent', got') = Count(sent, got)
      /\ Count(sent', Len(sent')) = Count(sent, Len(sent))
      /\ Count(sent, Len(sent)) \in Nat
  BY <1>1, <1>2, <1>3, PushKeeps
<1>5. RequestsInOrder' /\ up' \in Seq(UpMsg)
  BY <1>1, <1>4, RequestsKept
<1>6. Waiting' = Waiting
  BY <1>1 DEF Waiting
<1>7. TypeOK'
  BY <1>1, <1>4, <1>5 DEF KeyInv, TypeOK, UpMsg
<1>8. EachAnswerEndsOneCall' /\ AnswerLag'
  BY <1>1, <1>4, <1>6 DEF KeyInv, EachAnswerEndsOneCall, AnswerLag
<1> QED
  BY <1>1, <1>4, <1>5, <1>6, <1>7, <1>8 DEF KeyInv

LEMMA ApAnswerKeeps ==
  ASSUME KeyInv, ApAnswer
  PROVE  KeyInv'
<1>1. /\ up # <<>> /\ up' = Tail(up) /\ up \in Seq(UpMsg) /\ asked \in Nat
      /\ UNCHANGED <<deaf, pushed, logins, call, tries, ret, asked, gaveUp, answer>>
      /\ Channel!TypeOK /\ RequestsInOrder /\ AnswersInOrder
      /\ Count(sent, Len(sent)) \in Nat
  BY AnswersFinite DEF ApAnswer, KeyInv, TypeOK, UpMsg, Channel!TypeOK
<1>2. /\ Len(up) \in Nat /\ Len(up) >= 1 /\ Head(up) = up[1] /\ Head(up) \in UpMsg
      /\ Len(up') = Len(up) - 1 /\ up' \in Seq(UpMsg)
      /\ \A j \in 1 .. Len(up') : up'[j] = up[j + 1] /\ j + 1 \in 1 .. Len(up)
      /\ \A j \in 1 .. Len(up) : up[j] \in UpMsg
  BY <1>1
<1>3. \A j \in 1 .. Len(up) : up[j].of \in Nat
  BY <1>2, UpMsgFields
<1> DEFINE Stays == UNCHANGED chan
           Sends == \E f \in Frame :
                      /\ Channel!Push(f)
                      /\ IsAnswer(f) => Head(up).cmd = "KEYREQ" /\ f.of = Head(up).of
<1>4. Stays \/ Sends
  <2>1. CASE UNCHANGED chan
    BY <2>1
  <2>2. ASSUME NEW f \in Answers(Head(up)), Channel!Push(f)
        PROVE  Sends
    <3>1. \/ Head(up).cmd = "TOKENREQ" /\ f = Msg("TOKEN", 0)
          \/ /\ Head(up).cmd = "KEYREQ"
             /\ f \in {Msg("KEY", Head(up).of), Msg("KEYFAIL", Head(up).of)}
      BY <2>2 DEF Answers
    <3>2. Head(up).of \in Nat
      BY <1>2, UpMsgFields
    <3>3. f \in Frame
      BY <3>1, <3>2 DEF Msg, Frame, Cmds
    <3>4. IsAnswer(f) => Head(up).cmd = "KEYREQ" /\ f.of = Head(up).of
      BY <3>1 DEF Msg, IsAnswer
    <3> QED
      BY <2>2, <3>3, <3>4
  <2> QED
    BY <2>1, <2>2 DEF ApAnswer
<1>5. /\ Channel!TypeOK' /\ AnswersInOrder' /\ UNCHANGED <<state, got>>
      /\ Count(sent', got') = Count(sent, got)
      /\ \/ Count(sent', Len(sent')) = Count(sent, Len(sent))
         \/ Head(up).cmd = "KEYREQ" /\ Count(sent', Len(sent')) = Count(sent, Len(sent)) + 1
  <2>1. CASE Stays
    <3>1. UNCHANGED <<state, sent, got, last>>
      BY <2>1 DEF chan
    <3> QED
      BY <1>1, <3>1 DEF AnswersInOrder, Channel!TypeOK
  <2>2. ASSUME NEW f \in Frame, Channel!Push(f),
               IsAnswer(f) => Head(up).cmd = "KEYREQ" /\ f.of = Head(up).of
        PROVE  <1>5!:
    <3>1. IsAnswer(f) => Count(sent, Len(sent)) < f.of /\ f.of <= asked
      BY <1>1, <1>2, <2>2 DEF RequestsInOrder
    <3> QED
      BY <1>1, <2>2, <3>1, PushKeeps
  <2> QED
    BY <1>4, <2>1, <2>2
<1>6. RequestsInOrder'
  <2> SUFFICES ASSUME NEW j \in 1 .. Len(up'), up'[j].cmd = "KEYREQ"
               PROVE  /\ Count(sent', Len(sent')) < up'[j].of /\ up'[j].of <= asked'
                      /\ \A i \in 1 .. j - 1 : up'[i].cmd = "KEYREQ" => up'[i].of < up'[j].of
    BY DEF RequestsInOrder
  <2>1. /\ up'[j] = up[j + 1] /\ j + 1 \in 1 .. Len(up) /\ up[j + 1].of \in Nat
        /\ up[1].of \in Nat
    BY <1>2, <1>3
  <2>2. /\ Count(sent, Len(sent)) < up[j + 1].of /\ up[j + 1].of <= asked
        /\ \A i \in 1 .. j : up[i].cmd = "KEYREQ" => up[i].of < up[j + 1].of
    BY <1>1, <2>1 DEF RequestsInOrder
  <2>3. Head(up).cmd = "KEYREQ" => /\ Count(sent, Len(sent)) < up[1].of
                                   /\ up[1].of < up[j + 1].of
    BY <1>1, <1>2, <2>2 DEF RequestsInOrder
  <2>4. Count(sent', Len(sent')) < up'[j].of
    BY <1>1, <1>5, <2>1, <2>2, <2>3
  <2>5. \A i \in 1 .. j - 1 : up'[i] = up[i + 1] /\ i + 1 \in 1 .. j
    BY <1>2
  <2> QED
    BY <1>1, <2>1, <2>2, <2>4, <2>5
<1>7. Waiting' = Waiting
  BY <1>1 DEF Waiting
<1>8. TypeOK'
  BY <1>1, <1>2, <1>5 DEF KeyInv, TypeOK, UpMsg
<1>9. EachAnswerEndsOneCall' /\ AnswerLag'
  BY <1>1, <1>5, <1>7 DEF KeyInv, EachAnswerEndsOneCall, AnswerLag
<1> QED
  BY <1>1, <1>5, <1>6, <1>7, <1>8, <1>9 DEF KeyInv

-----------------------------------------------------------------------------
(* The theorems.                                                           *)

LEMMA InitKeyInv == Init => KeyInv
<1> SUFFICES ASSUME Init PROVE KeyInv
  OBVIOUS
<1>1. /\ state = "closed" /\ sent = <<>> /\ got = 0 /\ last = NoFrame /\ up = <<>>
      /\ call = "idle" /\ asked = 0 /\ gaveUp = 0 /\ answer = 0
  BY DEF Init, Channel!Init
<1>2. Len(sent) = 0 /\ Count(sent, 0) = 0 /\ Waiting = 0
  BY <1>1, CountZero DEF Waiting
<1>3. TypeOK
  <2>1. Channel!TypeOK
    BY <1>1 DEF Channel!TypeOK
  <2>2. up \in Seq(UpMsg)
    BY <1>1
  <2>4. deaf \in BOOLEAN
    BY Zenon DEF Init
  <2>3. pushed \in Nat /\ logins \in Nat /\ tries \in Nat /\ ret = 1
    BY DEF Init
  <2> QED
    BY <1>1, <2>1, <2>2, <2>3, <2>4 DEF TypeOK, UpMsg
<1> QED
  BY <1>1, <1>2, <1>3 DEF KeyInv, EachAnswerEndsOneCall, RequestsInOrder, AnswersInOrder, AnswerLag

LEMMA StutterKeepsKeyInv ==
  ASSUME KeyInv, UNCHANGED vars
  PROVE  KeyInv'
  BY DEF vars, chan, peer, KeyInv, TypeOK, Channel!TypeOK, EachAnswerEndsOneCall, Waiting,
         RequestsInOrder, AnswersInOrder, AnswerLag

\* The accounting of requests and answers, with what it takes to be inductive,
\* holds in every reachable state of the request loops of spclient.c.
THEOREM KeyInvariance == Spec => []KeyInv
<1>1. Init => KeyInv
  BY InitKeyInv
<1>2. KeyInv /\ [Next]_vars => KeyInv'
  <2> SUFFICES ASSUME KeyInv, [Next]_vars PROVE KeyInv'
    OBVIOUS
  <2>1. CASE Login
    BY <2>1, LoginKeeps
  <2>2. CASE AwaitToken
    BY <2>2, AwaitTokenKeeps
  <2>3. CASE spclient_get_audio_key
    BY <2>3, AskKeeps
  <2>4. CASE AwaitKey
    BY <2>4, AwaitKeyKeeps
  <2>5. CASE mercury_disconnect
    BY <2>5, DisconnectKeeps
  <2>6. CASE ApAnswer
    BY <2>6, ApAnswerKeeps
  <2>7. CASE ApPush
    BY <2>7, ApPushKeeps
  <2>8. CASE UNCHANGED vars
    BY <2>8, StutterKeepsKeyInv
  <2> QED
    BY <2>1, <2>2, <2>3, <2>4, <2>5, <2>6, <2>7, <2>8 DEF Next
<1> QED
  BY <1>1, <1>2, PTL DEF Spec

\* Every variable has its type.
THEOREM RequestsTypeCorrect == Spec => []TypeOK
<1>1. KeyInv => TypeOK
  BY DEF KeyInv
<1> QED
  BY <1>1, KeyInvariance, PTL

\* Every answer taken ends exactly one key request, and none is dropped, as
\* long as the channel is not lost.
THEOREM AnswersAccounted == Spec => []EachAnswerEndsOneCall
<1>1. KeyInv => EachAnswerEndsOneCall
  BY DEF KeyInv
<1> QED
  BY <1>1, KeyInvariance, PTL

\* A key belongs to a request at most as far back as requests were given up.
THEOREM LagBounded == Spec => []AnswerLag
<1>1. KeyInv => AnswerLag
  BY DEF KeyInv
<1> QED
  BY <1>1, KeyInvariance, PTL

=============================================================================
