----------------------------- MODULE MdnsProofs -----------------------------
(***************************************************************************)
(* Two things about the mDNS worker of the Windows build.  It never        *)
(* touches a session that is freed, nor its socket when it is closed, in   *)
(* every interleaving with the thread that stops it.  And it answers each  *)
(* of the questions for its service in a datagram, and no other: for this  *)
(* the packets of queries are followed through mdns.h, from the names as   *)
(* they are written to the names that mdns_socket_listen reads.            *)
(***************************************************************************)
EXTENDS MdnsService, CommonLemmas

(* The life of a worker.                                                   *)

Busy == {"first", "test", "select", "count", "announce"}

\* Where the main thread is in the life of a session: what it has, by then.
SessionShape ==
    /\ main \in {"idle", "started", "fields", "running", "up", "told", "waited", "closed"}
    /\ main # "idle" => alive = "live"
    /\ main \in {"started", "fields", "running", "up", "told", "waited"} => sock = TRUE

\* A worker that runs has a handle that stop will wait on, and stop has not
\* got past that wait.
WorkerShape ==
    /\ worker \in Busy \cup {"none", "ended"}
    /\ worker \in Busy => main \in {"up", "told"} /\ thread = "some"

WorkerInv == SessionShape /\ WorkerShape

\* The worker's life: it begins so, and every step leaves it so.
LEMMA WorkerInvInit == Init => WorkerInv
BY DEF Init, WorkerInv, SessionShape, WorkerShape, Busy

\* The main thread's steps before it waits create at most one worker.
LEMMA RegisterKeeps ==
    ASSUME WorkerInv,
           platform_mdns_start \/ RegisterFields \/ RegisterRunning \/ RegisterThread
    PROVE  WorkerInv'
<1>. USE DEF WorkerInv, SessionShape, WorkerShape, Busy
<1>1. CASE platform_mdns_start
  BY <1>1 DEF platform_mdns_start
<1>2. CASE RegisterFields
  BY <1>2 DEF RegisterFields
<1>3. CASE RegisterRunning
  BY <1>3 DEF RegisterRunning
<1>4. CASE RegisterThread
  BY <1>4 DEF RegisterThread
<1>. QED BY <1>1, <1>2, <1>3, <1>4

\* The wait of platform_mdns_stop is over only when the worker has ended, so
\* that socket and session go after it.
LEMMA StopKeeps ==
    ASSUME WorkerInv, StopTells \/ StopWaits \/ StopCloses \/ StopFrees
    PROVE  WorkerInv'
<1>. USE DEF WorkerInv, SessionShape, WorkerShape, Busy
<1>1. CASE StopTells
  BY <1>1 DEF StopTells
<1>2. CASE StopWaits
  BY <1>2 DEF StopWaits, WaitForWorker
<1>3. CASE StopCloses
  BY <1>3 DEF StopCloses
<1>4. CASE StopFrees
  BY <1>4 DEF StopFrees
<1>. QED BY <1>1, <1>2, <1>3, <1>4

\* The worker goes round its loop or ends, and never begins by itself.
LEMMA WorkerKeeps ==
    ASSUME WorkerInv, Worker
    PROVE  WorkerInv'
<1>1. UNCHANGED mainVars /\ worker \in Busy /\ worker' \in Busy \cup {"ended"}
  BY DEF Worker, FirstAnnouncement, WorkerTests, TestRunning, SelectTimesOut, SelectListens,
         AfterListen, WorkerCounts, WorkerAnnounces, mainVars, Busy
<1>. QED BY <1>1 DEF WorkerInv, SessionShape, WorkerShape, mainVars, Busy

LEMMA WorkerInvNext == WorkerInv /\ [Next]_vars => WorkerInv'
<1>. SUFFICES ASSUME WorkerInv, [Next]_vars
              PROVE  WorkerInv'
  OBVIOUS
<1>1. CASE Main
  BY <1>1, RegisterKeeps, StopKeeps DEF Main
<1>2. CASE Worker
  BY <1>2, WorkerKeeps
<1>3. CASE DatagramArrives
  BY <1>3 DEF DatagramArrives, mainVars, WorkerInv, SessionShape, WorkerShape
<1>4. CASE UNCHANGED vars
  BY <1>4 DEF vars, mainVars, WorkerInv, SessionShape, WorkerShape
<1>. QED BY <1>1, <1>2, <1>3, <1>4 DEF Next

LEMMA WorkerInvariance == Spec => []WorkerInv
<1>. QED BY WorkerInvInit, WorkerInvNext, PTL DEF Spec

(* platform_mdns_stop frees the session while the worker may be anywhere   *)
(* in its loop: the worker reads it only as long as it is there, and its   *)
(* socket as long as it is open.                                           *)
THEOREM WorkerNeverReadsFreed == Spec => []NoUseAfterFree
<1>1. WorkerInv => NoUseAfterFree
  BY DEF WorkerInv, SessionShape, WorkerShape, NoUseAfterFree, Busy
<1>. QED BY <1>1, WorkerInvariance, PTL

-----------------------------------------------------------------------------
(* Loops.  mdns.h goes through labels, questions and records in loops, of  *)
(* which Mdns makes functions from the turns taken to what they came to.   *)

\* A turn of one of the loops that write and read a packet of queries.
TurnOf(loop, b, s, t) ==
    CASE loop = "extract" -> NameTurn(b, t)
      [] loop = "skip" -> SkipTurn(b, t)
      [] loop = "make" -> MakeTurn(t)
      [] loop = "ask" -> [p |-> AddQuestion(t.p, Head(t.rest), CLASS_IN + FLUSH), rest |-> Tail(t.rest)]
      [] loop = "question" -> QuestionTurn(b, s, t)
      [] OTHER -> RecordTurn(b, s, t)

MadeOfTurns(g, loop, b, s, first, n) ==
    g = [k \in 0..n |-> IF k = 0 THEN first ELSE TurnOf(loop, b, s, g[k - 1])]

AreTurns(turn, loop, b, s, first, n) ==
    turn[0] = first /\ \A k \in 1..n : turn[k] = TurnOf(loop, b, s, turn[k - 1])

\* Each loop has its turns, by induction over their number.
LEMMA TurnsExist ==
    ASSUME NEW loop, NEW b, NEW s, NEW first, NEW n \in Nat
    PROVE  \E g : MadeOfTurns(g, loop, b, s, first, n)
<1>. DEFINE Turn(t) == TurnOf(loop, b, s, t)
            Body(g, m1) == [k \in 0..m1 |-> IF k = 0 THEN first ELSE Turn(g[k - 1])]
            P == {m1 \in 0..n : \E g : g = Body(g, m1)}
<1>. HIDE DEF Turn
<1>1. 0 \in P
  <2>. DEFINE g == [k \in 0..0 |-> first]
  <2>1. g = Body(g, 0)
    OBVIOUS
  <2>. HIDE DEF g
  <2>2. \E h : h = Body(h, 0)
    BY <2>1
  <2>. QED BY <2>2
<1>2. ASSUME NEW m1 \in 0..(n - 1), m1 \in P
      PROVE  m1 + 1 \in P
  <2>1. PICK g : g = Body(g, m1)
    BY <1>2
  <2>. DEFINE h == [k \in 0..(m1 + 1) |-> IF k = m1 + 1 THEN Turn(g[m1]) ELSE g[k]]
  <2>2. \A k \in 0..m1 : h[k] = g[k]
    OBVIOUS
  <2>3. \A k \in 1..(m1 + 1) : h[k] = Turn(h[k - 1])
    <3>. TAKE k \in 1..(m1 + 1)
    <3>1. CASE k = m1 + 1
      BY <3>1, <2>2
    <3>2. CASE k # m1 + 1
      <4>1. k \in 0..m1 /\ k - 1 \in 0..m1 /\ k # 0
        BY <3>2
      <4>2. g[k] = Turn(g[k - 1])
        BY <2>1, <4>1
      <4>. QED BY <4>1, <4>2, <2>2
    <3>. QED BY <3>1, <3>2
  <2>4. h = Body(h, m1 + 1)
    <3>1. h[0] = first
      <4>1. g[0] = first
        BY <2>1
      <4>. QED BY <4>1, <2>2
    <3>2. h = [k \in 0..(m1 + 1) |-> h[k]]
      OBVIOUS
    <3>. HIDE DEF h
    <3>3. \A k \in 0..(m1 + 1) : h[k] = IF k = 0 THEN first ELSE Turn(h[k - 1])
      BY <2>3, <3>1
    <3>. QED BY <3>2, <3>3
  <2>5. \E f : f = Body(f, m1 + 1)
    <3>. HIDE DEF h, Body
    <3>. QED BY <2>4
  <2>. QED BY <2>5
<1>3. 0..n \subseteq P
  <2>. HIDE DEF P
  <2>. QED BY <1>1, <1>2, UpTo
<1>4. PICK g : g = Body(g, n)
  BY <1>3
<1>5. MadeOfTurns(g, loop, b, s, first, n)
  BY <1>4, Zenon DEF MadeOfTurns, Turn
<1>. QED BY <1>5

\* The turns, by their equations.
LEMMA TurnsUnwind ==
    ASSUME NEW loop, NEW b, NEW s, NEW first, NEW n \in Nat, NEW g,
           MadeOfTurns(g, loop, b, s, first, n)
    PROVE  AreTurns(g, loop, b, s, first, n)
<1>1. \A k \in 1..n : k \in 0..n /\ k # 0
  OBVIOUS
<1>2. 0 \in 0..n
  OBVIOUS
<1>3. \A k \in 0..n : g[k] = IF k = 0 THEN first ELSE TurnOf(loop, b, s, g[k - 1])
  BY Zenon DEF MadeOfTurns
<1>. QED BY <1>1, <1>2, <1>3, Zenon DEF AreTurns

\* The loops, one by one, are what the turns come to.
LEMMA ExtractTurns ==
    ASSUME NEW b, NEW o, MaxSubstrings \in Nat
    PROVE  \E turn : /\ AreTurns(turn, "extract", b, 0, FirstTurn(o), MaxSubstrings + 1)
                     /\ mdns_string_extract(b, o) = turn[MaxSubstrings + 1].name
<1>. DEFINE n == MaxSubstrings + 1
            first == FirstTurn(o)
            turn == CHOOSE g : g = [k \in 0..n |-> IF k = 0 THEN first ELSE NameTurn(b, g[k - 1])]
<1>. HIDE DEF first
<1>1. n \in Nat
  OBVIOUS
<1>2. mdns_string_extract(b, o) = turn[n].name
  BY Zenon DEF mdns_string_extract, Turns, first
<1>3. MadeOfTurns(turn, "extract", b, 0, first, n)
  <2>. HIDE DEF n
  <2>1. \E g : MadeOfTurns(g, "extract", b, 0, first, n)
    BY ONLY <1>1, TurnsExist
  <2>2. \A g : MadeOfTurns(g, "extract", b, 0, first, n)
               <=> g = [k \in 0..n |-> IF k = 0 THEN first ELSE NameTurn(b, g[k - 1])]
    <3>1. \A t : TurnOf("extract", b, 0, t) = NameTurn(b, t)
      BY DEF TurnOf
    <3>. QED BY <3>1, Zenon DEF MadeOfTurns
  <2>. QED BY ONLY <2>1, <2>2, Zenon DEF turn
<1>. HIDE DEF turn
<1>4. AreTurns(turn, "extract", b, 0, first, n)
  <2>. HIDE DEF n
  <2>. QED BY ONLY <1>1, <1>3, TurnsUnwind
<1>. QED BY <1>2, <1>4, Zenon DEF first

\* A name made, when the loop is over.
Ended(t) ==
    CASE t.over -> t.p
      [] ~t.over /\ Len(t.p.buf) >= Capacity -> Null
      [] OTHER -> [t.p EXCEPT !.buf = Append(@, 0)]

\* The head of a packet of queries.
Asking(q) ==
    Start(htons(0) \o htons(0) \o htons(Len(q)) \o htons(0) \o htons(0) \o htons(0), NoTable)

LEMMA SkipTurns ==
    ASSUME NEW b, NEW o, MaxSubstrings \in Nat
    PROVE  \E turn : /\ AreTurns(turn, "skip", b, 0, FirstTurn(o), MaxSubstrings + 1)
                     /\ mdns_string_skip(b, o) = turn[MaxSubstrings + 1].name
<1>. DEFINE n == MaxSubstrings + 1
            first == FirstTurn(o)
            turn == CHOOSE g : g = [k \in 0..n |-> IF k = 0 THEN first ELSE SkipTurn(b, g[k - 1])]
<1>. HIDE DEF first
<1>1. n \in Nat
  OBVIOUS
<1>2. mdns_string_skip(b, o) = turn[n].name
  BY Zenon DEF mdns_string_skip, Turns, first
<1>3. MadeOfTurns(turn, "skip", b, 0, first, n)
  <2>. HIDE DEF n
  <2>1. \E g : MadeOfTurns(g, "skip", b, 0, first, n)
    BY ONLY <1>1, TurnsExist
  <2>2. \A g : MadeOfTurns(g, "skip", b, 0, first, n)
               <=> g = [k \in 0..n |-> IF k = 0 THEN first ELSE SkipTurn(b, g[k - 1])]
    <3>1. \A t : TurnOf("skip", b, 0, t) = SkipTurn(b, t)
      BY DEF TurnOf
    <3>. QED BY <3>1, Zenon DEF MadeOfTurns
  <2>. QED BY ONLY <2>1, <2>2, Zenon DEF turn
<1>. HIDE DEF turn
<1>4. AreTurns(turn, "skip", b, 0, first, n)
  <2>. HIDE DEF n
  <2>. QED BY ONLY <1>1, <1>3, TurnsUnwind
<1>. QED BY <1>2, <1>4, Zenon DEF first

LEMMA MakeTurns ==
    ASSUME NEW p, NEW labels, Len(labels) \in Nat
    PROVE  \E turn : /\ AreTurns(turn, "make", 0, 0, [p |-> p, rest |-> labels, over |-> ~p.ok], Len(labels))
                     /\ mdns_string_make(p, labels) = Ended(turn[Len(labels)])
<1>. DEFINE n == Len(labels)
            first == [p |-> p, rest |-> labels, over |-> ~p.ok]
            turn == CHOOSE g : g = [k \in 0..n |-> IF k = 0 THEN first ELSE MakeTurn(g[k - 1])]
<1>. HIDE DEF first
<1>1. n \in Nat
  OBVIOUS
<1>2. mdns_string_make(p, labels) = Ended(turn[n])
  BY Zenon DEF mdns_string_make, Turns, first, Ended
<1>3. MadeOfTurns(turn, "make", 0, 0, first, n)
  <2>. HIDE DEF n
  <2>1. \E g : MadeOfTurns(g, "make", 0, 0, first, n)
    BY ONLY <1>1, TurnsExist
  <2>2. \A g : MadeOfTurns(g, "make", 0, 0, first, n)
               <=> g = [k \in 0..n |-> IF k = 0 THEN first ELSE MakeTurn(g[k - 1])]
    <3>1. \A t : TurnOf("make", 0, 0, t) = MakeTurn(t)
      BY DEF TurnOf
    <3>. QED BY <3>1, Zenon DEF MadeOfTurns
  <2>. QED BY ONLY <2>1, <2>2, Zenon DEF turn
<1>. HIDE DEF turn
<1>4. AreTurns(turn, "make", 0, 0, first, n)
  <2>. HIDE DEF n
  <2>. QED BY ONLY <1>1, <1>3, TurnsUnwind
<1>. QED BY <1>2, <1>4, Zenon DEF first

LEMMA AskTurns ==
    ASSUME NEW q, Len(q) \in Nat
    PROVE  \E turn : /\ AreTurns(turn, "ask", 0, 0, [p |-> Asking(q), rest |-> q], Len(q))
                     /\ mdns_multiquery_send(q, 0, FALSE) = turn[Len(q)].p
<1>. DEFINE n == Len(q)
            first == [p |-> Asking(q), rest |-> q]
            turn == CHOOSE g : g = [k \in 0..n |-> IF k = 0 THEN first ELSE [p |-> AddQuestion(g[k - 1].p, Head(g[k - 1].rest), CLASS_IN + FLUSH), rest |-> Tail(g[k - 1].rest)]]
<1>. HIDE DEF first
<1>1. n \in Nat
  OBVIOUS
<1>2. mdns_multiquery_send(q, 0, FALSE) = turn[n].p
  BY Zenon DEF mdns_multiquery_send, AddEach, Turns, first, Asking
<1>3. MadeOfTurns(turn, "ask", 0, 0, first, n)
  <2>. HIDE DEF n
  <2>1. \E g : MadeOfTurns(g, "ask", 0, 0, first, n)
    BY ONLY <1>1, TurnsExist
  <2>2. \A g : MadeOfTurns(g, "ask", 0, 0, first, n)
               <=> g = [k \in 0..n |-> IF k = 0 THEN first ELSE [p |-> AddQuestion(g[k - 1].p, Head(g[k - 1].rest), CLASS_IN + FLUSH), rest |-> Tail(g[k - 1].rest)]]
    <3>1. \A t : TurnOf("ask", 0, 0, t) = [p |-> AddQuestion(t.p, Head(t.rest), CLASS_IN + FLUSH), rest |-> Tail(t.rest)]
      BY DEF TurnOf
    <3>. QED BY <3>1, Zenon DEF MadeOfTurns
  <2>. QED BY ONLY <2>1, <2>2, Zenon DEF turn
<1>. HIDE DEF turn
<1>4. AreTurns(turn, "ask", 0, 0, first, n)
  <2>. HIDE DEF n
  <2>. QED BY ONLY <1>1, <1>3, TurnsUnwind
<1>. QED BY <1>2, <1>4, Zenon DEF first

LEMMA QuestionTurns ==
    ASSUME NEW b, NEW o, NEW n \in Nat, NEW s
    PROVE  \E turn : /\ AreTurns(turn, "question", b, s, Reading(o, <<>>), n)
                     /\ QuestionsFrom(b, o, n, s) = turn[n]
<1>. DEFINE first == Reading(o, <<>>)
            turn == CHOOSE g : g = [k \in 0..n |-> IF k = 0 THEN first ELSE QuestionTurn(b, s, g[k - 1])]
<1>. HIDE DEF first
<1>1. n \in Nat
  OBVIOUS
<1>2. QuestionsFrom(b, o, n, s) = turn[n]
  BY Zenon DEF QuestionsFrom, Turns, first
<1>3. MadeOfTurns(turn, "question", b, s, first, n)
  <2>1. \E g : MadeOfTurns(g, "question", b, s, first, n)
    BY ONLY <1>1, TurnsExist
  <2>2. \A g : MadeOfTurns(g, "question", b, s, first, n)
               <=> g = [k \in 0..n |-> IF k = 0 THEN first ELSE QuestionTurn(b, s, g[k - 1])]
    <3>1. \A t : TurnOf("question", b, s, t) = QuestionTurn(b, s, t)
      BY DEF TurnOf
    <3>. QED BY <3>1, Zenon DEF MadeOfTurns
  <2>. QED BY ONLY <2>1, <2>2, Zenon DEF turn
<1>. HIDE DEF turn
<1>4. AreTurns(turn, "question", b, s, first, n)
  <2>. QED BY ONLY <1>1, <1>3, TurnsUnwind
<1>. QED BY <1>2, <1>4, Zenon DEF first

LEMMA RecordTurns ==
    ASSUME NEW b, NEW o, NEW n \in Nat, NEW s
    PROVE  \E turn : /\ AreTurns(turn, "record", b, s, Reading(o, <<>>), n)
                     /\ mdns_records_parse(b, o, n, s) = turn[n]
<1>. DEFINE first == Reading(o, <<>>)
            turn == CHOOSE g : g = [k \in 0..n |-> IF k = 0 THEN first ELSE RecordTurn(b, s, g[k - 1])]
<1>. HIDE DEF first
<1>1. n \in Nat
  OBVIOUS
<1>2. mdns_records_parse(b, o, n, s) = turn[n]
  BY Zenon DEF mdns_records_parse, Turns, first
<1>3. MadeOfTurns(turn, "record", b, s, first, n)
  <2>1. \E g : MadeOfTurns(g, "record", b, s, first, n)
    BY ONLY <1>1, TurnsExist
  <2>2. \A g : MadeOfTurns(g, "record", b, s, first, n)
               <=> g = [k \in 0..n |-> IF k = 0 THEN first ELSE RecordTurn(b, s, g[k - 1])]
    <3>1. \A t : TurnOf("record", b, s, t) = RecordTurn(b, s, t)
      BY DEF TurnOf
    <3>. QED BY <3>1, Zenon DEF MadeOfTurns
  <2>. QED BY ONLY <2>1, <2>2, Zenon DEF turn
<1>. HIDE DEF turn
<1>4. AreTurns(turn, "record", b, s, first, n)
  <2>. QED BY ONLY <1>1, <1>3, TurnsUnwind
<1>. QED BY <1>2, <1>4, Zenon DEF first

-----------------------------------------------------------------------------

\* A loop that is over stays as it is.
LEMMA OverStays ==
    ASSUME NEW loop \in {"extract", "skip", "make", "question", "record"},
           NEW b, NEW s, NEW first, NEW n \in Nat, NEW turn, AreTurns(turn, loop, b, s, first, n),
           NEW j \in 0..n, turn[j].over
    PROVE  turn[n] = turn[j]
<1>. DEFINE P == {k \in 0..(n - j) : turn[j + k] = turn[j]}
<1>1. 0 \in P
  OBVIOUS
<1>2. ASSUME NEW k \in 0..(n - j - 1), k \in P
      PROVE  k + 1 \in P
  <2>1. j + k + 1 \in 1..n /\ (j + k + 1) - 1 = j + k /\ k + 1 \in 0..(n - j) /\ turn[j + k] = turn[j]
    BY <1>2
  <2>2. turn[j + k + 1] = TurnOf(loop, b, s, turn[j])
    BY <2>1 DEF AreTurns
  <2>. DEFINE t == turn[j]
  <2>3. TurnOf(loop, b, s, t) = t
    <3>1. t.over
      OBVIOUS
    <3>. HIDE DEF t
    <3>. QED BY <3>1, Zenon DEF TurnOf, NameTurn, SkipTurn, MakeTurn, QuestionTurn, RecordTurn
  <2>. QED BY <2>1, <2>2, <2>3
<1>3. n - j \in Nat /\ j + (n - j) = n
  OBVIOUS
<1>4. 0..(n - j) \subseteq P
  <2>. HIDE DEF P
  <2>. QED BY <1>1, <1>2, <1>3, UpTo
<1>. QED BY <1>3, <1>4

-----------------------------------------------------------------------------
(* Names written without a table.                                          *)

Plain(buf) == [buf |-> buf, tab |-> NoTable, ok |-> TRUE]

\* b goes on where c ends.
Extends(b, c) == Len(c) <= Len(b) /\ \A i \in 1..Len(c) : b[i] = c[i]

\* The name is at offset o of b, uncompressed, its labels end at the offsets of pos.
NameAt(pos, b, o, labels, end) ==
    /\ pos \in [0..Len(labels) -> Nat] /\ pos[0] = o
    /\ \A k \in 1..Len(labels) :
         /\ pos[k] = pos[k - 1] + 1 + Len(labels[k]) /\ pos[k] <= Len(b)
         /\ b[pos[k - 1] + 1] = Len(labels[k])
         /\ SubSeq(b, pos[k - 1] + 2, pos[k]) = labels[k]
    /\ end = pos[Len(labels)] + 1 /\ end <= Len(b) /\ b[end] = 0

\* Bytes put behind what is there already, where they fit.
LEMMA PlainPut ==
    ASSUME NEW buf, NEW new, NEW p, p = Plain(buf)
    PROVE  [p EXCEPT !.buf = new] = Plain(new)
<1>. DEFINE Of(c, e) == [buf |-> c, tab |-> NoTable, ok |-> e]
<1>1. PICK e : e = TRUE
  OBVIOUS
<1>2. \A c : Plain(c) = Of(c, e)
  BY <1>1, Zenon DEF Plain
<1>3. [Of(buf, e) EXCEPT !.buf = new] = Of(new, e)
  OBVIOUS
<1>. HIDE DEF Of
<1>. QED BY <1>2, <1>3

\* Without a table no name is found, and each label is written out.
LEMMA NothingFound ==
    ASSUME NEW buf, NEW labels
    PROVE  mdns_string_table_find(Plain(buf), labels) = InvalidPos
BY DEF mdns_string_table_find, Plain, NoTable

LEMMA LabelMade ==
    ASSUME NEW buf \in Seq(Nat), NEW rest \in Seq(Seq(Nat)), rest # <<>>, Capacity \in Nat
    PROVE  LET t == [p |-> Plain(buf), rest |-> rest, over |-> FALSE]
           IN  MakeTurn(t) =
               IF Capacity - Len(buf) <= Len(Head(rest)) + 1
               THEN [p |-> Null, rest |-> rest, over |-> TRUE]
               ELSE [p |-> Plain(Append(buf, Len(Head(rest))) \o Head(rest)), rest |-> Tail(rest),
                     over |-> FALSE]
<1>. DEFINE t == [p |-> Plain(buf), rest |-> rest, over |-> FALSE]
<1>1. t.p = Plain(buf) /\ t.rest = rest /\ t.over = FALSE /\ t.p.buf = buf
  BY DEF Plain
<1>2. mdns_string_table_find(t.p, t.rest) = InvalidPos
  BY <1>1, NothingFound
<1>3. mdns_string_table_add(NoTable, Len(buf)) = NoTable
  BY DEF mdns_string_table_add, NoTable
<1>4. CASE Capacity - Len(buf) <= Len(Head(rest)) + 1
  <2>1. MakeTurn(t) = [t EXCEPT !.over = TRUE, !.p = Null]
    <3>. HIDE DEF t
    <3>. QED BY <1>1, <1>2, <1>4, Zenon DEF MakeTurn
  <2>. QED BY <2>1, <1>4
<1>5. CASE ~(Capacity - Len(buf) <= Len(Head(rest)) + 1)
  <2>1. MakeTurn(t) = [t EXCEPT !.rest = Tail(@), !.p.buf = Append(@, Len(Head(rest))) \o Head(rest),
                                !.p.tab = mdns_string_table_add(@, Len(t.p.buf))]
    <3>. HIDE DEF t
    <3>. QED BY <1>1, <1>2, <1>5, Zenon DEF MakeTurn
  <2>. QED BY <2>1, <1>3, <1>5 DEF Plain
<1>. QED BY <1>4, <1>5

LEMMA ExtendsOn ==
    ASSUME NEW c0 \in Seq(Nat), NEW c1 \in Seq(Nat), NEW c2 \in Seq(Nat), Extends(c1, c0), Extends(c2, c1)
    PROVE  Extends(c2, c0)
<1>1. Len(c0) <= Len(c1) /\ Len(c1) <= Len(c2) /\ Len(c0) \in Nat /\ Len(c1) \in Nat /\ Len(c2) \in Nat
  BY DEF Extends
<1>2. ASSUME NEW i \in 1..Len(c0)
      PROVE  c2[i] = c0[i]
  <2>1. i \in 1..Len(c1)
    BY <1>1
  <2>. QED BY <2>1 DEF Extends
<1>. QED BY <1>1, <1>2 DEF Extends

\* Of packets of which each extends the one before it, the last extends them all.
LEMMA ChainExtends ==
    ASSUME NEW n \in Nat, NEW c, \A k \in 0..n : c[k] \in Seq(Nat),
           \A k \in 1..n : Extends(c[k], c[k - 1])
    PROVE  \A k \in 0..n : Extends(c[n], c[k])
<1>. SUFFICES ASSUME NEW k \in 0..n
              PROVE  Extends(c[n], c[k])
  OBVIOUS
<1>. DEFINE P == {j \in 0..(n - k) : Extends(c[k + j], c[k])}
<1>1. n - k \in Nat /\ k + (n - k) = n /\ c[k] \in Seq(Nat)
  OBVIOUS
<1>2. 0 \in P
  <2>1. Extends(c[k], c[k]) /\ k + 0 = k
    BY <1>1 DEF Extends
  <2>. QED BY <1>1, <2>1
<1>3. ASSUME NEW j \in 0..(n - k - 1), j \in P
      PROVE  j + 1 \in P
  <2>1. /\ k + j \in 0..n /\ k + j + 1 \in 1..n /\ (k + j + 1) - 1 = k + j /\ k + (j + 1) = k + j + 1
        /\ j + 1 \in 0..(n - k) /\ k + j + 1 \in 0..n
    OBVIOUS
  <2>2. Extends(c[k + j], c[k]) /\ c[k + j] \in Seq(Nat) /\ c[k + j + 1] \in Seq(Nat)
    BY <1>3, <2>1
  <2>3. Extends(c[k + j + 1], c[k + j])
    BY <2>1
  <2>4. Extends(c[k + j + 1], c[k])
    BY <1>1, <2>2, <2>3, ExtendsOn
  <2>. QED BY <2>1, <2>4
<1>4. 0..(n - k) \subseteq P
  <2>. HIDE DEF P
  <2>. QED BY <1>1, <1>2, <1>3, UpTo
<1>5. n - k \in 0..(n - k)
  BY ONLY <1>1
<1>6. n - k \in P
  <2>. HIDE DEF P
  <2>. QED BY ONLY <1>4, <1>5
<1>. QED BY ONLY <1>1, <1>6

LEMMA ConcatBehind ==
    ASSUME NEW c \in Seq(Nat), NEW d \in Seq(Nat)
    PROVE  \A i \in 1..Len(d) : (c \o d)[Len(c) + i] = d[i]
OBVIOUS

LEMMA ConcatExtends ==
    ASSUME NEW c \in Seq(Nat), NEW d \in Seq(Nat)
    PROVE  Extends(c \o d, c) /\ c \o d \in Seq(Nat) /\ Len(c \o d) = Len(c) + Len(d)
BY DEF Extends

LEMMA SameSeq ==
    ASSUME NEW c \in Seq(Nat), NEW d \in Seq(Nat), Len(c) = Len(d), \A i \in 1..Len(d) : c[i] = d[i]
    PROVE  c = d
OBVIOUS

LEMMA CutIs ==
    ASSUME NEW b \in Seq(Nat), NEW u \in Nat \ {0}, NEW v \in Nat, u - 1 <= v, v <= Len(b)
    PROVE  LET cut == SubSeq(b, u, v)
           IN  /\ cut \in Seq(Nat) /\ Len(cut) = v - u + 1
               /\ \A i \in 1..(v - u + 1) : cut[i] = b[u + i - 1]
OBVIOUS

LEMMA SameParts ==
    ASSUME NEW c \in Seq(Nat), NEW d \in Seq(Nat), NEW u \in Nat \ {0}, NEW v \in Nat,
           u - 1 <= v, v <= Len(c), v <= Len(d), \A i \in u..v : d[i] = c[i]
    PROVE  SubSeq(d, u, v) = SubSeq(c, u, v)
<1>. DEFINE cc == SubSeq(c, u, v)
            dd == SubSeq(d, u, v)
            n == v - u + 1
<1>1. cc \in Seq(Nat) /\ Len(cc) = n /\ \A i \in 1..n : cc[i] = c[u + i - 1]
  OBVIOUS
<1>2. dd \in Seq(Nat) /\ Len(dd) = n /\ \A i \in 1..n : dd[i] = d[u + i - 1]
  OBVIOUS
<1>3. \A i \in 1..n : u + i - 1 \in u..v
  OBVIOUS
<1>. HIDE DEF cc, dd, n
<1>4. \A i \in 1..n : cc[i] = dd[i]
  BY <1>1, <1>2, <1>3
<1>5. cc = dd
  BY <1>1, <1>2, <1>4
<1>. QED BY <1>5 DEF cc, dd

\* A name that is in a packet stays in it when the packet is continued.
LEMMA NameKept ==
    ASSUME NEW c \in Seq(Nat), NEW d \in Seq(Nat), Extends(d, c), NEW labels \in Seq(Seq(Nat)),
           NEW pos, NEW o, NEW end, NameAt(pos, c, o, labels, end)
    PROVE  NameAt(pos, d, o, labels, end)
<1>. DEFINE n == Len(labels)
            lc == Len(c)
            ld == Len(d)
<1>0. lc \in Nat /\ ld \in Nat /\ n \in Nat
  OBVIOUS
<1>1. lc <= ld /\ \A i \in 1..lc : d[i] = c[i]
  BY DEF Extends
<1>2. pos \in [0..Len(labels) -> Nat] /\ Len(labels) \in Nat
  BY DEF NameAt
<1>3. ASSUME NEW k \in 1..Len(labels)
      PROVE  /\ pos[k] = pos[k - 1] + 1 + Len(labels[k]) /\ pos[k] <= Len(d)
             /\ d[pos[k - 1] + 1] = Len(labels[k])
             /\ SubSeq(d, pos[k - 1] + 2, pos[k]) = labels[k]
  <2>1. /\ pos[k] = pos[k - 1] + 1 + Len(labels[k]) /\ pos[k] <= Len(c)
        /\ c[pos[k - 1] + 1] = Len(labels[k])
        /\ SubSeq(c, pos[k - 1] + 2, pos[k]) = labels[k]
    BY DEF NameAt
  <2>2. pos[k - 1] \in Nat /\ pos[k] \in Nat /\ Len(labels[k]) \in Nat
    <3>1. k - 1 \in 0..Len(labels) /\ k \in 0..Len(labels)
      BY <1>2
    <3>2. labels[k] \in Seq(Nat)
      OBVIOUS
    <3>3. Len(labels[k]) \in Nat
      BY <3>2
    <3>4. pos[k - 1] \in Nat /\ pos[k] \in Nat
      BY ONLY <1>2, <3>1
    <3>. QED BY <3>3, <3>4
  <2>. DEFINE u == pos[k - 1] + 2
              v == pos[k]
            ln == Len(labels[k])
            before == pos[k - 1]
  <2>3. u - 1 \in 1..lc /\ v \in Nat /\ u \in Nat /\ u >= 1 /\ u - 1 <= v /\ v <= lc
    <3>1. v = before + 1 + ln /\ v <= lc /\ before \in Nat /\ ln \in Nat /\ u = before + 2
      BY ONLY <2>1, <2>2
    <3>. HIDE DEF u, v, before, ln, lc
    <3>. QED BY ONLY <3>1, <1>0
  <2>4. SubSeq(d, u, v) = SubSeq(c, u, v)
    <3>. HIDE DEF u, v
    <3>1. u \in Nat \ {0} /\ u - 1 <= v /\ v <= Len(c) /\ v <= Len(d)
      BY <1>0, <1>1, <2>3
    <3>2. \A i \in u..v : i \in 1..lc
      BY <1>0, <2>3
    <3>3. \A i \in u..v : d[i] = c[i]
      BY <1>1, <3>2
    <3>. QED BY <2>3, <3>1, <3>3, SameParts
  <2>5. d[u - 1] = c[u - 1] /\ u - 1 = pos[k - 1] + 1
    <3>1. u - 1 = before + 1
      BY ONLY <2>2
    <3>. HIDE DEF u
    <3>. QED BY ONLY <1>1, <2>3, <3>1
  <2>6. pos[k - 1] + 1 = u - 1
    BY ONLY <2>2
  <2>7. pos[k] <= Len(d)
    BY ONLY <1>0, <1>1, <2>1, <2>2
  <2>. HIDE DEF u, v
  <2>. QED BY ONLY <2>1, <2>4, <2>5, <2>6, <2>7 DEF u, v
<1>4. end = pos[Len(labels)] + 1 /\ end <= Len(c) /\ c[end] = 0 /\ pos[0] = o
  BY DEF NameAt
<1>5. end \in 1..Len(c)
  <2>1. pos[n] \in Nat
    <3>1. n \in 0..n
      BY ONLY <1>0
    <3>. QED BY ONLY <1>2, <3>1
  <2>. QED BY ONLY <2>1, <1>0, <1>1, <1>4
<1>6. end <= Len(d) /\ d[end] = 0
  BY <1>0, <1>1, <1>4, <1>5
<1>. QED BY <1>2, <1>3, <1>4, <1>6 DEF NameAt

LEMMA RestIs ==
    ASSUME NEW S, NEW ss \in Seq(S), NEW k \in 1..Len(ss)
    PROVE  LET rest == SubSeq(ss, k, Len(ss))
           IN  /\ rest \in Seq(S) /\ rest # <<>> /\ Head(rest) = ss[k]
               /\ Tail(rest) = SubSeq(ss, k + 1, Len(ss))
<1>. DEFINE rest == SubSeq(ss, k, Len(ss))
            after == SubSeq(ss, k + 1, Len(ss))
            n == Len(ss)
<1>1. n \in Nat /\ k \in 1..n
  OBVIOUS
<1>2. /\ rest \in Seq(S) /\ Len(rest) = n - k + 1
      /\ \A i \in 1..(n - k + 1) : rest[i] = ss[i + k - 1]
  OBVIOUS
<1>3. /\ after \in Seq(S) /\ Len(after) = n - k
      /\ \A i \in 1..(n - k) : after[i] = ss[i + k]
  OBVIOUS
<1>. HIDE DEF rest, after, n
<1>4. rest # <<>> /\ Head(rest) = ss[k]
  BY <1>1, <1>2
<1>5. Tail(rest) \in Seq(S) /\ Len(Tail(rest)) = n - k /\ \A i \in 1..(n - k) : Tail(rest)[i] = rest[i + 1]
  BY <1>1, <1>2
<1>6. \A i \in 1..(n - k) : Tail(rest)[i] = after[i]
  BY <1>1, <1>2, <1>3, <1>5
<1>7. Tail(rest) = after
  BY <1>3, <1>5, <1>6
<1>. QED BY <1>2, <1>4, <1>7 DEF rest, after, n

\* One more of the elements from the first.
LEMMA BeginOn ==
    ASSUME NEW S, NEW ss \in Seq(S), NEW k \in 1..Len(ss)
    PROVE  Append(SubSeq(ss, 1, k - 1), ss[k]) = SubSeq(ss, 1, k)
<1>. DEFINE u == SubSeq(ss, 1, k - 1)
            v == SubSeq(ss, 1, k)
<1>1. k - 1 \in Nat /\ k \in Nat /\ k <= Len(ss) /\ ss[k] \in S
  OBVIOUS
<1>2. u \in Seq(S) /\ Len(u) = k - 1 /\ \A i \in 1..(k - 1) : u[i] = ss[i]
  BY <1>1
<1>3. v \in Seq(S) /\ Len(v) = k /\ \A i \in 1..k : v[i] = ss[i]
  BY <1>1
<1>. HIDE DEF u, v
<1>4. Append(u, ss[k]) \in Seq(S) /\ Len(Append(u, ss[k])) = k
  BY <1>1, <1>2
<1>5. \A i \in 1..k : Append(u, ss[k])[i] = v[i]
  BY <1>1, <1>2, <1>3
<1>6. Append(u, ss[k]) = v
  BY <1>3, <1>4, <1>5
<1>. QED BY <1>6 DEF u, v

\* The loop of mdns_string_make after k turns, none of which was its last.
Making(t, buf, labels, k) ==
    /\ t = [p |-> Plain(t.p.buf), rest |-> SubSeq(labels, k + 1, Len(labels)), over |-> FALSE]
    /\ t.p.buf \in Seq(Nat) /\ Extends(t.p.buf, buf)

\* One label more is written behind those there are.
LEMMA MakingOn ==
    ASSUME NEW buf \in Seq(Nat), NEW labels \in Seq(Seq(Nat)), NEW k \in 1..Len(labels), NEW t,
           Making(t, buf, labels, k - 1), Capacity \in Nat, ~MakeTurn(t).over
    PROVE  /\ Making(MakeTurn(t), buf, labels, k)
           /\ MakeTurn(t).p.buf = Append(t.p.buf, Len(labels[k])) \o labels[k]
<1>. DEFINE c == t.p.buf
            rest == SubSeq(labels, k, Len(labels))
            d == Append(c, Len(labels[k])) \o labels[k]
<1>1. (k - 1) + 1 = k /\ k \in Nat /\ k <= Len(labels) /\ Len(labels) \in Nat
  OBVIOUS
<1>2. t = [p |-> Plain(c), rest |-> rest, over |-> FALSE] /\ c \in Seq(Nat) /\ Extends(c, buf)
  BY <1>1 DEF Making
<1>3. /\ rest \in Seq(Seq(Nat)) /\ rest # <<>> /\ Head(rest) = labels[k]
      /\ Tail(rest) = SubSeq(labels, k + 1, Len(labels))
  BY RestIs
<1>4. MakeTurn(t) = IF Capacity - Len(c) <= Len(labels[k]) + 1
                    THEN [p |-> Null, rest |-> rest, over |-> TRUE]
                    ELSE [p |-> Plain(d), rest |-> Tail(rest), over |-> FALSE]
  <2>1. \A x, y : (x = [p |-> Plain(y), rest |-> rest, over |-> FALSE] /\ y \in Seq(Nat)) =>
            MakeTurn(x) = IF Capacity - Len(y) <= Len(Head(rest)) + 1
                    THEN [p |-> Null, rest |-> rest, over |-> TRUE]
                    ELSE [p |-> Plain(Append(y, Len(Head(rest))) \o Head(rest)), rest |-> Tail(rest), over |-> FALSE]
    <3>. HIDE DEF rest
    <3>. QED BY <1>3, LabelMade
  <2>. HIDE DEF rest, c
  <2>. QED BY <1>2, <1>3, <2>1 DEF d
<1>5. MakeTurn(t) = [p |-> Plain(d), rest |-> Tail(rest), over |-> FALSE]
  <2>. HIDE DEF c, rest, d
  <2>. QED BY <1>4
<1>6. labels[k] \in Seq(Nat) /\ Len(labels[k]) \in Nat
  OBVIOUS
<1>7. d \in Seq(Nat) /\ Extends(d, c)
  <2>. HIDE DEF c
  <2>1. Append(c, Len(labels[k])) \in Seq(Nat) /\ Extends(Append(c, Len(labels[k])), c)
    BY <1>2, <1>6 DEF Extends
  <2>2. Extends(d, Append(c, Len(labels[k]))) /\ d \in Seq(Nat)
    BY <2>1, <1>6, ConcatExtends
  <2>. QED BY <1>2, <2>1, <2>2, ExtendsOn
<1>8. Extends(d, buf)
  <2>. HIDE DEF c, d
  <2>. QED BY <1>2, <1>7, ExtendsOn
<1>9. MakeTurn(t).p.buf = d
  <2>. HIDE DEF d, rest
  <2>. QED BY <1>5 DEF Plain
<1>. HIDE DEF d, rest
<1>. QED BY <1>3, <1>5, <1>7, <1>8, <1>9 DEF Making, d
\* Of NULL nothing is made.
LEMMA NullMade ==
    ASSUME NEW p, ~p.ok, NEW labels, Len(labels) \in Nat
    PROVE  mdns_string_make(p, labels).ok = p.ok
<1>. DEFINE first == [p |-> p, rest |-> labels, over |-> ~p.ok]
            n == Len(labels)
<1>1. PICK turn : AreTurns(turn, "make", 0, 0, first, n) /\ mdns_string_make(p, labels) = Ended(turn[n])
  BY MakeTurns
<1>2. turn[0] = first /\ first.over
  BY <1>1 DEF AreTurns
<1>3. turn[n] = first
  <2>1. 0 \in 0..n /\ n \in Nat /\ "make" \in {"extract", "skip", "make", "question", "record"}
    OBVIOUS
  <2>. HIDE DEF first, n
  <2>2. turn[0].over
    BY <1>2
  <2>3. turn[n] = turn[0]
    BY ONLY <1>1, <2>1, <2>2, OverStays
  <2>. QED BY <1>2, <2>3
<1>4. Ended(first) = p
  BY <1>2 DEF Ended
<1>. QED BY <1>1, <1>3, <1>4

\* A function on 1..n is a sequence of n.
LEMMA ListOf ==
    ASSUME NEW S, NEW n \in Nat, NEW f \in [1..n -> S]
    PROVE  f \in Seq(S) /\ Len(f) = n
<1>1. f \in Seq(S)
  OBVIOUS
<1>. DEFINE l == Len(f)
<1>2. l \in Nat /\ DOMAIN f = 1..l /\ DOMAIN f = 1..n
  BY <1>1
<1>. HIDE DEF l
<1>3. l <= n
  <2>1. CASE l = 0
    BY <2>1
  <2>2. CASE l # 0
    BY <1>2, <2>2, l \in 1..l
  <2>. QED BY <2>1, <2>2
<1>4. n <= l
  <2>1. CASE n = 0
    BY <2>1, <1>2
  <2>2. CASE n # 0
    BY <1>2, <2>2, n \in 1..n
  <2>. QED BY <2>1, <2>2
<1>5. l = n
  BY ONLY <1>2, <1>3, <1>4, n \in Nat
<1>. QED BY <1>1, <1>5 DEF l

\* A turn that was the last one fails.
LEMMA MakeFails ==
    ASSUME NEW buf \in Seq(Nat), NEW labels \in Seq(Seq(Nat)), Capacity \in Nat, NEW turn,
           AreTurns(turn, "make", 0, 0, [p |-> Plain(buf), rest |-> labels, over |-> FALSE], Len(labels)),
           NEW k \in 0..Len(labels)
    PROVE  (turn[k].over => ~turn[k].p.ok) /\ (~turn[k].over => Making(turn[k], buf, labels, k))
<1>. DEFINE first == [p |-> Plain(buf), rest |-> labels, over |-> FALSE]
            n == Len(labels)
            Good(j) == (turn[j].over => ~turn[j].p.ok) /\ (~turn[j].over => Making(turn[j], buf, labels, j))
            P == {j \in 0..n : Good(j)}
<1>1. n \in Nat /\ turn[0] = first /\ \A j \in 1..n : turn[j] = MakeTurn(turn[j - 1])
  BY DEF AreTurns, TurnOf
<1>2. 0 \in P
  <2>1. SubSeq(labels, 0 + 1, n) = labels
    OBVIOUS
  <2>2. Extends(buf, buf)
    BY DEF Extends
  <2>3. first.p.buf = buf /\ first.over = FALSE
    BY DEF Plain
  <2>4. Making(first, buf, labels, 0)
    BY <2>1, <2>2, <2>3 DEF Making
  <2>. HIDE DEF first
  <2>5. Good(0)
    BY ONLY <1>1, <2>3, <2>4
  <2>. QED BY ONLY <1>1, <2>5
<1>3. ASSUME NEW j \in 0..(n - 1), j \in P
      PROVE  j + 1 \in P
  <2>1. j + 1 \in 1..n /\ j + 1 \in 0..n /\ (j + 1) - 1 = j /\ Good(j)
    <3>. HIDE DEF Good, n
    <3>. QED BY ONLY <1>1, <1>3
  <2>2. turn[j + 1] = MakeTurn(turn[j])
    BY <1>1, <2>1
  <2>3. CASE turn[j].over
    <3>1. turn[j + 1] = turn[j]
      BY <2>2, <2>3, Zenon DEF MakeTurn
    <3>. QED BY <2>1, <2>3, <3>1
  <2>4. CASE ~turn[j].over
    <3>. DEFINE t == turn[j]
                u == MakeTurn(t)
    <3>1. Making(t, buf, labels, (j + 1) - 1)
      BY <2>1, <2>4
    <3>2. CASE ~u.over
      <4>1. Making(u, buf, labels, j + 1)
        <5>. HIDE DEF t
        <5>. QED BY <2>1, <3>1, <3>2, MakingOn
      <4>. HIDE DEF u
      <4>. QED BY <2>1, <2>2, <3>2, <4>1 DEF u
    <3>3. CASE u.over
      <4>1. u = [p |-> Null, rest |-> t.rest, over |-> TRUE]
        <5>. DEFINE c == t.p.buf
                    rest == SubSeq(labels, j + 1, n)
        <5>1. t = [p |-> Plain(c), rest |-> rest, over |-> FALSE] /\ c \in Seq(Nat) /\ t.rest = rest
          <6>1. ((j + 1) - 1) + 1 = j + 1
            BY <1>1
          <6>. HIDE DEF t
          <6>. QED BY <3>1, <6>1 DEF Making
        <5>2. rest \in Seq(Seq(Nat)) /\ rest # <<>>
          BY <2>1, RestIs
        <5>. HIDE DEF c, rest, t
        <5>3. MakeTurn(t) = IF Capacity - Len(c) <= Len(Head(rest)) + 1
                            THEN [p |-> Null, rest |-> rest, over |-> TRUE]
                            ELSE [p |-> Plain(Append(c, Len(Head(rest))) \o Head(rest)), rest |-> Tail(rest),
                                  over |-> FALSE]
          BY <5>1, <5>2, LabelMade
        <5>. QED BY <3>3, <5>1, <5>3
      <4>2. u.p.ok = FALSE
        BY <4>1 DEF Null
      <4>. HIDE DEF u
      <4>. QED BY <2>1, <2>2, <3>3, <4>2 DEF u
    <3>. QED BY <3>2, <3>3
  <2>. QED BY <2>3, <2>4
<1>4. 0..n \subseteq P
  <2>. HIDE DEF P, n
  <2>. QED BY <1>1, <1>2, <1>3, UpTo
<1>. QED BY <1>4
\* What mdns_string_make writes, if it fits.
LEMMA NameMade ==
    ASSUME NEW buf \in Seq(Nat), NEW labels \in Seq(Seq(Nat)), Capacity \in Nat,
           NEW r, r = mdns_string_make(Plain(buf), labels), r.ok
    PROVE  /\ r = Plain(r.buf) /\ r.buf \in Seq(Nat) /\ Extends(r.buf, buf) /\ Len(r.buf) <= Capacity
           /\ \E pos : NameAt(pos, r.buf, Len(buf), labels, Len(r.buf))
<1>. DEFINE first == [p |-> Plain(buf), rest |-> labels, over |-> FALSE]
            n == Len(labels)
<1>1. n \in Nat
  OBVIOUS
<1>2. PICK turn : AreTurns(turn, "make", 0, 0, first, n) /\ r = Ended(turn[n])
  <2>1. first = [p |-> Plain(buf), rest |-> labels, over |-> ~Plain(buf).ok]
    BY DEF Plain
  <2>2. \E turn : /\ AreTurns(turn, "make", 0, 0, [p |-> Plain(buf), rest |-> labels, over |-> ~Plain(buf).ok], n)
                  /\ mdns_string_make(Plain(buf), labels) = Ended(turn[n])
    BY ONLY <1>1, MakeTurns
  <2>. HIDE DEF first, n
  <2>. QED BY <2>1, <2>2
<1>3. /\ turn[0] = first /\ \A k \in 1..n : turn[k] = MakeTurn(turn[k - 1])
  BY <1>2 DEF AreTurns, TurnOf
<1>4. ASSUME NEW k \in 0..n
      PROVE  (turn[k].over => ~turn[k].p.ok) /\ (~turn[k].over => Making(turn[k], buf, labels, k))
  BY <1>2, MakeFails
<1>5. ASSUME NEW k \in 0..n
      PROVE  ~turn[k].over /\ Making(turn[k], buf, labels, k)
  <2>1. SUFFICES ASSUME turn[k].over
                 PROVE  FALSE
    BY <1>4
  <2>2. turn[n] = turn[k]
    <3>1. "make" \in {"extract", "skip", "make", "question", "record"}
      OBVIOUS
    <3>. HIDE DEF first, n
    <3>. QED BY ONLY <1>1, <1>2, <2>1, <3>1, k \in 0..n, OverStays
  <2>3. r = turn[k].p
    <3>. HIDE DEF n, first
    <3>. QED BY <1>2, <2>1, <2>2 DEF Ended
  <2>. QED BY <1>4, <2>1, <2>3
<1>. DEFINE c == [k \in 0..n |-> turn[k].p.buf]
            pos == [k \in 0..n |-> Len(c[k])]
<1>6. ASSUME NEW k \in 0..n
      PROVE  c[k] \in Seq(Nat) /\ Extends(c[k], buf)
  BY <1>5 DEF Making
<1>7. c[0] = buf
  BY <1>1, <1>3 DEF Plain
<1>8. ASSUME NEW k \in 1..n
      PROVE  c[k] = Append(c[k - 1], Len(labels[k])) \o labels[k]
  <2>1. k \in 0..n /\ k - 1 \in 0..n /\ k \in 1..Len(labels)
    BY <1>1
  <2>2. Making(turn[k - 1], buf, labels, k - 1) /\ ~turn[k].over /\ turn[k] = MakeTurn(turn[k - 1])
    BY <1>3, <1>5, <2>1
  <2>3. MakeTurn(turn[k - 1]).p.buf = Append(turn[k - 1].p.buf, Len(labels[k])) \o labels[k]
    BY <2>1, <2>2, MakingOn
  <2>. QED BY <2>1, <2>2, <2>3
<1>9. turn[n].over = FALSE /\ turn[n].p = Plain(c[n])
  <2>1. n \in 0..n
    BY <1>1
  <2>2. turn[n] = [p |-> Plain(turn[n].p.buf), rest |-> SubSeq(labels, n + 1, Len(labels)), over |-> FALSE]
    BY <1>5, <2>1, Zenon DEF Making
  <2>3. c[n] = turn[n].p.buf
    BY <2>1
  <2>. HIDE DEF c, n
  <2>4. turn[n].over = FALSE /\ turn[n].p = Plain(turn[n].p.buf)
    BY ONLY <2>2
  <2>. QED BY <2>3, <2>4
<1>10. Len(c[n]) < Capacity /\ r = Plain(Append(c[n], 0))
  <2>1. n \in 0..n
    BY <1>1
  <2>. HIDE DEF n, c, first
  <2>2. Len(c[n]) \in Nat
    BY <1>6, <2>1
  <2>3. CASE Len(c[n]) >= Capacity
    <3>1. r = Null
      BY <1>2, <1>9, <2>3 DEF Ended, Plain
    <3>. QED BY <3>1 DEF Null
  <2>4. CASE ~(Len(c[n]) >= Capacity)
    <3>1. r = [turn[n].p EXCEPT !.buf = Append(@, 0)]
      <4>1. turn[n].p.buf = c[n]
        BY <1>9 DEF Plain
      <4>. QED BY ONLY <1>2, <1>9, <2>4, <4>1, Zenon DEF Ended
    <3>2. turn[n].p.buf = c[n]
      BY <1>9 DEF Plain
    <3>3. r = Plain(Append(c[n], 0))
      <4>1. [turn[n].p EXCEPT !.buf = Append(turn[n].p.buf, 0)] = Plain(Append(turn[n].p.buf, 0))
        <5>. DEFINE pp == turn[n].p
                    new == Append(turn[n].p.buf, 0)
        <5>1. pp = Plain(c[n])
          BY <1>9
        <5>. HIDE DEF pp, new
        <5>2. [pp EXCEPT !.buf = new] = Plain(new)
          BY ONLY <5>1, PlainPut
        <5>. QED BY ONLY <5>2, Zenon DEF pp, new
      <4>. QED BY ONLY <4>1, <3>1, <3>2, Zenon
    <3>4. Len(c[n]) < Capacity
      BY ONLY <2>2, <2>4, Capacity \in Nat
    <3>. QED BY <3>3, <3>4
  <2>. QED BY <2>3, <2>4
<1>. DEFINE b == Append(c[n], 0)
<1>11. b \in Seq(Nat) /\ Len(b) = Len(c[n]) + 1 /\ Extends(b, c[n]) /\ b[Len(b)] = 0
  <2>1. n \in 0..n
    BY <1>1
  <2>. HIDE DEF n, c
  <2>. QED BY <1>6, <2>1 DEF Extends
<1>12. r = Plain(b) /\ r.buf = b /\ Len(b) <= Capacity /\ Extends(b, buf)
  <2>1. n \in 0..n
    BY <1>1
  <2>2. c[n] \in Seq(Nat) /\ Extends(c[n], buf)
    BY <1>6, <2>1
  <2>. HIDE DEF n, c
  <2>3. Len(b) <= Capacity
    <3>1. Len(c[n]) \in Nat
      BY <2>2
    <3>. QED BY <1>10, <1>11, <3>1
  <2>4. r = Plain(b)
    BY <1>10
  <2>. HIDE DEF b
  <2>5. r.buf = b
    BY ONLY <2>4 DEF Plain
  <2>6. Extends(b, buf)
    BY <1>11, <2>2, ExtendsOn
  <2>. QED BY <2>3, <2>4, <2>5, <2>6
<1>13. ASSUME NEW k \in 0..n
       PROVE  Extends(b, c[k])
  <2>1. ASSUME NEW j \in 1..n
        PROVE  Extends(c[j], c[j - 1])
    <3>1. j \in 0..n /\ j - 1 \in 0..n /\ labels[j] \in Seq(Nat)
      BY <1>1
    <3>2. c[j] \in Seq(Nat) /\ c[j - 1] \in Seq(Nat)
      <4>. HIDE DEF c, n
      <4>. QED BY <1>6, <3>1
    <3>3. c[j] = Append(c[j - 1], Len(labels[j])) \o labels[j]
      BY <1>8
    <3>. HIDE DEF c
    <3>. DEFINE d == Append(c[j - 1], Len(labels[j]))
    <3>4. d \in Seq(Nat) /\ Extends(d, c[j - 1])
      BY <3>1, <3>2 DEF Extends
    <3>. HIDE DEF d
    <3>5. Extends(c[j], d)
      BY <3>1, <3>3, <3>4, ConcatExtends DEF d
    <3>. QED BY <3>2, <3>4, <3>5, ExtendsOn
  <2>2. Extends(c[n], c[k])
    <3>. HIDE DEF c, n
    <3>. QED BY <1>1, <1>6, <2>1, ChainExtends
  <2>3. n \in 0..n
    BY <1>1
  <2>. HIDE DEF b, c, n
  <2>4. c[n] \in Seq(Nat) /\ c[k] \in Seq(Nat)
    BY <1>6, <2>3
  <2>. QED BY <1>11, <2>2, <2>4, ExtendsOn
<1>14. ASSUME NEW k \in 1..n
       PROVE  /\ pos[k] = pos[k - 1] + 1 + Len(labels[k]) /\ pos[k] <= Len(b)
              /\ b[pos[k - 1] + 1] = Len(labels[k])
              /\ SubSeq(b, pos[k - 1] + 2, pos[k]) = labels[k]
  <2>. DEFINE w == c[k - 1]
              x == labels[k]
              y == c[k]
  <2>1. k \in 0..n /\ k - 1 \in 0..n /\ x \in Seq(Nat)
    BY <1>1
  <2>2. w \in Seq(Nat) /\ y \in Seq(Nat) /\ y = Append(w, Len(x)) \o x /\ Extends(b, y)
    BY <1>6, <1>8, <1>13, <2>1
  <2>3. pos[k - 1] = Len(w) /\ pos[k] = Len(y)
    BY <2>1
  <2>. HIDE DEF w, x, y, b, pos
  <2>4. Len(y) = Len(w) + 1 + Len(x) /\ Len(w) \in Nat /\ Len(x) \in Nat
    BY <2>1, <2>2
  <2>5. y[Len(w) + 1] = Len(x) /\ \A i \in 1..Len(x) : y[Len(w) + 1 + i] = x[i]
    <3>1. Append(w, Len(x)) \in Seq(Nat) /\ Len(Append(w, Len(x))) = Len(w) + 1 /\ Append(w, Len(x))[Len(w) + 1] = Len(x)
      BY <2>1, <2>2, <2>4
    <3>. DEFINE ap == Append(w, Len(x))
    <3>. HIDE DEF ap
    <3>2. ap \in Seq(Nat) /\ Len(ap) = Len(w) + 1 /\ ap[Len(w) + 1] = Len(x) /\ y = ap \o x
      BY <2>2, <3>1 DEF ap
    <3>3. x \in Seq(Nat) /\ Len(w) + 1 \in 1..Len(ap)
      BY <2>1, <2>4, <3>2
    <3>4. y[Len(w) + 1] = ap[Len(w) + 1]
      BY ONLY <3>2, <3>3
    <3>5. \A i \in 1..Len(x) : y[Len(ap) + i] = x[i]
      BY ONLY <3>2, <3>3, ConcatBehind
    <3>. QED BY ONLY <3>2, <3>4, <3>5
  <2>6. Len(y) <= Len(b) /\ \A i \in 1..Len(y) : b[i] = y[i]
    BY <2>2 DEF Extends
  <2>7. b[Len(w) + 1] = Len(x)
    BY <2>4, <2>5, <2>6
  <2>. DEFINE cut == SubSeq(b, Len(w) + 2, Len(y))
  <2>8. cut = x
    <3>1. cut \in Seq(Nat) /\ Len(cut) = Len(x) /\ \A i \in 1..Len(x) : cut[i] = b[Len(w) + 1 + i]
      <4>. DEFINE u == Len(w) + 2
                  v == Len(y)
      <4>1. b \in Seq(Nat) /\ u \in Nat \ {0} /\ v \in Nat /\ u - 1 <= v /\ v <= Len(b) /\ v - u + 1 = Len(x)
        <5>. DEFINE lw == Len(w)
                    ly == Len(y)
                    lx == Len(x)
        <5>1. lw \in Nat /\ lx \in Nat /\ ly = lw + 1 + lx /\ ly <= Len(b)
          BY ONLY <2>4, <2>6
        <5>. HIDE DEF lw, lx, ly
        <5>2. lw + 2 \in Nat \ {0} /\ ly \in Nat /\ lw + 2 - 1 <= ly /\ ly - (lw + 2) + 1 = lx
          BY ONLY <5>1
        <5>. QED BY ONLY <1>11, <5>1, <5>2 DEF lw, lx, ly
      <4>2. \A i \in 1..Len(x) : u + i - 1 = Len(w) + 1 + i
        BY ONLY <2>4
      <4>. HIDE DEF u, v
      <4>3. cut = SubSeq(b, u, v)
        BY DEF u, v
      <4>. HIDE DEF cut
      <4>4. cut \in Seq(Nat) /\ Len(cut) = v - u + 1 /\ \A i \in 1..(v - u + 1) : cut[i] = b[u + i - 1]
        BY ONLY <4>1, <4>3, CutIs
      <4>. QED BY ONLY <4>1, <4>2, <4>4
    <3>2. \A i \in 1..Len(x) : Len(w) + 1 + i \in 1..Len(y)
      BY <2>4
    <3>3. \A i \in 1..Len(x) : cut[i] = x[i]
      BY <2>5, <2>6, <3>1, <3>2
    <3>. HIDE DEF cut
    <3>4. x \in Seq(Nat)
      BY <2>1
    <3>. QED BY ONLY <3>1, <3>3, <3>4, SameSeq
  <2>. HIDE DEF cut
  <2>. QED BY <2>3, <2>4, <2>6, <2>7, <2>8 DEF x, cut
<1>15. NameAt(pos, b, Len(buf), labels, Len(b))
  <2>1. pos \in [0..n -> Nat]
    <3>. HIDE DEF n
    <3>1. \A k \in 0..n : Len(c[k]) \in Nat
      <4>. HIDE DEF c
      <4>. QED BY <1>6
    <3>. HIDE DEF c
    <3>. QED BY <3>1
  <2>2. pos[0] = Len(buf) /\ Len(b) = pos[n] + 1
    <3>1. 0 \in 0..n /\ n \in 0..n
      BY <1>1
    <3>. HIDE DEF n, c, b
    <3>. QED BY <1>7, <1>11, <3>1
  <2>. HIDE DEF pos, b
  <2>3. Len(b) <= Len(b)
    BY <1>11
  <2>. QED BY ONLY <1>11, <1>14, <2>1, <2>2, <2>3, Zenon DEF NameAt, n
<1>. HIDE DEF pos, b
<1>. QED BY <1>11, <1>12, <1>15
-----------------------------------------------------------------------------
(* Queries.                                                                *)

Labels == Seq(Seq(Nat))
Query == [type : Nat, name : Labels]

\* The question is at offset o of b, and ends at offset `end`.
QuestionAt(b, o, query, end) ==
    /\ end \in Nat /\ end <= Len(b)
    /\ \E pos : NameAt(pos, b, o, query.name, end - 4)
    /\ ntohs(b, end - 4) = query.type /\ ntohs(b, end - 2) = CLASS_IN + FLUSH

\* A name ends in the packet it is in.
LEMMA NameEnds ==
    ASSUME NEW b \in Seq(Nat), NEW labels \in Labels, NEW pos, NEW o, NEW end, NameAt(pos, b, o, labels, end)
    PROVE  o \in Nat /\ end \in Nat /\ end <= Len(b) /\ end > 0
<1>1. /\ pos \in [0..Len(labels) -> Nat] /\ pos[0] = o /\ end = pos[Len(labels)] + 1 /\ end <= Len(b)
  BY Zenon DEF NameAt
<1>. DEFINE n == Len(labels)
<1>2. 0 \in 0..n /\ n \in 0..n
  BY DEF Labels
<1>3. pos[0] \in Nat /\ pos[n] \in Nat
  BY ONLY <1>1, <1>2
<1>. HIDE DEF n
<1>. QED BY <1>1, <1>3 DEF n

\* What is written as two bytes, or twice two, is read as the number it was.
LEMMA WordBack ==
    ASSUME NEW w \in Nat
    PROVE  /\ htons(w) \in Seq(Nat) /\ Len(htons(w)) = 2
           /\ htons(w)[1] * 256 + htons(w)[2] = w
BY DEF htons

\* b is c and two numbers behind it.
TwoWordsIn(b, c, v, w) ==
    /\ b \in Seq(Nat) /\ Len(b) = Len(c) + 4 /\ Extends(b, c)
    /\ ntohs(b, Len(c)) = v /\ ntohs(b, Len(c) + 2) = w

LEMMA TwoWordsBack ==
    ASSUME NEW c \in Seq(Nat), NEW v \in Nat, NEW w \in Nat
    PROVE  TwoWordsIn(c \o (htons(v) \o htons(w)), c, v, w)
<1>. DEFINE x == htons(v)
            y == htons(w)
            z == x \o y
            b == c \o z
<1>1. x \in Seq(Nat) /\ Len(x) = 2 /\ x[1] * 256 + x[2] = v
  BY WordBack
<1>2. y \in Seq(Nat) /\ Len(y) = 2 /\ y[1] * 256 + y[2] = w
  BY WordBack
<1>. HIDE DEF x, y
<1>3. z \in Seq(Nat) /\ Len(z) = 4 /\ z[1] = x[1] /\ z[2] = x[2] /\ z[3] = y[1] /\ z[4] = y[2]
  <2>1. z \in Seq(Nat) /\ Len(z) = 2 + 2 /\ Extends(z, x)
    BY <1>1, <1>2, ConcatExtends
  <2>2. \A i \in 1..2 : z[2 + i] = y[i]
    <3>1. \A i \in 1..Len(y) : z[Len(x) + i] = y[i]
      BY <1>1, <1>2, ConcatBehind
    <3>. HIDE DEF z
    <3>. QED BY ONLY <1>1, <1>2, <3>1
  <2>. HIDE DEF z
  <2>3. z[1] = x[1] /\ z[2] = x[2]
    BY <1>1, <2>1 DEF Extends
  <2>4. z[2 + 1] = y[1] /\ z[2 + 2] = y[2]
    BY ONLY <2>2, 1 \in 1..2, 2 \in 1..2
  <2>. QED BY <2>1, <2>3, <2>4
<1>. HIDE DEF z
<1>4. b \in Seq(Nat) /\ Len(b) = Len(c) + 4 /\ Extends(b, c)
  BY <1>3, ConcatExtends
<1>5. \A i \in 1..4 : b[Len(c) + i] = z[i]
  BY <1>3, ConcatBehind
<1>6. b[Len(c) + 1] = x[1] /\ b[Len(c) + 2] = x[2] /\ b[Len(c) + 3] = y[1] /\ b[Len(c) + 4] = y[2]
  BY ONLY <1>3, <1>5, 1 \in 1..4, 2 \in 1..4, 3 \in 1..4, 4 \in 1..4
<1>. HIDE DEF b
<1>7. Len(c) \in Nat
  OBVIOUS
<1>8. (Len(c) + 2) + 1 = Len(c) + 3 /\ (Len(c) + 2) + 2 = Len(c) + 4
  BY <1>7
<1>9. ntohs(b, Len(c)) = v /\ ntohs(b, Len(c) + 2) = w
  BY ONLY <1>1, <1>2, <1>6, <1>8 DEF ntohs
<1>10. TwoWordsIn(b, c, v, w)
  BY <1>4, <1>9 DEF TwoWordsIn
<1>. QED BY <1>10 DEF b, z, x, y

\* A question that is in a packet stays in it when the packet is continued.
LEMMA QuestionKept ==
    ASSUME NEW c \in Seq(Nat), NEW d \in Seq(Nat), Extends(d, c), NEW query \in Query,
           NEW o, NEW end, QuestionAt(c, o, query, end)
    PROVE  QuestionAt(d, o, query, end)
<1>1. PICK pos : NameAt(pos, c, o, query.name, end - 4)
  BY DEF QuestionAt
<1>2. query.name \in Labels
  BY DEF Query
<1>3. NameAt(pos, d, o, query.name, end - 4)
  BY <1>1, <1>2, NameKept DEF Labels
<1>4. end - 4 \in Nat /\ end \in Nat /\ end <= Len(c)
  BY <1>1, <1>2, NameEnds DEF QuestionAt
<1>5. ntohs(d, end - 4) = ntohs(c, end - 4) /\ ntohs(d, end - 2) = ntohs(c, end - 2)
  <2>1. \A i \in {(end - 4) + 1, (end - 4) + 2, (end - 2) + 1, (end - 2) + 2} : i \in 1..Len(c)
    BY <1>4
  <2>2. \A i \in 1..Len(c) : d[i] = c[i]
    BY DEF Extends
  <2>. QED BY ONLY <2>1, <2>2 DEF ntohs
<1>6. end <= Len(d)
  <2>1. Len(c) <= Len(d) /\ Len(c) \in Nat /\ Len(d) \in Nat
    BY DEF Extends
  <2>. QED BY ONLY <1>4, <2>1
<1>. QED BY <1>3, <1>4, <1>5, <1>6 DEF QuestionAt

\* What AddQuestion writes, if it fits.
LEMMA QuestionMade ==
    ASSUME NEW buf \in Seq(Nat), NEW query \in Query, Capacity \in Nat,
           NEW r, r = AddQuestion(Plain(buf), query, CLASS_IN + FLUSH), r.ok
    PROVE  /\ r = Plain(r.buf) /\ r.buf \in Seq(Nat) /\ Extends(r.buf, buf) /\ Len(r.buf) <= Capacity
           /\ QuestionAt(r.buf, Len(buf), query, Len(r.buf))
<1>. DEFINE named == mdns_string_make(Plain(buf), query.name)
            class == CLASS_IN + FLUSH
            bytes == htons(query.type) \o htons(class)
<1>1. query.name \in Seq(Seq(Nat)) /\ query.type \in Nat
  BY DEF Query, Labels
<1>2. class \in Nat
  BY DEF CLASS_IN, FLUSH
<1>. HIDE DEF named, class
<1>3. r = IF ~named.ok \/ Capacity - Len(named.buf) < Len(bytes) THEN Null
          ELSE [named EXCEPT !.buf = named.buf \o bytes]
  BY Zenon DEF AddQuestion, Put, named, class
<1>4. named.ok /\ ~(Capacity - Len(named.buf) < Len(bytes))
  <2>1. ~Null.ok
    BY DEF Null
  <2>. HIDE DEF bytes
  <2>. QED BY ONLY <1>3, <2>1, r.ok
<1>5. /\ named = Plain(named.buf) /\ named.buf \in Seq(Nat) /\ Extends(named.buf, buf)
      /\ \E pos : NameAt(pos, named.buf, Len(buf), query.name, Len(named.buf))
  BY <1>1, <1>4, NameMade DEF named
<1>. DEFINE c == named.buf
            b == c \o bytes
<1>6. r = Plain(b)
  <2>1. r = [named EXCEPT !.buf = b]
    BY <1>3, <1>4
  <2>. HIDE DEF b
  <2>2. [named EXCEPT !.buf = b] = Plain(b)
    BY <1>5, PlainPut
  <2>. QED BY <2>1, <2>2
<1>. HIDE DEF c
<1>7. /\ b \in Seq(Nat) /\ Len(b) = Len(c) + 4 /\ Extends(b, c)
      /\ ntohs(b, Len(c)) = query.type /\ ntohs(b, Len(c) + 2) = class
  <2>1. c \in Seq(Nat)
    BY <1>5 DEF c
  <2>. HIDE DEF c
  <2>. DEFINE v == query.type
  <2>2. v \in Nat
    BY <1>1
  <2>3. b = c \o (htons(v) \o htons(class))
    OBVIOUS
  <2>. HIDE DEF v, b
  <2>4. TwoWordsIn(c \o (htons(v) \o htons(class)), c, v, class)
    BY ONLY <1>2, <2>1, <2>2, TwoWordsBack
  <2>. QED BY ONLY <2>3, <2>4, Zenon DEF v, TwoWordsIn
<1>8. Len(bytes) = 4
  <2>1. htons(query.type) \in Seq(Nat) /\ Len(htons(query.type)) = 2 /\ htons(class) \in Seq(Nat) /\ Len(htons(class)) = 2
    BY <1>1, <1>2, WordBack
  <2>. DEFINE x == htons(query.type)
              y == htons(class)
  <2>. HIDE DEF x, y
  <2>2. Len(x \o y) = Len(x) + Len(y)
    BY ONLY <2>1, ConcatExtends DEF x, y
  <2>3. bytes = x \o y /\ Len(x) = 2 /\ Len(y) = 2
    BY <2>1 DEF x, y
  <2>. HIDE DEF bytes
  <2>. QED BY ONLY <2>2, <2>3
<1>. HIDE DEF b, bytes
<1>9. c \in Seq(Nat) /\ Extends(c, buf) /\ Len(c) \in Nat
  BY <1>5 DEF c
<1>10. Extends(b, buf)
  BY <1>7, <1>9, ExtendsOn
<1>11. Len(b) <= Capacity
  <2>1. ~(Capacity - Len(c) < 4)
    BY <1>4, <1>8 DEF c
  <2>. QED BY ONLY <1>7, <1>9, <2>1, Capacity \in Nat
<1>12. QuestionAt(b, Len(buf), query, Len(b))
  <2>1. PICK pos : NameAt(pos, c, Len(buf), query.name, Len(c))
    BY <1>5 DEF c
  <2>2. NameAt(pos, b, Len(buf), query.name, Len(c))
    BY <1>1, <1>7, <1>9, <2>1, NameKept
  <2>3. Len(b) - 4 = Len(c) /\ Len(b) - 2 = Len(c) + 2 /\ Len(b) \in Nat /\ Len(b) <= Len(b)
    BY ONLY <1>7, <1>9
  <2>. QED BY ONLY <1>7, <2>2, <2>3, Zenon DEF QuestionAt, class
<1>13. r.buf = b
  BY <1>6 DEF Plain
<1>. QED BY <1>6, <1>7, <1>10, <1>11, <1>12, <1>13
\* b is c and a number behind it.
WordIn(b, c, w) == b \in Seq(Nat) /\ Len(b) = Len(c) + 2 /\ Extends(b, c) /\ ntohs(b, Len(c)) = w

\* A word behind a packet, and behind what follows it.
LEMMA WordBehind ==
    ASSUME NEW c \in Seq(Nat), NEW w \in Nat
    PROVE  WordIn(c \o htons(w), c, w)
<1>. DEFINE x == htons(w)
            b == c \o x
<1>1. x \in Seq(Nat) /\ Len(x) = 2 /\ x[1] * 256 + x[2] = w
  BY WordBack
<1>. HIDE DEF x
<1>2. b \in Seq(Nat) /\ Len(b) = Len(c) + 2 /\ Extends(b, c)
  BY <1>1, ConcatExtends
<1>3. \A i \in 1..Len(x) : b[Len(c) + i] = x[i]
  BY <1>1, ConcatBehind
<1>. HIDE DEF b
<1>4. b[Len(c) + 1] = x[1] /\ b[Len(c) + 2] = x[2]
  BY ONLY <1>1, <1>3
<1>5. WordIn(b, c, w)
  BY ONLY <1>1, <1>2, <1>4 DEF WordIn, ntohs
<1>. QED BY <1>5 DEF b, x

LEMMA WordKept ==
    ASSUME NEW c \in Seq(Nat), NEW d \in Seq(Nat), Extends(d, c)
    PROVE  \A o \in Nat : o + 2 <= Len(c) => ntohs(d, o) = ntohs(c, o)
<1>. SUFFICES ASSUME NEW o \in Nat, o + 2 <= Len(c)
              PROVE  ntohs(d, o) = ntohs(c, o)
  OBVIOUS
<1>1. o + 1 \in 1..Len(c) /\ o + 2 \in 1..Len(c)
  OBVIOUS
<1>. QED BY <1>1 DEF Extends, ntohs

\* The head of a packet that asks n questions.
HeadIs(b, n) ==
    ntohs(b, 2) = 0 /\ ntohs(b, 4) = n /\ ntohs(b, 6) = 0 /\ ntohs(b, 8) = 0 /\ ntohs(b, 10) = 0

\* The number of questions in the packet's head stays what it is.
LEMMA HeadKept ==
    ASSUME NEW c \in Seq(Nat), NEW d \in Seq(Nat), Extends(d, c), 12 <= Len(c), NEW n, HeadIs(c, n)
    PROVE  HeadIs(d, n)
<1>1. \A o \in {2, 4, 6, 8, 10} : o \in Nat /\ o + 2 <= Len(c)
  OBVIOUS
<1>2. \A o \in {2, 4, 6, 8, 10} : ntohs(d, o) = ntohs(c, o)
  BY <1>1, WordKept
<1>. QED BY ONLY <1>2, HeadIs(c, n) DEF HeadIs

\* The packet a query begins with: its head, with the number of questions.
LEMMA AskingIs ==
    ASSUME NEW q, Len(q) \in Nat
    PROVE  /\ Asking(q) = Plain(Asking(q).buf) /\ Asking(q).buf \in Seq(Nat)
           /\ Len(Asking(q).buf) = 12 /\ HeadIs(Asking(q).buf, Len(q))
<1>. DEFINE n == Len(q)
            h1 == htons(0)
            h2 == h1 \o htons(0)
            h3 == h2 \o htons(n)
            h4 == h3 \o htons(0)
            h5 == h4 \o htons(0)
            h6 == h5 \o htons(0)
<1>1. Asking(q) = Plain(h6)
  BY Zenon DEF Asking, Start, Plain
<1>2. h1 \in Seq(Nat) /\ Len(h1) = 2
  BY WordBack
<1>3. n \in Nat /\ 0 \in Nat
  OBVIOUS
<1>. HIDE DEF n, h1
<1>4. WordIn(h2, h1, 0)
  BY <1>2, <1>3, WordBehind
<1>. HIDE DEF h2
<1>5. WordIn(h3, h2, n)
  BY <1>3, <1>4, WordBehind DEF WordIn
<1>. HIDE DEF h3
<1>6. WordIn(h4, h3, 0)
  BY <1>3, <1>5, WordBehind DEF WordIn
<1>. HIDE DEF h4
<1>7. WordIn(h5, h4, 0)
  BY <1>3, <1>6, WordBehind DEF WordIn
<1>. HIDE DEF h5
<1>8. WordIn(h6, h5, 0)
  BY <1>3, <1>7, WordBehind DEF WordIn
<1>. HIDE DEF h6
<1>9. /\ h2 \in Seq(Nat) /\ h3 \in Seq(Nat) /\ h4 \in Seq(Nat) /\ h5 \in Seq(Nat) /\ h6 \in Seq(Nat)
      /\ Len(h2) = 4 /\ Len(h3) = 6 /\ Len(h4) = 8 /\ Len(h5) = 10 /\ Len(h6) = 12
  BY ONLY <1>2, <1>4, <1>5, <1>6, <1>7, <1>8 DEF WordIn
<1>10. /\ Extends(h6, h5) /\ Extends(h5, h4) /\ Extends(h4, h3) /\ Extends(h3, h2)
       /\ ntohs(h2, 2) = 0 /\ ntohs(h3, 4) = n /\ ntohs(h4, 6) = 0 /\ ntohs(h5, 8) = 0 /\ ntohs(h6, 10) = 0
  BY ONLY <1>2, <1>9, <1>4, <1>5, <1>6, <1>7, <1>8 DEF WordIn
<1>11. \A o \in Nat : /\ o + 2 <= 4 => ntohs(h3, o) = ntohs(h2, o)
                      /\ o + 2 <= 6 => ntohs(h4, o) = ntohs(h3, o)
                      /\ o + 2 <= 8 => ntohs(h5, o) = ntohs(h4, o)
                      /\ o + 2 <= 10 => ntohs(h6, o) = ntohs(h5, o)
  <2>1. \A o \in Nat : o + 2 <= 4 => ntohs(h3, o) = ntohs(h2, o)
    BY <1>9, <1>10, WordKept
  <2>2. \A o \in Nat : o + 2 <= 6 => ntohs(h4, o) = ntohs(h3, o)
    BY <1>9, <1>10, WordKept
  <2>3. \A o \in Nat : o + 2 <= 8 => ntohs(h5, o) = ntohs(h4, o)
    BY <1>9, <1>10, WordKept
  <2>4. \A o \in Nat : o + 2 <= 10 => ntohs(h6, o) = ntohs(h5, o)
    BY <1>9, <1>10, WordKept
  <2>. QED BY ONLY <2>1, <2>2, <2>3, <2>4
<1>12. ntohs(h6, 2) = 0 /\ ntohs(h6, 4) = n /\ ntohs(h6, 6) = 0 /\ ntohs(h6, 8) = 0
  BY ONLY <1>10, <1>11
<1>13. HeadIs(h6, n)
  BY ONLY <1>10, <1>12 DEF HeadIs
<1>14. Asking(q).buf = h6
  BY <1>1 DEF Plain
<1>. QED BY ONLY <1>1, <1>9, <1>13, <1>14 DEF n

\* The questions of b end at the offsets of at.
AskedAt(at, b, q) ==
    /\ at \in [0..Len(q) -> Nat] /\ at[0] = 12 /\ at[Len(q)] = Len(b)
    /\ \A k \in 1..Len(q) : QuestionAt(b, at[k - 1], q[k], at[k])

\* The packet of the queries q, if they fit.
LEMMA QueriesMade ==
    ASSUME NEW q \in Seq(Query), q # <<>>, Capacity \in Nat,
           NEW p, p = mdns_multiquery_send(q, 0, FALSE), p.ok
    PROVE  /\ p.buf \in Seq(Nat) /\ Len(p.buf) <= Capacity /\ HeadIs(p.buf, Len(q))
           /\ \E at : AskedAt(at, p.buf, q)
<1>. DEFINE n == Len(q)
            class == CLASS_IN + FLUSH
            first == [p |-> Asking(q), rest |-> q]
<1>1. n \in Nat /\ n > 0
  OBVIOUS
<1>2. PICK turn : AreTurns(turn, "ask", 0, 0, first, n) /\ p = turn[n].p
  <2>1. \E turn : /\ AreTurns(turn, "ask", 0, 0, [p |-> Asking(q), rest |-> q], n)
                  /\ mdns_multiquery_send(q, 0, FALSE) = turn[n].p
    BY ONLY <1>1, AskTurns
  <2>. HIDE DEF n
  <2>. QED BY <2>1
<1>3. turn[0] = first
  BY <1>2, Zenon DEF AreTurns
<1>4. ASSUME NEW k \in 1..n
      PROVE  /\ turn[k].p = AddQuestion(turn[k - 1].p, Head(turn[k - 1].rest), class)
             /\ turn[k].rest = Tail(turn[k - 1].rest)
  <2>1. turn[k] = [p |-> AddQuestion(turn[k - 1].p, Head(turn[k - 1].rest), class),
                   rest |-> Tail(turn[k - 1].rest)]
    BY <1>2 DEF AreTurns, TurnOf
  <2>. QED BY ONLY <2>1
<1>. HIDE DEF class
<1>5. \A k \in 0..n : turn[k].rest = SubSeq(q, k + 1, n)
  <2>. DEFINE P == {k \in 0..n : turn[k].rest = SubSeq(q, k + 1, n)}
  <2>1. 0 \in P
    <3>1. SubSeq(q, 0 + 1, n) = q
      OBVIOUS
    <3>. QED BY <1>1, <1>3, <3>1
  <2>2. ASSUME NEW k \in 0..(n - 1), k \in P
        PROVE  k + 1 \in P
    <3>1. k + 1 \in 1..Len(q) /\ k + 1 \in 0..n /\ (k + 1) - 1 = k
      BY <1>1
    <3>2. Tail(SubSeq(q, k + 1, n)) = SubSeq(q, (k + 1) + 1, n)
      BY <3>1, RestIs
    <3>3. turn[k].rest = SubSeq(q, k + 1, n)
      BY <2>2
    <3>. HIDE DEF n
    <3>4. turn[k + 1].rest = Tail(turn[k].rest)
      BY <1>4, <3>1
    <3>. QED BY <3>1, <3>2, <3>3, <3>4
  <2>3. 0..n \subseteq P
    <3>. HIDE DEF P, n
    <3>. QED BY <1>1, <2>1, <2>2, UpTo
  <2>. QED BY <2>3
<1>6. ASSUME NEW k \in 1..n
      PROVE  turn[k].p = AddQuestion(turn[k - 1].p, q[k], class)
  <2>1. k - 1 \in 0..n /\ (k - 1) + 1 = k /\ k \in 1..Len(q)
    BY <1>1
  <2>2. Head(SubSeq(q, k, n)) = q[k]
    BY <2>1, RestIs
  <2>3. turn[k - 1].rest = SubSeq(q, k, n)
    <3>. HIDE DEF n
    <3>. QED BY <1>5, <2>1
  <2>. HIDE DEF n
  <2>. QED BY <1>4, <2>2, <2>3
<1>7. ASSUME NEW k \in 0..n
      PROVE  turn[k].p.ok
  <2>. SUFFICES ASSUME ~turn[k].p.ok
                PROVE  FALSE
    OBVIOUS
  <2>. DEFINE P == {j \in 0..(n - k) : ~turn[k + j].p.ok}
  <2>1. n - k \in Nat /\ k + (n - k) = n
    BY <1>1
  <2>2. 0 \in P
    BY <2>1
  <2>3. ASSUME NEW j \in 0..(n - k - 1), j \in P
        PROVE  j + 1 \in P
    <3>1. /\ k + j + 1 \in 1..n /\ (k + j + 1) - 1 = k + j /\ k + (j + 1) = k + j + 1 /\ j + 1 \in 0..(n - k)
          /\ k + j + 1 \in 1..Len(q)
      BY <1>1
    <3>2. ~turn[k + j].p.ok
      BY <2>3
    <3>3. turn[k + j + 1].p = AddQuestion(turn[k + j].p, q[k + j + 1], class)
      <4>. HIDE DEF n
      <4>. QED BY <1>6, <3>1
    <3>4. q[k + j + 1].name \in Seq(Seq(Nat))
      <4>1. q[k + j + 1] \in Query
        BY <3>1
      <4>. QED BY ONLY <4>1 DEF Query, Labels
    <3>. DEFINE pp == turn[k + j].p
                named == mdns_string_make(pp, q[k + j + 1].name)
    <3>5. named.ok = pp.ok
      <4>1. Len(q[k + j + 1].name) \in Nat
        BY <3>4
      <4>. HIDE DEF pp
      <4>. QED BY <3>2, <4>1, NullMade DEF pp
    <3>6. turn[k + j + 1].p = Null
      <4>. HIDE DEF named
      <4>. QED BY <3>2, <3>3, <3>5, Zenon DEF AddQuestion, Put, named
    <3>. QED BY <3>1, <3>6 DEF Null
  <2>4. 0..(n - k) \subseteq P
    <3>. HIDE DEF P, n
    <3>. QED BY <2>1, <2>2, <2>3, UpTo
  <2>5. n - k \in P
    <3>1. n - k \in 0..(n - k)
      BY ONLY <2>1
    <3>. HIDE DEF P, n
    <3>. QED BY ONLY <2>4, <3>1
  <2>. QED BY <1>2, <2>1, <2>5
<1>. DEFINE c == [k \in 0..n |-> turn[k].p.buf]
            at == [k \in 0..n |-> Len(c[k])]
            Good(k) == /\ turn[k].p = Plain(c[k]) /\ c[k] \in Seq(Nat) /\ Extends(c[k], c[0])
                       /\ (k > 0 => Len(c[k]) <= Capacity)
<1>8. c[0] = Asking(q).buf /\ turn[0].p = Plain(c[0]) /\ c[0] \in Seq(Nat) /\ Len(c[0]) = 12 /\ HeadIs(c[0], n)
  <2>1. c[0] = Asking(q).buf
    BY <1>1, <1>3
  <2>. HIDE DEF c
  <2>. QED BY <1>1, <1>3, <2>1, AskingIs
<1>9. ASSUME NEW k \in 1..n, turn[k - 1].p = Plain(c[k - 1]), c[k - 1] \in Seq(Nat)
      PROVE  /\ turn[k].p = Plain(c[k]) /\ c[k] \in Seq(Nat) /\ Extends(c[k], c[k - 1]) /\ Len(c[k]) <= Capacity
             /\ QuestionAt(c[k], Len(c[k - 1]), q[k], Len(c[k]))
  <2>. DEFINE r == turn[k].p
  <2>1. k \in 0..n /\ k - 1 \in 0..n /\ k \in 1..Len(q) /\ c[k] = r.buf
    BY <1>1
  <2>2. q[k] \in Query
    BY <2>1
  <2>3. r.ok
    BY <1>7, <2>1
  <2>4. r = AddQuestion(Plain(c[k - 1]), q[k], CLASS_IN + FLUSH)
    BY <1>6, <1>9 DEF class
  <2>. HIDE DEF c, r
  <2>5. /\ r = Plain(r.buf) /\ r.buf \in Seq(Nat) /\ Extends(r.buf, c[k - 1]) /\ Len(r.buf) <= Capacity
        /\ QuestionAt(r.buf, Len(c[k - 1]), q[k], Len(r.buf))
    BY ONLY c[k - 1] \in Seq(Nat), <2>2, <2>3, <2>4, Capacity \in Nat, QuestionMade
  <2>. QED BY <2>1, <2>5 DEF r
<1>10. \A k \in 0..n : turn[k].p = Plain(c[k]) /\ c[k] \in Seq(Nat)
  <2>. DEFINE P == {k \in 0..n : turn[k].p = Plain(c[k]) /\ c[k] \in Seq(Nat)}
  <2>1. 0 \in P
    <3>. HIDE DEF c
    <3>. QED BY <1>1, <1>8
  <2>2. ASSUME NEW k \in 0..(n - 1), k \in P
        PROVE  k + 1 \in P
    <3>1. k + 1 \in 1..n /\ k + 1 \in 0..n /\ (k + 1) - 1 = k
      BY <1>1
    <3>. HIDE DEF c, n
    <3>. QED BY <1>9, <2>2, <3>1
  <2>3. 0..n \subseteq P
    <3>. HIDE DEF P, n, c
    <3>. QED BY <1>1, <2>1, <2>2, UpTo
  <2>. HIDE DEF c, n
  <2>. QED BY <2>3
<1>11. ASSUME NEW k \in 1..n
       PROVE  /\ c[k] \in Seq(Nat) /\ c[k - 1] \in Seq(Nat) /\ Extends(c[k], c[k - 1]) /\ Len(c[k]) <= Capacity
              /\ QuestionAt(c[k], Len(c[k - 1]), q[k], Len(c[k]))
  <2>1. k - 1 \in 0..n
    BY <1>1
  <2>. HIDE DEF c, n
  <2>. QED BY <1>9, <1>10, <2>1
<1>12. ASSUME NEW k \in 0..n
       PROVE  Extends(c[n], c[k])
  <2>1. \A j \in 0..n : c[j] \in Seq(Nat)
    <3>. HIDE DEF c, n
    <3>. QED BY <1>10
  <2>. HIDE DEF c, n
  <2>. QED BY <1>1, <1>11, <2>1, ChainExtends
<1>. DEFINE b == c[n]
<1>13. b \in Seq(Nat) /\ Len(b) <= Capacity /\ p = Plain(b)
  <2>1. n \in 1..n /\ n \in 0..n
    BY <1>1
  <2>. HIDE DEF c, n
  <2>. QED BY <1>2, <1>10, <1>11, <2>1
<1>14. HeadIs(b, n)
  <2>1. 0 \in 0..n
    BY <1>1
  <2>2. Extends(b, c[0])
    <3>. HIDE DEF c, n
    <3>. QED BY <1>12, <2>1
  <2>. HIDE DEF b, c, n
  <2>3. 12 <= Len(c[0]) /\ c[0] \in Seq(Nat) /\ HeadIs(c[0], n) /\ b \in Seq(Nat)
    BY <1>8, <1>13
  <2>. QED BY ONLY <2>2, <2>3, HeadKept
<1>15. ASSUME NEW k \in 1..n
       PROVE  QuestionAt(b, at[k - 1], q[k], at[k])
  <2>1. k - 1 \in 0..n /\ k \in 0..n /\ q[k] \in Query
    BY <1>1
  <2>2. at[k - 1] = Len(c[k - 1]) /\ at[k] = Len(c[k])
    BY <2>1
  <2>3. Extends(b, c[k])
    <3>. HIDE DEF c, n
    <3>. QED BY <1>12, <2>1
  <2>. HIDE DEF b, c, n, at
  <2>. QED BY <1>11, <1>13, <2>1, <2>2, <2>3, QuestionKept
<1>16. at \in [0..n -> Nat] /\ at[0] = 12 /\ at[n] = Len(b)
  <2>1. 0 \in 0..n /\ n \in 0..n
    BY <1>1
  <2>2. \A k \in 0..n : Len(c[k]) \in Nat
    <3>. HIDE DEF c, n
    <3>. QED BY <1>10
  <2>3. Len(c[0]) = 12
    BY <1>8
  <2>. HIDE DEF c, n
  <2>. QED BY <2>1, <2>2, <2>3
<1>17. AskedAt(at, b, q)
  <2>. HIDE DEF at, b
  <2>. QED BY <1>15, <1>16 DEF AskedAt
<1>18. p.buf = b
  <2>. HIDE DEF b
  <2>. QED BY ONLY <1>13 DEF Plain
<1>. HIDE DEF at, b
<1>. QED BY <1>13, <1>14, <1>17, <1>18
-----------------------------------------------------------------------------
(* Names read that are not compressed.                                     *)

\* A label's length is below 192, so that it is no reference.
LEMMA NothingToFollow ==
    ASSUME NEW b \in Seq(Nat), NEW o \in Nat, o < Len(b), ~(b[o + 1] >= 192)
    PROVE  FollowRefs(b, o) = o
<1>1. ~RefAt(b, o) /\ ~(o >= Len(b))
  BY DEF RefAt, mdns_is_string_ref
<1>. QED BY <1>1, Zenon DEF FollowRefs

\* A name that mdns_string_extract reads to its end.
Readable(labels) ==
    Len(labels) <= MaxSubstrings /\ \A k \in 1..Len(labels) : Len(labels[k]) \in 1..191

\* What mdns_get_next_substring returns for offset o, the references being followed to p.
StringAt(b, o, p) ==
    CASE o >= Len(b) \/ p >= Len(b) -> NoString
      [] b[o + 1] = 0 -> [at |-> o, length |-> 0, ref |-> FALSE]
      [] Len(b) < p + 1 + b[p + 1] -> NoString
      [] OTHER -> [at |-> p + 1, length |-> b[p + 1], ref |-> p # o]

\* The strings of a name: a label behind its length, and the zero at its end.
LEMMA LabelRead ==
    ASSUME NEW b \in Seq(Nat), NEW o \in Nat, o < Len(b), b[o + 1] \in 1..191, o + 1 + b[o + 1] <= Len(b)
    PROVE  mdns_get_next_substring(b, o) = [at |-> o + 1, length |-> b[o + 1], ref |-> FALSE]
<1>. DEFINE n == b[o + 1]
<1>1. Len(b) \in Nat /\ n \in 1..191
  OBVIOUS
<1>2. ~(n >= 192)
  <2>. HIDE DEF n
  <2>. QED BY ONLY <1>1
<1>3. FollowRefs(b, o) = o
  BY <1>2, NothingToFollow
<1>4. mdns_get_next_substring(b, o) = StringAt(b, o, o)
  BY <1>3, Zenon DEF mdns_get_next_substring, StringAt
<1>5. o + 1 + n <= Len(b)
  OBVIOUS
<1>6. ~(o >= Len(b)) /\ n # 0 /\ ~(Len(b) < o + 1 + n)
  <2>. HIDE DEF n
  <2>. QED BY ONLY <1>1, <1>5, o \in Nat, o < Len(b)
<1>7. StringAt(b, o, o) = [at |-> o + 1, length |-> n, ref |-> o # o]
  BY ONLY <1>6, Zenon DEF StringAt, n
<1>. QED BY ONLY <1>4, <1>7, Zenon DEF n

LEMMA EndRead ==
    ASSUME NEW b \in Seq(Nat), NEW o \in Nat, o < Len(b), b[o + 1] = 0
    PROVE  mdns_get_next_substring(b, o) = [at |-> o, length |-> 0, ref |-> FALSE]
<1>1. FollowRefs(b, o) = o
  BY NothingToFollow
<1>2. ~(o >= Len(b))
  OBVIOUS
<1>3. mdns_get_next_substring(b, o) = StringAt(b, o, o)
  BY <1>1, Zenon DEF mdns_get_next_substring, StringAt
<1>4. ~(o >= Len(b) \/ o >= Len(b)) /\ b[o + 1] = 0
  BY <1>2
<1>5. StringAt(b, o, o) = [at |-> o, length |-> 0, ref |-> FALSE]
  BY ONLY <1>4 DEF StringAt
<1>. QED BY <1>3, <1>5, Zenon

\* The label of a turn, and the turn behind it.
LEMMA LabelTaken ==
    ASSUME NEW b \in Seq(Nat), Len(b) <= InvalidPos, NEW o \in Nat, o < Len(b), b[o + 1] \in 1..191,
           o + 1 + b[o + 1] <= Len(b), NEW before,
           NEW t, t = [cur |-> o, left |-> 0, labels |-> before, over |-> FALSE, name |-> NoName]
    PROVE  /\ NameTurn(b, t) = [cur |-> o + 1 + b[o + 1], left |-> 0,
                                labels |-> Append(before, SubSeq(b, o + 2, o + 1 + b[o + 1])),
                                over |-> FALSE, name |-> NoName]
           /\ SkipTurn(b, t) = [cur |-> o + 1 + b[o + 1], left |-> 0, labels |-> before,
                                over |-> FALSE, name |-> NoName]
<1>. DEFINE s == mdns_get_next_substring(b, o)
            n == b[o + 1]
<1>1. s = [at |-> o + 1, length |-> n, ref |-> FALSE]
  BY LabelRead
<1>. HIDE DEF s
<1>2. s.at = o + 1 /\ s.length = n /\ ~s.ref
  BY <1>1, Zenon
<1>3. s.at # InvalidPos /\ s.length # 0
  <2>1. n \in 1..191 /\ o + 1 + n <= Len(b) /\ Len(b) \in Nat /\ Len(b) <= 65536
    BY DEF InvalidPos
  <2>. HIDE DEF n
  <2>2. o + 1 # 65536 /\ n # 0
    BY ONLY <2>1, o \in Nat
  <2>. QED BY ONLY <1>2, <2>2 DEF InvalidPos
<1>4. ~t.over /\ t.cur = o /\ t.left = 0 /\ t.labels = before
  BY Zenon
<1>5. Label(b, s) = SubSeq(b, o + 2, o + 1 + n)
  <2>1. o + 1 + 1 = o + 2
    OBVIOUS
  <2>. QED BY <1>2, <2>1 DEF Label
<1>6. NameTurn(b, t) = [t EXCEPT !.cur = s.at + s.length, !.left = 0, !.labels = Append(@, Label(b, s))]
  BY <1>2, <1>3, <1>4, Zenon DEF NameTurn, s
<1>7. SkipTurn(b, t) = [t EXCEPT !.cur = s.at + s.length]
  BY <1>2, <1>3, <1>4, Zenon DEF SkipTurn, s
<1>8. NameTurn(b, t) = [t EXCEPT !.cur = o + 1 + n, !.left = 0,
                                 !.labels = Append(before, SubSeq(b, o + 2, o + 1 + n))]
  BY <1>2, <1>4, <1>5, <1>6, Zenon
<1>9. SkipTurn(b, t) = [t EXCEPT !.cur = o + 1 + n]
  BY <1>2, <1>7, Zenon
<1>10. NameTurn(b, t) = [cur |-> o + 1 + n, left |-> 0,
                         labels |-> Append(before, SubSeq(b, o + 2, o + 1 + n)),
                         over |-> FALSE, name |-> NoName]
  <2>. DEFINE x == o + 1 + n
              y == Append(before, SubSeq(b, o + 2, o + 1 + n))
  <2>. HIDE DEF x, y
  <2>1. NameTurn(b, t) = [t EXCEPT !.cur = x, !.left = 0, !.labels = y]
    BY <1>8, Zenon DEF x, y
  <2>2. NameTurn(b, t) = [cur |-> x, left |-> 0, labels |-> y, over |-> FALSE, name |-> NoName]
    BY <2>1
  <2>. QED BY <2>2, Zenon DEF x, y
<1>11. SkipTurn(b, t) = [cur |-> o + 1 + n, left |-> 0, labels |-> before, over |-> FALSE, name |-> NoName]
  <2>. DEFINE x == o + 1 + n
  <2>. HIDE DEF x
  <2>1. SkipTurn(b, t) = [t EXCEPT !.cur = x]
    BY <1>9, Zenon DEF x
  <2>2. SkipTurn(b, t) = [cur |-> x, left |-> 0, labels |-> before, over |-> FALSE, name |-> NoName]
    BY <2>1
  <2>. QED BY <2>2, Zenon DEF x
<1>. QED BY <1>10, <1>11, Zenon

\* The zero ends the loop.
LEMMA EndTaken ==
    ASSUME NEW b \in Seq(Nat), Len(b) <= InvalidPos, NEW o \in Nat, o < Len(b), b[o + 1] = 0, NEW before,
           NEW t, t = [cur |-> o, left |-> 0, labels |-> before, over |-> FALSE, name |-> NoName]
    PROVE  /\ NameTurn(b, t).over /\ NameTurn(b, t).name = [ok |-> TRUE, labels |-> before, end |-> o + 1]
           /\ SkipTurn(b, t).over /\ SkipTurn(b, t).name = [ok |-> TRUE, labels |-> <<>>, end |-> o + 1]
<1>. DEFINE s == mdns_get_next_substring(b, o)
<1>1. s = [at |-> o, length |-> 0, ref |-> FALSE]
  BY EndRead
<1>. HIDE DEF s
<1>2. s.at = o /\ s.length = 0 /\ ~s.ref
  BY <1>1, Zenon
<1>3. s.at # InvalidPos
  BY <1>2 DEF InvalidPos
<1>4. ~t.over /\ t.cur = o /\ t.left = 0 /\ t.labels = before
  BY Zenon
<1>6. NameTurn(b, t) = [t EXCEPT !.over = TRUE, !.name = [ok |-> TRUE, labels |-> before, end |-> o + 1]]
  BY <1>2, <1>3, <1>4, Zenon DEF NameTurn, s
<1>7. SkipTurn(b, t) = [t EXCEPT !.over = TRUE, !.name = [ok |-> TRUE, labels |-> <<>>, end |-> o + 1]]
  BY <1>2, <1>3, <1>4, Zenon DEF SkipTurn, s
<1>. QED BY <1>6, <1>7
\* A name that stands in a packet uncompressed is read back, and passed over.
LEMMA NameRead ==
    ASSUME NEW b \in Seq(Nat), Len(b) <= InvalidPos, NEW labels \in Labels, Readable(labels),
           MaxSubstrings \in Nat, NEW o, NEW end, NEW pos, NameAt(pos, b, o, labels, end)
    PROVE  /\ mdns_string_extract(b, o) = [ok |-> TRUE, labels |-> labels, end |-> end]
           /\ mdns_string_skip(b, o) = [ok |-> TRUE, labels |-> <<>>, end |-> end]
<1>. DEFINE n == Len(labels)
            M == MaxSubstrings + 1
            Extracted(k) == [cur |-> pos[k], left |-> 0, labels |-> SubSeq(labels, 1, k), over |-> FALSE,
                             name |-> NoName]
            Skipped(k) == [cur |-> pos[k], left |-> 0, labels |-> <<>>, over |-> FALSE, name |-> NoName]
<1>1. /\ n \in Nat /\ M \in Nat /\ n < M /\ labels \in Seq(Seq(Nat))
      /\ \A k \in 1..n : Len(labels[k]) \in 1..191
  BY DEF Labels, Readable
<1>2. /\ pos \in [0..n -> Nat] /\ pos[0] = o /\ end = pos[n] + 1 /\ end <= Len(b) /\ b[end] = 0
      /\ \A k \in 1..n :
           /\ pos[k] = pos[k - 1] + 1 + Len(labels[k]) /\ pos[k] <= Len(b)
           /\ b[pos[k - 1] + 1] = Len(labels[k])
           /\ SubSeq(b, pos[k - 1] + 2, pos[k]) = labels[k]
  BY Zenon DEF NameAt
<1>. HIDE DEF n, M
<1>3. ASSUME NEW k \in 1..n
      PROVE  /\ pos[k - 1] \in Nat /\ pos[k - 1] < Len(b) /\ b[pos[k - 1] + 1] \in 1..191
             /\ pos[k - 1] + 1 + b[pos[k - 1] + 1] = pos[k] /\ pos[k] <= Len(b)
  <2>1. k - 1 \in 0..n
    BY <1>1
  <2>2. pos[k - 1] \in Nat
    BY ONLY <1>2, <2>1
  <2>3. Len(labels[k]) \in 1..191 /\ pos[k] = pos[k - 1] + 1 + Len(labels[k]) /\ pos[k] <= Len(b)
        /\ b[pos[k - 1] + 1] = Len(labels[k])
    BY <1>1, <1>2
  <2>4. Len(b) \in Nat
    OBVIOUS
  <2>. QED BY ONLY <2>2, <2>3, <2>4
<1>4. ASSUME NEW k \in 1..n
      PROVE  NameTurn(b, Extracted(k - 1)) = Extracted(k)
  <2>. DEFINE p == pos[k - 1]
              before == SubSeq(labels, 1, k - 1)
  <2>1. /\ p \in Nat /\ p < Len(b) /\ b[p + 1] \in 1..191
        /\ p + 1 + b[p + 1] = pos[k] /\ pos[k] <= Len(b)
    BY <1>3
  <2>2. Append(before, labels[k]) = SubSeq(labels, 1, k)
    <3>1. k \in 1..Len(labels) /\ labels \in Seq(Seq(Nat))
      BY <1>1 DEF n
    <3>. QED BY ONLY <3>1, BeginOn
  <2>3. SubSeq(b, p + 2, p + 1 + b[p + 1]) = labels[k]
    BY <1>2, <2>1
  <2>. HIDE DEF p, before
  <2>4. NameTurn(b, [cur |-> p, left |-> 0, labels |-> before, over |-> FALSE, name |-> NoName])
        = [cur |-> p + 1 + b[p + 1], left |-> 0,
           labels |-> Append(before, SubSeq(b, p + 2, p + 1 + b[p + 1])), over |-> FALSE, name |-> NoName]
    BY ONLY b \in Seq(Nat), Len(b) <= InvalidPos, <2>1, LabelTaken
  <2>. QED BY ONLY <2>1, <2>2, <2>3, <2>4, Zenon DEF p, before
<1>5. ASSUME NEW k \in 1..n
      PROVE  SkipTurn(b, Skipped(k - 1)) = Skipped(k)
  <2>. DEFINE p == pos[k - 1]
              before == <<>>
  <2>1. /\ p \in Nat /\ p < Len(b) /\ b[p + 1] \in 1..191
        /\ p + 1 + b[p + 1] = pos[k] /\ pos[k] <= Len(b)
    BY <1>3
  <2>. HIDE DEF p, before
  <2>4. SkipTurn(b, [cur |-> p, left |-> 0, labels |-> before, over |-> FALSE, name |-> NoName])
        = [cur |-> p + 1 + b[p + 1], left |-> 0, labels |-> before, over |-> FALSE, name |-> NoName]
    BY ONLY b \in Seq(Nat), Len(b) <= InvalidPos, <2>1, LabelTaken
  <2>. QED BY ONLY <2>1, <2>4, Zenon DEF p, before
<1>6. /\ pos[n] \in Nat /\ pos[n] < Len(b) /\ b[pos[n] + 1] = 0
  <2>1. pos[n] \in Nat
    BY ONLY <1>1, <1>2
  <2>2. Len(b) \in Nat
    OBVIOUS
  <2>. QED BY ONLY <1>2, <2>1, <2>2
<1>7. FirstTurn(o) = Extracted(0) /\ FirstTurn(o) = Skipped(0)
  <2>1. SubSeq(labels, 1, 0) = <<>>
    BY <1>1
  <2>. QED BY ONLY <1>2, <2>1, Zenon DEF FirstTurn
<1>8. NameTurn(b, Extracted(n)).over /\ NameTurn(b, Extracted(n)).name = [ok |-> TRUE, labels |-> labels, end |-> end]
  <2>1. SubSeq(labels, 1, n) = labels
    BY <1>1 DEF n
  <2>. DEFINE p == pos[n]
              t == Extracted(n)
  <2>2. p \in Nat /\ p < Len(b) /\ b[p + 1] = 0 /\ end = p + 1
    BY <1>2, <1>6
  <2>3. t = [cur |-> p, left |-> 0, labels |-> labels, over |-> FALSE, name |-> NoName]
    BY <2>1, Zenon
  <2>. HIDE DEF p, t
  <2>4. NameTurn(b, t).over /\ NameTurn(b, t).name = [ok |-> TRUE, labels |-> labels, end |-> p + 1]
    BY ONLY b \in Seq(Nat), Len(b) <= InvalidPos, <2>2, <2>3, EndTaken
  <2>. QED BY ONLY <2>2, <2>4, Zenon DEF t
<1>9. SkipTurn(b, Skipped(n)).over /\ SkipTurn(b, Skipped(n)).name = [ok |-> TRUE, labels |-> <<>>, end |-> end]
  <2>. DEFINE p == pos[n]
              t == Skipped(n)
              none == <<>>
  <2>2. p \in Nat /\ p < Len(b) /\ b[p + 1] = 0 /\ end = p + 1
    BY <1>2, <1>6
  <2>. HIDE DEF none
  <2>3. t = [cur |-> p, left |-> 0, labels |-> none, over |-> FALSE, name |-> NoName]
    BY Zenon DEF none
  <2>. HIDE DEF p, t
  <2>4. SkipTurn(b, t).over /\ SkipTurn(b, t).name = [ok |-> TRUE, labels |-> <<>>, end |-> p + 1]
    BY ONLY b \in Seq(Nat), Len(b) <= InvalidPos, <2>2, <2>3, EndTaken
  <2>. QED BY ONLY <2>2, <2>4, Zenon DEF t
<1>. HIDE DEF Extracted, Skipped
<1>10. mdns_string_extract(b, o) = [ok |-> TRUE, labels |-> labels, end |-> end]
  <2>1. PICK turn : /\ AreTurns(turn, "extract", b, 0, FirstTurn(o), MaxSubstrings + 1)
                    /\ mdns_string_extract(b, o) = turn[MaxSubstrings + 1].name
    BY ONLY MaxSubstrings \in Nat, ExtractTurns
  <2>2. turn[0] = FirstTurn(o) /\ \A k \in 1..M : turn[k] = NameTurn(b, turn[k - 1])
    BY <2>1 DEF AreTurns, TurnOf, M
  <2>3. \A k \in 1..n : k \in 1..M
    BY <1>1
  <2>4. turn[n] = Extracted(n)
    <3>. DEFINE P == {k \in 0..n : turn[k] = Extracted(k)}
    <3>1. 0 \in P
      BY <1>1, <1>7, <2>2
    <3>2. ASSUME NEW k \in 0..(n - 1), k \in P
          PROVE  k + 1 \in P
      <4>1. k + 1 \in 1..n /\ k + 1 \in 0..n /\ (k + 1) - 1 = k /\ turn[k] = Extracted(k)
        BY <1>1, <3>2
      <4>2. turn[k + 1] = NameTurn(b, turn[k])
        BY <2>2, <2>3, <4>1
      <4>3. NameTurn(b, Extracted(k)) = Extracted(k + 1)
        BY <1>4, <4>1
      <4>. QED BY <4>1, <4>2, <4>3
    <3>3. 0..n \subseteq P
      <4>. HIDE DEF P
      <4>. QED BY <1>1, <3>1, <3>2, UpTo
    <3>4. n \in 0..n
      BY <1>1
    <3>. QED BY <3>3, <3>4
  <2>5. n + 1 \in 1..M /\ (n + 1) - 1 = n /\ n + 1 \in 0..M
    BY <1>1
  <2>6. turn[n + 1] = NameTurn(b, Extracted(n))
    BY <2>2, <2>4, <2>5
  <2>7. turn[M] = turn[n + 1]
    <3>1. turn[n + 1].over /\ "extract" \in {"extract", "skip", "make", "question", "record"}
      BY <1>8, <2>6
    <3>2. AreTurns(turn, "extract", b, 0, FirstTurn(o), M)
      BY <2>1 DEF M
    <3>. DEFINE j == n + 1
                f == FirstTurn(o)
    <3>. HIDE DEF j, f
    <3>3. j \in 0..M /\ turn[j].over
      BY <2>5, <3>1 DEF j
    <3>4. turn[M] = turn[j]
      BY ONLY <1>1, <3>1, <3>2, <3>3, OverStays DEF f
    <3>. QED BY <3>4 DEF j
  <2>. QED BY <1>8, <2>1, <2>6, <2>7 DEF M
<1>11. mdns_string_skip(b, o) = [ok |-> TRUE, labels |-> <<>>, end |-> end]
  <2>1. PICK turn : /\ AreTurns(turn, "skip", b, 0, FirstTurn(o), MaxSubstrings + 1)
                    /\ mdns_string_skip(b, o) = turn[MaxSubstrings + 1].name
    BY ONLY MaxSubstrings \in Nat, SkipTurns
  <2>2. turn[0] = FirstTurn(o) /\ \A k \in 1..M : turn[k] = SkipTurn(b, turn[k - 1])
    BY <2>1 DEF AreTurns, TurnOf, M
  <2>3. \A k \in 1..n : k \in 1..M
    BY <1>1
  <2>4. turn[n] = Skipped(n)
    <3>. DEFINE P == {k \in 0..n : turn[k] = Skipped(k)}
    <3>1. 0 \in P
      BY <1>1, <1>7, <2>2
    <3>2. ASSUME NEW k \in 0..(n - 1), k \in P
          PROVE  k + 1 \in P
      <4>1. k + 1 \in 1..n /\ k + 1 \in 0..n /\ (k + 1) - 1 = k /\ turn[k] = Skipped(k)
        BY <1>1, <3>2
      <4>2. turn[k + 1] = SkipTurn(b, turn[k])
        BY <2>2, <2>3, <4>1
      <4>3. SkipTurn(b, Skipped(k)) = Skipped(k + 1)
        BY <1>5, <4>1
      <4>. QED BY <4>1, <4>2, <4>3
    <3>3. 0..n \subseteq P
      <4>. HIDE DEF P
      <4>. QED BY <1>1, <3>1, <3>2, UpTo
    <3>4. n \in 0..n
      BY <1>1
    <3>. QED BY <3>3, <3>4
  <2>5. n + 1 \in 1..M /\ (n + 1) - 1 = n /\ n + 1 \in 0..M
    BY <1>1
  <2>6. turn[n + 1] = SkipTurn(b, Skipped(n))
    BY <2>2, <2>4, <2>5
  <2>7. turn[M] = turn[n + 1]
    <3>1. turn[n + 1].over /\ "skip" \in {"extract", "skip", "make", "question", "record"}
      BY <1>9, <2>6
    <3>2. AreTurns(turn, "skip", b, 0, FirstTurn(o), M)
      BY <2>1 DEF M
    <3>. DEFINE j == n + 1
                f == FirstTurn(o)
    <3>. HIDE DEF j, f
    <3>3. j \in 0..M /\ turn[j].over
      BY <2>5, <3>1 DEF j
    <3>4. turn[M] = turn[j]
      BY ONLY <1>1, <3>1, <3>2, <3>3, OverStays DEF f
    <3>. QED BY <3>4 DEF j
  <2>. QED BY <1>9, <2>1, <2>6, <2>7 DEF M
<1>. QED BY ONLY <1>10, <1>11
-----------------------------------------------------------------------------
(* Questions read.                                                         *)

\* The call of the callback for a question of a packet.
QuestionCall(o, query, end) ==
    [entry |-> Question, rtype |-> query.type, rclass |-> CLASS_IN + FLUSH, ttl |-> 0,
     name |-> o, at |-> o, length |-> (end - 4) - o]

\* What QuestionTurn does once it has the end of the name.
QuestionTaken(b, t, name, same) ==
    CASE ~name.ok -> [t EXCEPT !.over = TRUE]
      [] name.ok /\ class_without_flushbit(ntohs(b, name.end + 2)) \notin {CLASS_IN, ANY} ->
            [t EXCEPT !.end = name.end + 4, !.over = TRUE]
      [] OTHER -> Reading(name.end + 4, IF same /\ ntohs(b, 2) # 0 THEN t.calls
                                        ELSE Append(t.calls,
            [entry |-> Question, rtype |-> ntohs(b, name.end), rclass |-> ntohs(b, name.end + 2), ttl |-> 0,
             name |-> t.end, at |-> t.end, length |-> name.end - t.end]))

\* One question, when it is the turn of the reading loop.
LEMMA QuestionRead ==
    ASSUME NEW b \in Seq(Nat), Len(b) <= InvalidPos, NEW query \in Query, Readable(query.name),
           MaxSubstrings \in Nat, NEW o, NEW end, QuestionAt(b, o, query, end), ntohs(b, 2) = 0,
           NEW calls, NEW services
    PROVE  QuestionTurn(b, services, Reading(o, calls))
           = Reading(end, Append(calls, QuestionCall(o, query, end)))
<1>. DEFINE e == end - 4
            t == Reading(o, calls)
            same == mdns_string_equal(b, o, services, 12)
            name == IF same.ok THEN same ELSE mdns_string_skip(b, o)
            lhs == mdns_string_extract(b, o)
<1>1. query.name \in Labels
  BY DEF Query
<1>2. PICK pos : NameAt(pos, b, o, query.name, e)
  BY DEF QuestionAt
<1>3. lhs = [ok |-> TRUE, labels |-> query.name, end |-> e]
      /\ mdns_string_skip(b, o) = [ok |-> TRUE, labels |-> <<>>, end |-> e]
  <2>. DEFINE labels == query.name
  <2>1. labels \in Labels /\ Readable(labels) /\ NameAt(pos, b, o, labels, e)
    BY <1>1, <1>2
  <2>. HIDE DEF labels, e
  <2>2. lhs = [ok |-> TRUE, labels |-> labels, end |-> e]
        /\ mdns_string_skip(b, o) = [ok |-> TRUE, labels |-> <<>>, end |-> e]
    BY ONLY b \in Seq(Nat), Len(b) <= InvalidPos, MaxSubstrings \in Nat, <2>1, NameRead
  <2>. QED BY <2>2 DEF labels
<1>. HIDE DEF e
<1>4. same = lhs \/ same = NoName
  BY Zenon DEF mdns_string_equal, NoName
<1>. HIDE DEF same, lhs
<1>5. name.ok /\ name.end = e
  <2>1. ~NoName.ok
    BY DEF NoName
  <2>2. CASE same.ok
    <3>1. same = lhs
      BY <1>4, <2>1, <2>2
    <3>. QED BY <1>3, <2>2, <3>1
  <2>3. CASE ~same.ok
    BY <1>3, <2>3
  <2>. QED BY <2>2, <2>3
<1>. HIDE DEF name
<1>6. t.over = FALSE /\ t.end = o /\ t.calls = calls
  BY DEF Reading
<1>. HIDE DEF t
<1>7. QuestionTurn(b, services, t) = QuestionTaken(b, t, name, same.ok)
  BY <1>6, Zenon DEF QuestionTurn, QuestionTaken, name, same
<1>8. e \in Nat /\ end = e + 4 /\ ntohs(b, e) = query.type /\ ntohs(b, e + 2) = CLASS_IN + FLUSH
  <2>1. e \in Nat
    BY <1>1, <1>2, NameEnds
  <2>2. end \in Nat /\ ntohs(b, end - 4) = query.type /\ ntohs(b, end - 2) = CLASS_IN + FLUSH
    BY Zenon DEF QuestionAt
  <2>3. end = e + 4 /\ end - 2 = e + 2
    BY <2>1, <2>2 DEF e
  <2>. QED BY <2>1, <2>2, <2>3 DEF e
<1>9. class_without_flushbit(ntohs(b, name.end + 2)) = CLASS_IN
  BY <1>5, <1>8 DEF class_without_flushbit, CLASS_IN, FLUSH
<1>10. ~(~name.ok) /\ ~(class_without_flushbit(ntohs(b, name.end + 2)) \notin {CLASS_IN, ANY})
       /\ ~(same.ok /\ ntohs(b, 2) # 0)
  BY <1>5, <1>9
<1>11. QuestionTaken(b, t, name, same.ok)
       = Reading(name.end + 4, Append(t.calls,
            [entry |-> Question, rtype |-> ntohs(b, name.end), rclass |-> ntohs(b, name.end + 2), ttl |-> 0,
             name |-> t.end, at |-> t.end, length |-> name.end - t.end]))
  BY ONLY <1>10, Zenon DEF QuestionTaken
<1>12. QuestionTaken(b, t, name, same.ok) = Reading(e + 4, Append(calls, QuestionCall(o, query, end)))
  BY ONLY <1>5, <1>6, <1>8, <1>11, Zenon DEF QuestionCall, e
<1>. QED BY ONLY <1>7, <1>8, <1>12 DEF t

\* A query has no answers or other records behind its questions.
LEMMA NoSections ==
    ASSUME NEW b, NEW o, NEW n, HeadIs(b, n)
    PROVE  ParseSections(b, o) = <<>>
<1>. DEFINE start == [calls |-> <<>>, end |-> o, whole |-> TRUE]
<1>1. ASSUME NEW entry, ntohs(b, 4 + 2 * entry) = 0
      PROVE  ParseSection(b, start, entry) = start
  <2>. DEFINE s == mdns_records_parse(b, o, 0, entry)
              zero == 0
  <2>1. PICK turn : AreTurns(turn, "record", b, entry, Reading(o, <<>>), 0) /\ s = turn[0]
    <3>1. zero \in Nat
      OBVIOUS
    <3>. HIDE DEF zero
    <3>2. \E turn : AreTurns(turn, "record", b, entry, Reading(o, <<>>), zero)
                    /\ mdns_records_parse(b, o, zero, entry) = turn[zero]
      BY ONLY <3>1, RecordTurns
    <3>. QED BY <3>2 DEF zero
  <2>2. s = Reading(o, <<>>)
    BY <2>1 DEF AreTurns
  <2>. HIDE DEF s
  <2>3. s.calls = <<>> /\ s.end = o
    BY <2>2 DEF Reading
  <2>4. ParseSection(b, start, entry) = [calls |-> <<>> \o s.calls, end |-> s.end, whole |-> Len(s.calls) = 0]
    BY <1>1, Zenon DEF ParseSection, s
  <2>5. <<>> \o <<>> = <<>> /\ Len(<<>>) = 0
    OBVIOUS
  <2>. QED BY <2>3, <2>4, <2>5, Zenon
<1>2. ntohs(b, 4 + 2 * Answer) = 0 /\ ntohs(b, 4 + 2 * Authority) = 0 /\ ntohs(b, 4 + 2 * Additional) = 0
  BY DEF Answer, Authority, Additional, HeadIs
<1>3. ParseSection(b, ParseSection(b, ParseSection(b, start, Answer), Authority), Additional) = start
  <2>. HIDE DEF start
  <2>. QED BY <1>1, <1>2
<1>4. ParseSections(b, o) = start.calls
  BY <1>3, Zenon DEF ParseSections
<1>. QED BY <1>4
\* The calls for a packet of queries: one for each.
LEMMA ListenIs ==
    ASSUME NEW b \in Seq(Nat), Len(b) <= InvalidPos, NEW q \in Seq(Query), MaxSubstrings \in Nat,
           \A k \in 1..Len(q) : Readable(q[k].name), HeadIs(b, Len(q)), NEW at, AskedAt(at, b, q), NEW services
    PROVE  mdns_socket_listen(b, services) = [k \in 1..Len(q) |-> QuestionCall(at[k - 1], q[k], at[k])]
<1>. DEFINE n == Len(q)
            Call(k) == QuestionCall(at[k - 1], q[k], at[k])
            calls == [k \in 0..n |-> [i \in 1..k |-> Call(i)]]
            twelve == 12
            all == QuestionsFrom(b, twelve, n, services)
<1>1. n \in Nat /\ at[0] = twelve /\ \A k \in 1..n : QuestionAt(b, at[k - 1], q[k], at[k])
  BY DEF AskedAt
<1>2. ntohs(b, 2) = 0 /\ ntohs(b, 4) = n
  BY DEF HeadIs
<1>. HIDE DEF n, Call, twelve
<1>3. PICK turn : AreTurns(turn, "question", b, services, Reading(twelve, <<>>), n) /\ all = turn[n]
  BY ONLY <1>1, QuestionTurns
<1>4. turn[0] = Reading(twelve, <<>>) /\ \A k \in 1..n : turn[k] = QuestionTurn(b, services, turn[k - 1])
  BY <1>3 DEF AreTurns, TurnOf
<1>5. ASSUME NEW k \in 1..n
      PROVE  Append(calls[k - 1], Call(k)) = calls[k]
  <2>1. k - 1 \in 0..n /\ k \in 0..n /\ k - 1 \in Nat /\ k \in Nat
    BY <1>1
  <2>. DEFINE u == [i \in 1..(k - 1) |-> Call(i)]
              v == [i \in 1..k |-> Call(i)]
              S == {Call(i) : i \in 1..n}
  <2>2. \A i \in 1..k : i \in 1..n
    BY <2>1, <1>1
  <2>3. u \in Seq(S) /\ Len(u) = k - 1 /\ \A i \in 1..(k - 1) : u[i] = Call(i)
    <3>. DEFINE k1 == k - 1
    <3>1. k1 \in Nat /\ u \in [1..k1 -> S] /\ \A i \in 1..k1 : u[i] = Call(i)
      BY <2>1, <2>2
    <3>. HIDE DEF u, S, k1
    <3>2. u \in Seq(S) /\ Len(u) = k1
      BY ONLY <3>1, ListOf
    <3>. QED BY <3>1, <3>2 DEF k1
  <2>4. v \in Seq(S) /\ Len(v) = k /\ \A i \in 1..k : v[i] = Call(i)
    <3>1. v \in [1..k -> S] /\ \A i \in 1..k : v[i] = Call(i)
      BY <2>2
    <3>. HIDE DEF v, S
    <3>2. v \in Seq(S) /\ Len(v) = k
      BY ONLY <2>1, <3>1, ListOf
    <3>. QED BY <3>1, <3>2
  <2>5. Call(k) \in S
    OBVIOUS
  <2>6. calls[k - 1] = u /\ calls[k] = v
    BY <2>1
  <2>. HIDE DEF u, v, S, calls
  <2>7. Append(u, Call(k)) \in Seq(S) /\ Len(Append(u, Call(k))) = k
    BY <2>1, <2>3, <2>5
  <2>8. ASSUME NEW i \in 1..k
        PROVE  Append(u, Call(k))[i] = v[i]
    <3>1. CASE i = k
      <4>1. Append(u, Call(k))[k] = Call(k)
        BY <2>1, <2>3, <2>5
      <4>2. v[k] = Call(k)
        BY <2>1, <2>4
      <4>. QED BY <3>1, <4>1, <4>2
    <3>2. CASE i # k
      <4>1. i \in 1..(k - 1)
        BY <2>1, <3>2
      <4>2. Append(u, Call(k))[i] = u[i]
        BY <2>1, <2>3, <2>5, <4>1
      <4>. QED BY <2>3, <2>4, <4>1, <4>2
    <3>. QED BY <3>1, <3>2
  <2>9. Append(u, Call(k)) = v
    BY <2>4, <2>7, <2>8
  <2>. QED BY <2>6, <2>9
<1>6. calls[0] = <<>>
  BY <1>1
<1>. HIDE DEF calls
<1>7. ASSUME NEW k \in 1..n
      PROVE  QuestionTurn(b, services, Reading(at[k - 1], calls[k - 1])) = Reading(at[k], calls[k])
  <2>. DEFINE query == q[k]
              o == at[k - 1]
              end == at[k]
              before == calls[k - 1]
  <2>1. query \in Query /\ Readable(query.name) /\ QuestionAt(b, o, query, end)
    BY <1>1 DEF n
  <2>2. Call(k) = QuestionCall(o, query, end)
    BY DEF Call
  <2>. HIDE DEF query, o, end, before
  <2>3. QuestionTurn(b, services, Reading(o, before)) = Reading(end, Append(before, QuestionCall(o, query, end)))
    BY ONLY b \in Seq(Nat), Len(b) <= InvalidPos, MaxSubstrings \in Nat, <1>2, <2>1, QuestionRead
  <2>. QED BY ONLY <1>5, <2>2, <2>3, Zenon DEF query, o, end, before
<1>8. all = Reading(at[n], calls[n])
  <2>. DEFINE P == {k \in 0..n : turn[k] = Reading(at[k], calls[k])}
  <2>1. 0 \in P
    BY <1>1, <1>4, <1>6
  <2>2. ASSUME NEW k \in 0..(n - 1), k \in P
        PROVE  k + 1 \in P
    <3>1. k + 1 \in 1..n /\ k + 1 \in 0..n /\ (k + 1) - 1 = k /\ turn[k] = Reading(at[k], calls[k])
      BY <1>1, <2>2
    <3>2. turn[k + 1] = QuestionTurn(b, services, turn[k])
      BY <1>4, <3>1
    <3>3. QuestionTurn(b, services, Reading(at[k], calls[k])) = Reading(at[k + 1], calls[k + 1])
      BY <1>7, <3>1
    <3>. QED BY <3>1, <3>2, <3>3
  <2>3. 0..n \subseteq P
    <3>. HIDE DEF P
    <3>. QED BY <1>1, <2>1, <2>2, UpTo
  <2>4. n \in 0..n
    BY <1>1
  <2>. QED BY <1>3, <2>3, <2>4
<1>. HIDE DEF all
<1>9. all.calls = calls[n] /\ all.end = at[n]
  BY <1>8 DEF Reading
<1>10. ParseSections(b, all.end) = <<>>
  BY NoSections
<1>11. mdns_socket_listen(b, services) = all.calls \o ParseSections(b, all.end)
  BY <1>2, Zenon DEF mdns_socket_listen, all, twelve
<1>12. calls[n] = [k \in 1..n |-> Call(k)]
  <2>1. n \in 0..n
    BY <1>1
  <2>. QED BY <2>1 DEF calls
<1>13. calls[n] \in Seq({Call(k) : k \in 1..n})
  <2>. DEFINE S == {Call(k) : k \in 1..n}
              v == [k \in 1..n |-> Call(k)]
  <2>1. \A k \in 1..n : Call(k) \in S
    OBVIOUS
  <2>2. v \in [1..n -> S]
    <3>. HIDE DEF S
    <3>. QED BY <2>1
  <2>. HIDE DEF S, v
  <2>3. v \in Seq(S)
    BY <1>1, <2>2
  <2>. QED BY <1>12, <2>3 DEF S, v
<1>14. calls[n] \o <<>> = calls[n]
  BY <1>13
<1>. QED BY <1>9, <1>10, <1>11, <1>12, <1>14, Zenon DEF n, Call

-----------------------------------------------------------------------------

\* The queries that the worker answers.
Wanted(q) == {i \in DOMAIN q : q[i].type \in {PTR, ANY} /\ IsPrefix(q[i].name, Type)}

\* Of the questions in a packet those that are wanted make the worker answer.
LEMMA AsksAreWanted ==
    ASSUME NEW q \in Seq(Query), q # <<>>, Capacity \in Nat, Capacity <= InvalidPos, MaxSubstrings \in Nat,
           \A k \in 1..Len(q) : Readable(q[k].name), NEW p, p = mdns_multiquery_send(q, 0, FALSE), p.ok
    PROVE  Datagram(p.buf, q).queries = q /\ Datagram(p.buf, q).asks = Cardinality(Wanted(q))
<1>. DEFINE b == p.buf
            n == Len(q)
            services == mdns_services_query(Services)
            calls == mdns_socket_listen(b, services)
<1>1. b \in Seq(Nat) /\ Len(b) <= Capacity /\ HeadIs(b, n) /\ \E at : AskedAt(at, b, q)
  BY QueriesMade
<1>2. PICK at : AskedAt(at, b, q)
  BY <1>1
<1>. HIDE DEF b, services
<1>3. Len(b) <= InvalidPos
  BY <1>1 DEF InvalidPos
<1>4. calls = [k \in 1..n |-> QuestionCall(at[k - 1], q[k], at[k])]
  BY <1>1, <1>2, <1>3, ListenIs
<1>. HIDE DEF calls
<1>5. DOMAIN calls = 1..n /\ DOMAIN q = 1..n
  BY <1>4
<1>6. ASSUME NEW k \in 1..n
      PROVE  mdns_query_callback(b, calls[k]) <=> q[k].type \in {PTR, ANY} /\ IsPrefix(q[k].name, Type)
  <2>1. calls[k].rtype = q[k].type /\ calls[k].name = at[k - 1]
    BY <1>4 DEF QuestionCall
  <2>2. q[k].name \in Labels /\ Readable(q[k].name) /\ QuestionAt(b, at[k - 1], q[k], at[k])
    <3>1. q[k] \in Query
      OBVIOUS
    <3>. QED BY <1>2, <3>1 DEF AskedAt, Query
  <2>3. PICK pos : NameAt(pos, b, at[k - 1], q[k].name, at[k] - 4)
    BY <2>2 DEF QuestionAt
  <2>4. mdns_string_extract(b, at[k - 1]).labels = q[k].name
    <3>. DEFINE labels == q[k].name
                o == at[k - 1]
                end == at[k] - 4
    <3>1. labels \in Labels /\ Readable(labels) /\ NameAt(pos, b, o, labels, end)
      BY <2>2, <2>3
    <3>. HIDE DEF labels, o, end
    <3>2. mdns_string_extract(b, o) = [ok |-> TRUE, labels |-> labels, end |-> end]
      BY ONLY <1>1, <1>3, MaxSubstrings \in Nat, <3>1, NameRead
    <3>. QED BY <3>2 DEF labels, o
  <2>. QED BY <2>1, <2>4, Zenon DEF mdns_query_callback
<1>7. {i \in DOMAIN calls : mdns_query_callback(b, calls[i])} = Wanted(q)
  BY <1>5, <1>6 DEF Wanted
<1>8. Asks(b, calls) = Cardinality(Wanted(q))
  BY <1>7, Zenon DEF Asks
<1>9. Datagram(b, q) = [bytes |-> b, queries |-> q, asks |-> Asks(b, calls)]
  BY Zenon DEF Datagram, calls, services
<1>10. Datagram(b, q).queries = q /\ Datagram(b, q).asks = Asks(b, calls)
  BY ONLY <1>9
<1>. QED BY <1>8, <1>10, Zenon DEF b
-----------------------------------------------------------------------------
(* What the worker hears, and how often it answers.                        *)

\* What waits in the socket is what others send; the last datagram listened to
\* was one of them, and was answered as often as it asks.
HeardInv ==
    /\ inbox = <<>> \/ \E d \in Datagrams : inbox = <<d>>
    /\ heard = <<>> \/ \E d \in Datagrams : heard = d.queries /\ answers = d.asks

\* What the worker has heard, and how often it answered, is of one datagram.
LEMMA HeardInvInit == Init => HeardInv
BY DEF Init, HeardInv

LEMMA HeardInvNext == HeardInv /\ [Next]_vars => HeardInv'
<1>. SUFFICES ASSUME HeardInv, [Next]_vars
              PROVE  HeardInv'
  OBVIOUS
<1>. DEFINE Waits(i) == i = <<>> \/ \E d \in Datagrams : i = <<d>>
            Heard(h, a) == h = <<>> \/ \E d \in Datagrams : h = d.queries /\ a = d.asks
<1>1. Waits(inbox) /\ Heard(heard, answers)
  BY DEF HeardInv
<1>2. SUFFICES Waits(inbox') /\ Heard(heard', answers')
  BY DEF HeardInv
<1>3. CASE SelectListens
  <2>1. inbox # <<>> /\ heard' = inbox[1].queries /\ answers' = inbox[1].asks /\ inbox' = <<>>
    BY <1>3 DEF SelectListens
  <2>2. PICK d \in Datagrams : inbox = <<d>>
    BY <1>1, <2>1
  <2>. QED BY <2>1, <2>2
<1>4. CASE DatagramArrives
  <2>1. (\E d \in Datagrams : inbox' = <<d>>) /\ heard' = heard /\ answers' = answers
    BY <1>4 DEF DatagramArrives
  <2>. QED BY <1>1, <2>1
<1>5. CASE platform_mdns_start
  <2>1. inbox' = <<>> /\ heard' = heard /\ answers' = answers
    BY <1>5 DEF platform_mdns_start
  <2>. QED BY <1>1, <2>1
<1>6. CASE StopCloses
  <2>1. inbox' = <<>> /\ heard' = heard /\ answers' = answers
    BY <1>6 DEF StopCloses
  <2>. QED BY <1>1, <2>1
<1>7. ASSUME UNCHANGED <<inbox, heard, answers>>
      PROVE  Waits(inbox') /\ Heard(heard', answers')
  BY <1>1, <1>7
<1>8. CASE Main
  <2>1. CASE RegisterFields \/ RegisterRunning \/ RegisterThread
    BY <1>7, <2>1 DEF RegisterFields, RegisterRunning, RegisterThread
  <2>2. CASE StopTells \/ StopWaits \/ StopFrees
    BY <1>7, <2>2 DEF StopTells, StopWaits, StopFrees
  <2>. QED BY <1>5, <1>6, <1>8, <2>1, <2>2 DEF Main
<1>9. CASE Worker
  <2>1. CASE FirstAnnouncement \/ WorkerTests \/ SelectTimesOut
    BY <1>7, <2>1 DEF FirstAnnouncement, WorkerTests, SelectTimesOut
  <2>2. CASE WorkerCounts \/ WorkerAnnounces
    BY <1>7, <2>2 DEF WorkerCounts, WorkerAnnounces
  <2>. QED BY <1>3, <1>9, <2>1, <2>2 DEF Worker
<1>10. CASE UNCHANGED vars
  BY <1>7, <1>10 DEF vars
<1>. QED BY <1>4, <1>8, <1>9, <1>10 DEF Next

\* What others send is whole.
LEMMA SentFits ==
    ASSUME NEW q, IsSent(q)
    PROVE  mdns_multiquery_send(q, 0, FALSE).ok
BY Zenon DEF IsSent

\* Its names are names that this library reads.
LEMMA SentIsRead ==
    ASSUME NEW q, IsSent(q)
    PROVE  q \in Seq(Query) /\ \A k \in 1..Len(q) : Readable(q[k].name)
<1>1. q \in Seq([type : Nat, name : Seq(Seq(Nat))]) /\ \A i \in DOMAIN q : IsQuery(q[i])
  BY Zenon DEF IsSent
<1>2. q \in Seq(Query)
  BY ONLY <1>1, Zenon DEF Query, Labels
<1>3. ASSUME NEW k \in 1..Len(q)
      PROVE  Readable(q[k].name)
  <2>. DEFINE labels == q[k].name
  <2>1. k \in DOMAIN q /\ q[k] \in Query
    BY ONLY <1>2, k \in 1..Len(q)
  <2>2. IsName(labels) /\ labels \in Seq(Seq(Nat))
    BY ONLY <1>1, <2>1 DEF Query, Labels, IsQuery
  <2>. HIDE DEF labels
  <2>3. Len(labels) <= MaxSubstrings /\ \A i \in DOMAIN labels : Len(labels[i]) \in 1..63
    BY ONLY <2>2, Zenon DEF IsName
  <2>4. DOMAIN labels = 1..Len(labels) /\ \A i \in 1..Len(labels) : Len(labels[i]) \in Nat
    BY ONLY <2>2
  <2>5. Readable(labels)
    BY ONLY <2>3, <2>4 DEF Readable
  <2>. QED BY <2>5 DEF labels
<1>. QED BY <1>2, <1>3

\* A datagram with queries in it asks as often as it should.
LEMMA QueryAsks ==
    ASSUME NEW q \in Queries, q # <<>>
    PROVE  Datagram(mdns_multiquery_send(q, 0, FALSE).buf, q).asks = Cardinality(Wanted(q))
<1>1. IsSent(q) /\ Capacity <= InvalidPos
  BY QueriesAssumption, Zenon
<1>2. mdns_multiquery_send(q, 0, FALSE).ok
  BY ONLY <1>1, SentFits
<1>3. q \in Seq(Query) /\ \A k \in 1..Len(q) : Readable(q[k].name)
  BY ONLY <1>1, SentIsRead
<1>. QED BY ONLY <1>1, <1>2, <1>3, q # <<>>, MdnsAssumption, AsksAreWanted

\* An announcement has no queries in it, and a packet of queries asks as it should.
LEMMA DatagramAsks ==
    ASSUME NEW d \in Datagrams, d.queries # <<>>
    PROVE  d.asks = Cardinality(Wanted(d.queries))
<1>1. d \in Arriving
  BY QueriesAssumption, Zenon
<1>2. CASE \E dev \in Devices : d = Datagram(send_announcement([device |-> dev, txt |-> <<>>]).bytes, <<>>)
  <2>1. PICK x, y : d = Datagram(x, y) /\ y = <<>>
    BY <1>2
  <2>2. d.queries = y
    BY <2>1 DEF Datagram
  <2>. QED BY <2>1, <2>2
<1>3. CASE \E q \in Queries : d = Datagram(mdns_multiquery_send(q, 0, FALSE).buf, q)
  <2>1. PICK q, x : q \in Queries /\ d = Datagram(x, q) /\ x = mdns_multiquery_send(q, 0, FALSE).buf
    BY <1>3
  <2>2. d.queries = q
    BY <2>1 DEF Datagram
  <2>3. Datagram(x, q).asks = Cardinality(Wanted(q))
    BY <2>1, <2>2, QueryAsks
  <2>. QED BY <2>1, <2>2, <2>3
<1>. QED BY <1>1, <1>2, <1>3 DEF Arriving

(* mdns_socket_listen and mdns_query_callback: of the questions, all of    *)
(* class IN, in a datagram each one for the service, or for the beginning  *)
(* of its name, is answered, and no other, whatever stands before it, for  *)
(* all queries that are well formed and fit the buffer of the host that    *)
(* sends them.                                                             *)
THEOREM EachQueryAnswered == Spec => []QueriesAnswered
<1>1. HeardInv => QueriesAnswered
  <2>. SUFFICES ASSUME HeardInv, heard # <<>>
                PROVE  answers = Cardinality(Wanted(heard))
    BY DEF QueriesAnswered, Wanted
  <2>1. PICK d \in Datagrams : heard = d.queries /\ answers = d.asks
    BY DEF HeardInv
  <2>. QED BY <2>1, DatagramAsks
<1>. QED BY <1>1, HeardInvInit, HeardInvNext, PTL DEF Spec

=============================================================================
