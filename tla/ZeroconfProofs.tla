--------------------------- MODULE ZeroconfProofs ---------------------------
(***************************************************************************)
(* Pairing, for any users, sessions and requests, cut anywhere and in any  *)
(* number: when phones send the user name first, the name handed out is    *)
(* that of the user whose credentials are.                                 *)
(***************************************************************************)
EXTENDS Zeroconf, TLAPS

\* What the phones send first.
NameFirst == Order[1] = "userName"

Requests == [post : Nat, got : Nat, cut : Cuts, done : BOOLEAN]
Posts == [user : Users, gen : Nat]

\* Requests wait in the order in which they were made.
QueueInv ==
  /\ backlog \in Seq(Requests) /\ posts \in Seq(Posts)
  /\ \A k \in 1 .. Len(backlog) : backlog[k].post <= Len(posts)
  /\ \A i, j \in 1 .. Len(backlog) :
       i < j /\ backlog[i].post # 0 /\ backlog[j].post # 0 => backlog[i].post < backlog[j].post

\* A field came with a POST older than all that still wait.
FieldInv ==
  /\ field \in [Fields -> [post : Nat, whole : BOOLEAN]]
  /\ \A f \in Fields :
       /\ field[f].post <= Len(posts)
       /\ field[f].whole => field[f].post # 0
       /\ \A k \in 1 .. Len(backlog) : backlog[k].post # 0 => field[f].post < backlog[k].post

\* The blob and its key from one POST, both whole: it was whole, its name came
\* with it, and nothing was copied after it.
WholePost ==
  field["blob"].whole /\ field["clientKey"].whole /\ field["blob"].post = field["clientKey"].post
    => captured /\ field["userName"] = field["blob"]

SessionInv ==
  /\ gen \in Nat /\ captured \in BOOLEAN /\ reading \in BOOLEAN
  /\ reading => ~captured /\ backlog # <<>>

PairInv == QueueInv /\ FieldInv /\ WholePost /\ SessionInv /\ CredentialsOfOneUser

-----------------------------------------------------------------------------
(* The order of the fields.                                                *)

LEMMA PlaceRight ==
  ASSUME NEW f \in Fields
  PROVE  Place(f) \in 1 .. 3 /\ Order[Place(f)] = f
<1>1. \E k \in 1 .. 3 : Order[k] = f
  BY ZeroconfAssumption
<1>. QED BY <1>1 DEF Place

\* Of a POST that begins with the name, what has the blob and the key has the name.
LEMMA NameComesWith ==
  ASSUME NameFirst, NEW got \in Nat, Place("blob") <= got, Place("clientKey") <= got
  PROVE  Place("userName") <= got
<1>1. /\ Place("blob") \in 1 .. 3 /\ Order[Place("blob")] = "blob"
      /\ Place("clientKey") \in 1 .. 3 /\ Order[Place("clientKey")] = "clientKey"
      /\ Place("userName") \in 1 .. 3
  BY PlaceRight DEF Fields
<1>2. Place("blob") # 1 /\ Place("clientKey") # 1 /\ Place("blob") # Place("clientKey")
  BY <1>1 DEF NameFirst
<1>. QED BY <1>1, <1>2

LEMMA RequestTyped ==
  \A r \in Requests : r.post \in Nat /\ r.got \in Nat /\ r.cut \in Cuts
BY DEF Requests

LEMMA QueueTyped ==
  ASSUME PairInv
  PROVE  /\ Len(posts) \in Nat /\ Len(backlog) \in Nat
         /\ \A k \in 1 .. Len(backlog) :
              backlog[k] \in Requests /\ backlog[k].post \in Nat /\ backlog[k].post <= Len(posts)
<1>1. backlog \in Seq(Requests) /\ posts \in Seq(Posts)
  BY DEF PairInv, QueueInv
<1>2. Len(posts) \in Nat /\ Len(backlog) \in Nat /\ \A k \in 1 .. Len(backlog) : backlog[k] \in Requests
  BY <1>1
<1>. QED BY <1>2, RequestTyped DEF PairInv, QueueInv

\* What a field is after a request.
LEMMA CopiedCases ==
  ASSUME NEW f \in Fields, NEW r \in Requests
  PROVE  /\ r.post # 0 /\ Place(f) <= r.got => Copied(f, r) = [post |-> r.post, whole |-> TRUE]
         /\ \/ Copied(f, r) = field[f]
            \/ /\ Copied(f, r) = [post |-> r.post, whole |-> TRUE]
               /\ r.post # 0 /\ Place(f) <= r.got
            \/ Copied(f, r) = [post |-> r.post, whole |-> FALSE]
            \/ Copied(f, r) = [post |-> 0, whole |-> FALSE]
<1>1. Place(f) \in Nat /\ r.got \in Nat
  BY PlaceRight, RequestTyped
<1>2. CASE r.post # 0 /\ Place(f) <= r.got
  <2>1. Place(f) # r.got + 1
    BY <1>1, <1>2
  <2>. QED BY <1>2, <2>1 DEF Copied
<1>3. CASE ~(r.post # 0 /\ Place(f) <= r.got)
  <2>1. CASE r.cut = "part" /\ Place(f) = r.got + 1
    BY <1>3, <2>1 DEF Copied
  <2>2. CASE r.cut = "empty" /\ Place(f) = r.got + 1
    BY <1>3, <2>2 DEF Copied, None
  <2>3. CASE ~(r.cut = "part" /\ Place(f) = r.got + 1) /\ ~(r.cut = "empty" /\ Place(f) = r.got + 1)
    BY <1>3, <2>3 DEF Copied
  <2>. QED BY <1>3, <2>1, <2>2, <2>3
<1>. QED BY <1>2, <1>3

-----------------------------------------------------------------------------

LEMMA PairInvInit == ZInit => PairInv
<1>. SUFFICES ASSUME ZInit
              PROVE  PairInv
  OBVIOUS
<1>1. backlog = <<>> /\ posts = <<>> /\ gen = 0 /\ captured = FALSE /\ reading = FALSE
      /\ field = Empty /\ creds = NoCreds
  BY DEF ZInit
<1>2. QueueInv
  BY <1>1 DEF QueueInv
<1>3. FieldInv
  BY <1>1 DEF FieldInv, Empty, None
<1>4. WholePost
  BY <1>1 DEF WholePost, Empty, None, Fields
<1>5. SessionInv
  BY <1>1 DEF SessionInv
<1>6. CredentialsOfOneUser
  <2>1. creds.ret = 1
    BY <1>1 DEF NoCreds
  <2>. QED BY <2>1 DEF CredentialsOfOneUser
<1>. QED BY <1>2, <1>3, <1>4, <1>5, <1>6 DEF PairInv

\* A session begins with no field; what waits at the old bell is left as it is.
LEMMA InitKeeps ==
  ASSUME PairInv, zeroconf_init
  PROVE  PairInv'
<1>1. /\ field' = Empty /\ captured' = FALSE /\ creds' = NoCreds /\ gen' = gen + 1
      /\ UNCHANGED <<reading, backlog, posts>>
  BY DEF zeroconf_init, Allocate, phones
<1>2. QueueInv'
  BY <1>1 DEF PairInv, QueueInv
<1>3. FieldInv'
  <2>1. field' \in [Fields -> [post : Nat, whole : BOOLEAN]]
    BY <1>1 DEF Empty, None
  <2>2. \A f \in Fields : field'[f].post = 0 /\ ~field'[f].whole
    BY <1>1 DEF Empty, None
  <2>3. Len(posts') \in Nat
        /\ \A k \in 1 .. Len(backlog') : backlog'[k].post # 0 => 0 < backlog'[k].post
    BY <1>1, QueueTyped
  <2>. QED BY <2>1, <2>2, <2>3 DEF FieldInv
<1>4. WholePost'
  BY <1>1 DEF WholePost, Empty, None, Fields
<1>5. SessionInv'
  <2>1. gen' \in Nat
    BY <1>1 DEF PairInv, SessionInv
  <2>. QED BY <1>1, <2>1 DEF PairInv, SessionInv
<1>6. CredentialsOfOneUser'
  <2>1. creds'.ret = 1
    BY <1>1 DEF NoCreds
  <2>. QED BY <2>1 DEF CredentialsOfOneUser
<1>. QED BY <1>2, <1>3, <1>4, <1>5, <1>6 DEF PairInv

\* The bell stops, and what waits is gone.
LEMMA StopKeeps ==
  ASSUME PairInv, ~reading, StopBell,
         UNCHANGED <<gen, field, captured, reading, creds, posts>>
  PROVE  PairInv'
<1>1. backlog' = <<>>
  BY DEF StopBell
<1>2. QueueInv'
  BY <1>1 DEF PairInv, QueueInv
<1>3. FieldInv'
  BY <1>1 DEF PairInv, FieldInv
<1>. QED BY <1>2, <1>3 DEF PairInv, WholePost, SessionInv, CredentialsOfOneUser

\* The bell copies what a request brings.
LEMMA RequestKeeps ==
  ASSUME NameFirst, PairInv, bell_handle_request
  PROVE  PairInv'
<1>. DEFINE r == Head(backlog)
            rest == Tail(backlog)
<1>1. /\ reading
      /\ field' = [f \in Fields |-> Copied(f, r)]
      /\ captured' = (captured \/ (r.post # 0 /\ Complete(field')))
      /\ backlog' = rest /\ reading' = FALSE
      /\ UNCHANGED <<gen, creds, posts>>
  BY DEF bell_handle_request
<1>2. ~captured /\ backlog # <<>> /\ backlog \in Seq(Requests)
  BY <1>1 DEF PairInv, SessionInv, QueueInv
<1>3. /\ r = backlog[1] /\ r \in Requests /\ 1 \in 1 .. Len(backlog)
      /\ rest \in Seq(Requests) /\ Len(rest) = Len(backlog) - 1
      /\ \A k \in 1 .. Len(rest) : rest[k] = backlog[k + 1] /\ k + 1 \in 1 .. Len(backlog)
  BY <1>2
<1>. HIDE DEF r, rest
<1>4. r.post \in Nat /\ r.got \in Nat /\ r.cut \in Cuts /\ r.post <= Len(posts)
  BY <1>3 DEF PairInv, QueueInv, Requests
<1>5. \A f \in Fields : r.post # 0 => field[f].post < r.post
  BY <1>3 DEF PairInv, FieldInv
<1>6. \A k \in 1 .. Len(rest) :
        rest[k].post # 0 /\ r.post # 0 => r.post < rest[k].post
  <2>. SUFFICES ASSUME NEW k \in 1 .. Len(rest), rest[k].post # 0, r.post # 0
                PROVE  r.post < rest[k].post
    OBVIOUS
  <2>1. rest[k] = backlog[k + 1] /\ k + 1 \in 1 .. Len(backlog) /\ 1 < k + 1
    BY <1>3
  <2>. QED BY <1>3, <2>1 DEF PairInv, QueueInv
<1>7. QueueInv'
  <2>1. \A k \in 1 .. Len(rest) : rest[k].post <= Len(posts)
    BY <1>3 DEF PairInv, QueueInv
  <2>2. \A i, j \in 1 .. Len(rest) :
          i < j /\ rest[i].post # 0 /\ rest[j].post # 0 => rest[i].post < rest[j].post
    <3>. SUFFICES ASSUME NEW i \in 1 .. Len(rest), NEW j \in 1 .. Len(rest), i < j,
                         rest[i].post # 0, rest[j].post # 0
                  PROVE  rest[i].post < rest[j].post
      OBVIOUS
    <3>1. /\ rest[i] = backlog[i + 1] /\ i + 1 \in 1 .. Len(backlog)
          /\ rest[j] = backlog[j + 1] /\ j + 1 \in 1 .. Len(backlog) /\ i + 1 < j + 1
      BY <1>3
    <3>. QED BY <3>1 DEF PairInv, QueueInv
  <2>. QED BY <1>1, <1>3, <2>1, <2>2 DEF PairInv, QueueInv
<1>8. ASSUME NEW f \in Fields
      PROVE  \/ field'[f] = field[f]
             \/ /\ field'[f] = [post |-> r.post, whole |-> TRUE]
                /\ r.post # 0 /\ Place(f) <= r.got
             \/ field'[f] = [post |-> r.post, whole |-> FALSE]
             \/ field'[f] = [post |-> 0, whole |-> FALSE]
  <2>1. field'[f] = Copied(f, r) /\ r \in Requests
    BY <1>1, <1>3
  <2>. QED BY <2>1, CopiedCases
<1>9. FieldInv'
  <2>1. ASSUME NEW f \in Fields
        PROVE  /\ field'[f] \in [post : Nat, whole : BOOLEAN]
               /\ field'[f].post <= Len(posts)
               /\ field'[f].whole => field'[f].post # 0
               /\ \A k \in 1 .. Len(rest) : rest[k].post # 0 => field'[f].post < rest[k].post
    <3>0. \A k \in 1 .. Len(rest) : rest[k].post \in Nat
      BY <1>3, RequestTyped
    <3>1. /\ field[f] \in [post : Nat, whole : BOOLEAN] /\ field[f].post <= Len(posts)
          /\ field[f].whole => field[f].post # 0
          /\ \A k \in 1 .. Len(rest) : rest[k].post # 0 => field[f].post < rest[k].post
      BY <1>3 DEF PairInv, FieldInv
    <3>2. Len(posts) \in Nat
      BY DEF PairInv, QueueInv
    <3>3. CASE field'[f] = field[f]
      BY <3>1, <3>3
    <3>4. ASSUME NEW w \in BOOLEAN, field'[f] = [post |-> r.post, whole |-> w],
                 w => r.post # 0
          PROVE  /\ field'[f] \in [post : Nat, whole : BOOLEAN]
                 /\ field'[f].post <= Len(posts)
                 /\ field'[f].whole => field'[f].post # 0
                 /\ \A k \in 1 .. Len(rest) : rest[k].post # 0 => field'[f].post < rest[k].post
      <4>1. \A k \in 1 .. Len(rest) : rest[k].post # 0 => r.post < rest[k].post
        BY <1>4, <1>6, <3>0
      <4>. QED BY <1>4, <3>4, <4>1
    <3>5. CASE field'[f] = [post |-> 0, whole |-> FALSE]
      BY <3>0, <3>2, <3>5
    <3>. QED BY <1>8, <3>3, <3>4, <3>5
  <2>2. field' \in [Fields -> [post : Nat, whole : BOOLEAN]]
    BY <1>1, <2>1
  <2>. QED BY <1>1, <2>1, <2>2 DEF FieldInv
<1>10. WholePost'
  <2>. SUFFICES ASSUME field'["blob"].whole, field'["clientKey"].whole,
                       field'["blob"].post = field'["clientKey"].post
                PROVE  captured' /\ field'["userName"] = field'["blob"]
    BY DEF WholePost
  <2>1. "blob" \in Fields /\ "clientKey" \in Fields /\ "userName" \in Fields
    BY DEF Fields
  <2>2. \/ field'["blob"] = field["blob"]
        \/ field'["blob"] = [post |-> r.post, whole |-> TRUE] /\ r.post # 0 /\ Place("blob") <= r.got
    <3>. DEFINE new == field'["blob"]
    <3>1. /\ [post |-> r.post, whole |-> FALSE].whole = FALSE
          /\ [post |-> 0, whole |-> FALSE].whole = FALSE
      OBVIOUS
    <3>2. \/ new = field["blob"]
          \/ new = [post |-> r.post, whole |-> TRUE] /\ r.post # 0 /\ Place("blob") <= r.got
          \/ new = [post |-> r.post, whole |-> FALSE]
          \/ new = [post |-> 0, whole |-> FALSE]
      BY <1>8, <2>1
    <3>3. new.whole
      OBVIOUS
    <3>. HIDE DEF new
    <3>4. \/ new = field["blob"]
          \/ new = [post |-> r.post, whole |-> TRUE] /\ r.post # 0 /\ Place("blob") <= r.got
      BY ONLY <3>1, <3>2, <3>3
    <3>. QED BY <3>4 DEF new
  <2>3. \/ field'["clientKey"] = field["clientKey"]
        \/ field'["clientKey"] = [post |-> r.post, whole |-> TRUE] /\ r.post # 0
           /\ Place("clientKey") <= r.got
    <3>. DEFINE new == field'["clientKey"]
    <3>1. /\ [post |-> r.post, whole |-> FALSE].whole = FALSE
          /\ [post |-> 0, whole |-> FALSE].whole = FALSE
      OBVIOUS
    <3>2. \/ new = field["clientKey"]
          \/ new = [post |-> r.post, whole |-> TRUE] /\ r.post # 0 /\ Place("clientKey") <= r.got
          \/ new = [post |-> r.post, whole |-> FALSE]
          \/ new = [post |-> 0, whole |-> FALSE]
      BY <1>8, <2>1
    <3>3. new.whole
      OBVIOUS
    <3>. HIDE DEF new
    <3>4. \/ new = field["clientKey"]
          \/ new = [post |-> r.post, whole |-> TRUE] /\ r.post # 0 /\ Place("clientKey") <= r.got
      BY ONLY <3>1, <3>2, <3>3
    <3>. QED BY <3>4 DEF new
  <2>4. CASE field'["blob"] = field["blob"] /\ field'["clientKey"] = field["clientKey"]
    BY <1>2, <2>4 DEF PairInv, WholePost
  <2>5. CASE field'["blob"] = field["blob"] /\ field'["clientKey"].post = r.post /\ r.post # 0
    <3>1. field["blob"].post < r.post /\ field["blob"].post \in Nat
      BY <1>5, <2>1, <2>5 DEF PairInv, FieldInv
    <3>. QED BY <1>4, <2>5, <3>1
  <2>6. CASE field'["clientKey"] = field["clientKey"] /\ field'["blob"].post = r.post /\ r.post # 0
    <3>1. field["clientKey"].post < r.post /\ field["clientKey"].post \in Nat
      BY <1>5, <2>1, <2>6 DEF PairInv, FieldInv
    <3>. QED BY <1>4, <2>6, <3>1
  <2>7. CASE /\ field'["blob"] = [post |-> r.post, whole |-> TRUE]
             /\ field'["clientKey"] = [post |-> r.post, whole |-> TRUE]
             /\ r.post # 0 /\ Place("blob") <= r.got /\ Place("clientKey") <= r.got
    <3>1. Place("userName") <= r.got
      BY <1>4, <2>7, NameComesWith
    <3>2. field'["userName"] = [post |-> r.post, whole |-> TRUE]
      <4>1. field'["userName"] = Copied("userName", r) /\ r \in Requests
        BY <1>1, <1>3, <2>1
      <4>. QED BY <2>1, <2>7, <3>1, <4>1, CopiedCases
    <3>3. Complete(field')
      BY <2>7, <3>2 DEF Complete, Fields
    <3>. QED BY <1>1, <2>7, <3>2, <3>3
  <2>. QED BY <2>2, <2>3, <2>4, <2>5, <2>6, <2>7
<1>11. SessionInv'
  BY <1>1 DEF PairInv, SessionInv
<1>. QED BY <1>1, <1>7, <1>9, <1>10, <1>11 DEF PairInv, CredentialsOfOneUser

\* What is handed out: the MAC is right only when blob and key are of one POST.
LEMMA CredentialsKeep ==
  ASSUME PairInv, zeroconf_get_credentials
  PROVE  PairInv'
<1>1. creds' \in Outcomes /\ captured
      /\ UNCHANGED <<gen, field, captured, reading, backlog, posts>>
  BY DEF zeroconf_get_credentials, session, phones
<1>2. CASE BlobAuthentic
  <2>1. field["userName"] = field["blob"] /\ field["blob"].whole
    BY <1>2 DEF BlobAuthentic, PairInv, WholePost
  <2>2. PostOf("userName") = PostOf("blob") /\ PostOf("blob").user \in Users
    <3>1. "blob" \in Fields /\ Len(posts) \in Nat
      BY QueueTyped DEF Fields
    <3>2. field["blob"].post \in 1 .. Len(posts)
      <4>1. field["blob"].post \in Nat /\ field["blob"].post <= Len(posts) /\ field["blob"].post # 0
        BY <2>1, <3>1 DEF PairInv, FieldInv
      <4>. QED BY <3>1, <4>1
    <3>3. posts[field["blob"].post] \in Posts
      BY <3>2 DEF PairInv, QueueInv
    <3>4. \A p \in Posts : p.user \in Users
      BY DEF Posts
    <3>. QED BY <2>1, <3>3, <3>4 DEF PostOf
  <2>3. NameFits
    BY <2>1, <2>2 DEF NameFits
  <2>4. creds' = [ret |-> 0, user |-> PostOf("userName").user, auth |-> PostOf("blob").user]
    BY <1>1, <1>2, <2>3 DEF Outcomes
  <2>. QED BY <2>2, <2>4, ZeroconfAssumption, <1>1
           DEF CredentialsOfOneUser, PairInv, QueueInv, FieldInv, WholePost, SessionInv
<1>3. CASE ~BlobAuthentic
  <2>1. creds' \in {[ret |-> r, user |-> 0, auth |-> 0] : r \in {-3, -2, -1}}
    BY <1>1, <1>3 DEF Outcomes
  <2>2. creds'.ret # 0
    BY <2>1
  <2>. QED BY <1>1, <2>2 DEF CredentialsOfOneUser, PairInv, QueueInv, FieldInv, WholePost, SessionInv
<1>. QED BY <1>2, <1>3

\* A request comes last in the queue, and with the newest POST.
LEMMA ArrivalKeeps ==
  ASSUME PairInv, NEW r \in Requests, Arrive(r),
         posts' \in Seq(Posts), Len(posts') >= Len(posts),
         r.post = 0 \/ (r.post = Len(posts') /\ Len(posts') > Len(posts)),
         UNCHANGED <<gen, field, captured, reading, creds>>
  PROVE  PairInv'
<1>1. backlog \in Seq(Requests) /\ backlog' = Append(backlog, r)
  BY DEF Arrive, PairInv, QueueInv
<1>2. /\ backlog' \in Seq(Requests) /\ Len(backlog') = Len(backlog) + 1
      /\ backlog'[Len(backlog) + 1] = r
      /\ \A k \in 1 .. Len(backlog) : backlog'[k] = backlog[k]
  BY <1>1
<1>3. Len(posts) \in Nat /\ Len(posts') \in Nat /\ Len(backlog) \in Nat
      /\ r.post \in Nat
      /\ \A k \in 1 .. Len(backlog) : backlog[k].post \in Nat /\ backlog[k].post <= Len(posts)
  BY QueueTyped, RequestTyped
<1>4. \A k \in 1 .. Len(backlog') : k \in 1 .. Len(backlog) \/ k = Len(backlog) + 1
  BY <1>2, <1>3
<1>5. QueueInv'
  <2>1. \A k \in 1 .. Len(backlog') : backlog'[k].post <= Len(posts')
    BY <1>2, <1>3, <1>4
  <2>2. ASSUME NEW i \in 1 .. Len(backlog'), NEW j \in 1 .. Len(backlog'), i < j,
               backlog'[i].post # 0, backlog'[j].post # 0
        PROVE  backlog'[i].post < backlog'[j].post
    <3>1. CASE j \in 1 .. Len(backlog)
      <4>1. i \in 1 .. Len(backlog)
        BY <1>3, <2>2, <3>1
      <4>2. backlog[i].post < backlog[j].post
        BY <1>2, <2>2, <3>1, <4>1 DEF PairInv, QueueInv
      <4>. QED BY <1>2, <3>1, <4>1, <4>2
    <3>2. CASE j = Len(backlog) + 1
      <4>1. i \in 1 .. Len(backlog) /\ backlog'[i] = backlog[i] /\ backlog'[j] = r
        BY <1>2, <1>3, <1>4, <2>2, <3>2
      <4>. QED BY <1>3, <2>2, <4>1
    <3>. QED BY <1>4, <3>1, <3>2
  <2>. QED BY <1>2, <2>1, <2>2 DEF QueueInv
<1>6. FieldInv'
  <2>1. ASSUME NEW f \in Fields
        PROVE  /\ field[f].post <= Len(posts')
               /\ field[f].whole => field[f].post # 0
               /\ \A k \in 1 .. Len(backlog') :
                    backlog'[k].post # 0 => field[f].post < backlog'[k].post
    <3>1. field[f].post \in Nat /\ field[f].post <= Len(posts)
          /\ (field[f].whole => field[f].post # 0)
          /\ \A k \in 1 .. Len(backlog) : backlog[k].post # 0 => field[f].post < backlog[k].post
      BY DEF PairInv, FieldInv
    <3>. QED BY <1>2, <1>3, <1>4, <3>1
  <2>. QED BY <2>1 DEF PairInv, FieldInv
<1>7. SessionInv'
  BY <1>2, <1>3 DEF PairInv, SessionInv
<1>. QED BY <1>5, <1>6, <1>7 DEF PairInv, WholePost, CredentialsOfOneUser

LEMMA PostKeeps ==
  ASSUME PairInv, Post
  PROVE  PairInv'
<1>1. PICK u \in Users, g \in (IF Stale THEN 1 .. gen ELSE {gen}) :
        posts' = Append(posts, [user |-> u, gen |-> g])
  BY DEF Post
<1>2. g \in Nat
  BY DEF PairInv, SessionInv
<1>3. posts' \in Seq(Posts) /\ Len(posts') = Len(posts) + 1 /\ Len(posts) \in Nat
  BY <1>1, <1>2 DEF PairInv, QueueInv, Posts
<1>4. PICK r \in Requests : Arrive(r) /\ r.post = Len(posts')
  <2>1. PICK done \in BOOLEAN :
          \/ Arrive(Request(Len(posts'), 3, "no", done))
          \/ \E got \in 0 .. 2, cut \in Cuts : Arrive(Request(Len(posts'), got, cut, done))
    BY DEF Post
  <2>2. CASE Arrive(Request(Len(posts'), 3, "no", done))
    BY <1>3, <2>2 DEF Request, Requests, Cuts
  <2>3. CASE \E got \in 0 .. 2, cut \in Cuts : Arrive(Request(Len(posts'), got, cut, done))
    <3>1. PICK got \in 0 .. 2, cut \in Cuts : Arrive(Request(Len(posts'), got, cut, done))
      BY <2>3
    <3>. QED BY <1>3, <3>1 DEF Request, Requests
  <2>. QED BY <2>1, <2>2, <2>3
<1>5. UNCHANGED <<gen, field, captured, reading, creds>>
  BY DEF Post, session, caller
<1>. QED BY <1>3, <1>4, <1>5, ArrivalKeeps

LEMMA OtherKeeps ==
  ASSUME PairInv, OtherRequest
  PROVE  PairInv'
<1>1. PICK done \in BOOLEAN : Arrive(Other(done))
  BY DEF OtherRequest
<1>2. Other(done) \in Requests /\ Other(done).post = 0
  BY DEF Other, Request, Requests, Cuts
<1>3. posts' \in Seq(Posts) /\ Len(posts') >= Len(posts)
      /\ UNCHANGED <<gen, field, captured, reading, creds>>
  BY DEF OtherRequest, session, caller, PairInv, QueueInv
<1>. QED BY <1>1, <1>2, <1>3, ArrivalKeeps

LEMMA HangUpKeeps ==
  ASSUME PairInv, HangUp
  PROVE  PairInv'
<1>1. PICK k \in 1 .. Len(backlog) : backlog' = [backlog EXCEPT ![k].done = TRUE]
  BY DEF HangUp
<1>2. backlog \in Seq(Requests)
  BY DEF PairInv, QueueInv
<1>3. /\ backlog' \in Seq(Requests) /\ Len(backlog') = Len(backlog)
      /\ \A i \in 1 .. Len(backlog) : backlog'[i].post = backlog[i].post
  <2>1. backlog[k] \in Requests /\ [backlog[k] EXCEPT !.done = TRUE] \in Requests
    <3>1. backlog[k] \in Requests
      BY <1>2
    <3>2. \A q \in Requests : [q EXCEPT !.done = TRUE] \in Requests
      BY DEF Requests
    <3>. QED BY <3>1, <3>2
  <2>2. backlog' = [backlog EXCEPT ![k] = [backlog[k] EXCEPT !.done = TRUE]]
    BY <1>1
  <2>3. [backlog[k] EXCEPT !.done = TRUE].post = backlog[k].post
    BY <2>1 DEF Requests
  <2>. QED BY <1>2, <2>1, <2>2, <2>3
<1>4. UNCHANGED <<gen, field, captured, reading, creds, posts>>
  BY DEF HangUp, session, caller
<1>5. QueueInv'
  BY <1>3, <1>4 DEF PairInv, QueueInv
<1>6. FieldInv'
  BY <1>3, <1>4 DEF PairInv, FieldInv
<1>7. SessionInv'
  BY <1>2, <1>3, <1>4 DEF PairInv, SessionInv
<1>. QED BY <1>4, <1>5, <1>6, <1>7 DEF PairInv, WholePost, CredentialsOfOneUser

\* What looks only at the session, or starts its bell, or accepts a connection.
LEMMA OthersKeep ==
  ASSUME PairInv, UNCHANGED <<gen, field, captured, creds, backlog, posts>>,
         reading' = reading \/ (reading' = TRUE /\ Serves /\ backlog # <<>>)
  PROVE  PairInv'
<1>1. QueueInv' /\ FieldInv'
  BY DEF PairInv, QueueInv, FieldInv
<1>2. WholePost' /\ CredentialsOfOneUser'
  BY DEF PairInv, WholePost, CredentialsOfOneUser
<1>3. SessionInv'
  <2>1. reading' \in BOOLEAN /\ gen' \in Nat /\ captured' \in BOOLEAN
    BY DEF PairInv, SessionInv
  <2>2. reading' => ~captured' /\ backlog' # <<>>
    BY DEF PairInv, SessionInv, Serves
  <2>. QED BY <2>1, <2>2 DEF SessionInv
<1>. QED BY <1>1, <1>2, <1>3 DEF PairInv

LEMMA PairInvNext == NameFirst /\ PairInv /\ [ZNext]_zvars => PairInv'
<1>. SUFFICES ASSUME NameFirst, PairInv, [ZNext]_zvars
              PROVE  PairInv'
  OBVIOUS
<1>1. CASE zeroconf_init
  BY <1>1, InitKeeps
<1>2. CASE zeroconf_stop \/ zeroconf_destroy
  BY <1>2, StopKeeps DEF zeroconf_stop, zeroconf_destroy, caller
<1>3. CASE zeroconf_start \/ PollReturns \/ PollAccepts \/ UNCHANGED zvars
  BY <1>3, OthersKeep
     DEF zeroconf_start, PollReturns, PollAccepts, zvars, session, caller, phones
<1>4. CASE bell_handle_request
  BY <1>4, RequestKeeps
<1>5. CASE zeroconf_get_credentials
  BY <1>5, CredentialsKeep
<1>6. CASE Post
  BY <1>6, PostKeeps
<1>7. CASE OtherRequest
  BY <1>7, OtherKeeps
<1>8. CASE HangUp
  BY <1>8, HangUpKeeps
<1>. QED BY <1>1, <1>2, <1>3, <1>4, <1>5, <1>6, <1>7, <1>8 DEF ZNext, Caller, zeroconf_poll

(* When phones send the name first, zeroconf_get_credentials never hands   *)
(* out the name of one user with the data of another, whatever requests    *)
(* are cut, left half sent or made for an earlier session's key.           *)
THEOREM OneUser == NameFirst => (ZSpec => []CredentialsOfOneUser)
<1>. SUFFICES ASSUME NameFirst
              PROVE  ZSpec => []CredentialsOfOneUser
  OBVIOUS
<1>1. PairInv => CredentialsOfOneUser
  BY DEF PairInv
<1>. QED BY <1>1, PairInvInit, PairInvNext, PTL DEF ZSpec

=============================================================================
