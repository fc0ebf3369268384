------------------------------ MODULE Zeroconf ------------------------------
(***************************************************************************)
(* Pairing (src/src/zeroconf.c): one zeroconf_session_t, its Bell HTTP     *)
(* server and the phones that POST credentials to it.                      *)
(*                                                                         *)
(* A phone encrypts a blob for the session's Diffie-Hellman key and sends  *)
(* userName, blob and clientKey in one POST.  The POST may arrive cut      *)
(* short: the phone hangs up, or the headers and the body come apart.  The *)
(* session keeps each field until another POST brings a new one, and takes *)
(* the credentials as captured once it has all three.  A field is known by *)
(* the POST it came with; what the blob decrypts to follows from that.     *)
(***************************************************************************)
EXTENDS Integers, Sequences, FiniteSets

CONSTANTS
  Users,      \* the phones' users
  Order,      \* the order of the fields in a POST's body
  MaxGen,     \* bound: sessions made one after another
  MaxPosts,   \* bound: POSTs
  MaxOther,   \* bound: other requests (GET, 404)
  Backlog,    \* connections the listening socket queues (5)
  Damage,     \* may a POST be cut short?
  Stale       \* may it be encrypted for an earlier session's key?

Fields == {"userName", "blob", "clientKey"}

ASSUME ZeroconfAssumption ==
  /\ Users # {} /\ 0 \notin Users
  /\ Order \in [1 .. 3 -> Fields] /\ \A f \in Fields : \E k \in 1 .. 3 : Order[k] = f
  /\ MaxGen \in Nat /\ MaxPosts \in Nat /\ MaxOther \in Nat
  /\ Backlog \in Nat \ {0}
  /\ Damage \in BOOLEAN /\ Stale \in BOOLEAN

VARIABLES
  live,      \* the session is allocated
  gen,       \* which session it is, and so which key pair it holds
  running,   \* s->running
  bell,      \* s->bell is listening
  field,     \* s->username, s->blob_b64, s->client_key_b64
  captured,  \* s->creds_captured
  reading,   \* zeroconf_poll has accepted a connection and waits for its request
  polled,    \* what the last zeroconf_poll returned
  creds,     \* what the last zeroconf_get_credentials returned
  backlog,   \* connections to the bell, in the order they came
  posts,     \* the POSTs phones made: whose, and for which session's key
  others     \* other requests made

session == <<live, gen, running, bell, field, captured>>
caller == <<reading, polled, creds>>
phones == <<backlog, posts, others>>
zvars == <<session, caller, phones>>

None == [post |-> 0, whole |-> FALSE]
Empty == [f \in Fields |-> None]
NoCreds == [ret |-> 1, user |-> 0, auth |-> 0]

\* A request: the first `got` fields of POST `post` in full and the next one
\* not at all, empty, or in part.  `done`: the phone has sent all it will.
Request(post, got, cut, done) ==
  [post |-> post, got |-> got, cut |-> cut, done |-> done]
Other(done) == Request(0, 0, "no", done)

ZInit ==
  /\ live = FALSE /\ gen = 0 /\ running = FALSE /\ bell = FALSE
  /\ field = Empty /\ captured = FALSE
  /\ reading = FALSE /\ polled = 0 /\ creds = NoCreds
  /\ backlog = <<>> /\ posts = <<>> /\ others = 0

-----------------------------------------------------------------------------
(* The session.                                                            *)

\* zeroconf_init: a session of its own, with a new key pair and no fields.
Allocate ==
  /\ live' = TRUE
  /\ gen' = gen + 1
  /\ running' = FALSE /\ bell' = FALSE
  /\ field' = Empty /\ captured' = FALSE

zeroconf_init ==
  /\ ~live /\ gen < MaxGen
  /\ Allocate
  /\ polled' = 0 /\ creds' = NoCreds
  /\ UNCHANGED <<reading, phones>>

\* zeroconf_start: the bell listens, or the port could not be had (-2).  Its
\* only caller, esp_spotify_start, calls it on a session that is not running.
zeroconf_start ==
  /\ live /\ ~running /\ ~reading
  /\ \/ bell' = TRUE /\ running' = TRUE
     \/ UNCHANGED <<bell, running>>
  /\ UNCHANGED <<live, gen, field, captured, caller, phones>>

\* zeroconf_stop: connections still queued are reset with the listening
\* socket; the fields and creds_captured stay.
StopBell == running' = FALSE /\ bell' = FALSE /\ backlog' = <<>>

zeroconf_stop ==
  /\ live /\ ~reading
  /\ StopBell
  /\ UNCHANGED <<live, gen, field, captured, caller, posts, others>>

zeroconf_destroy ==
  /\ live /\ ~reading
  /\ StopBell
  /\ live' = FALSE
  /\ UNCHANGED <<gen, field, captured, caller, posts, others>>

-----------------------------------------------------------------------------
(* zeroconf_poll.                                                          *)

\* Connections are served until the credentials are captured.
Serves == live /\ running /\ ~captured

\* Returns at once without a session or a bell (-1) or with the credentials captured (1),
\* and with nothing to accept after timeout_ms (0).
PollReturns ==
  /\ ~reading
  /\ polled' = CASE ~running             -> -1
                 [] running /\ captured  -> 1
                 [] running /\ ~captured -> 0
  /\ Serves => backlog = <<>>
  /\ UNCHANGED <<session, reading, creds, phones>>

\* Accepts a connection; the request is read from a socket without a timeout.
PollAccepts ==
  /\ Serves /\ ~reading
  /\ backlog # <<>>
  /\ reading' = TRUE
  /\ UNCHANGED <<session, polled, creds, phones>>

\* Where a field is in the body.
Place(f) == CHOOSE k \in 1 .. 3 : Order[k] = f

\* Mutant: the key is looked for under another name.
CopiedWithoutKey(f, r) ==
  IF f # "clientKey" /\ r.post # 0 /\ Place(f) <= r.got
  THEN [post |-> r.post, whole |-> TRUE]
  ELSE field[f]

\* The field after request r: only a parameter that is present is copied, and
\* one whose value was lost is copied as the empty string.
Copied(f, r) ==
  CASE r.post # 0 /\ Place(f) <= r.got -> [post |-> r.post, whole |-> TRUE]
    [] r.cut = "part" /\ Place(f) = r.got + 1 -> [post |-> r.post, whole |-> FALSE]
    [] r.cut = "empty" /\ Place(f) = r.got + 1 -> None
    [] OTHER -> field[f]

\* All three fields are there, whichever POST they came with.
Complete(new) == \A f \in Fields : new[f].post # 0

\* The request has come as far as it will.
RequestRead == Head(backlog).done

\* bell_handle_request, and the end of zeroconf_poll.
bell_handle_request ==
  /\ reading /\ RequestRead
  /\ LET r == Head(backlog) IN
       /\ field' = [f \in Fields |-> Copied(f, r)]
       /\ captured' = (captured \/ (r.post # 0 /\ Complete(field')))
  /\ backlog' = Tail(backlog)
  /\ reading' = FALSE
  /\ polled' = IF captured' THEN 1 ELSE 0
  /\ UNCHANGED <<live, gen, running, bell, creds, posts, others>>

zeroconf_poll == PollReturns \/ PollAccepts

-----------------------------------------------------------------------------
(* zeroconf_get_credentials.                                               *)

PostOf(f) == posts[field[f].post]

\* The blob's MAC is right: the key it was made with is the one these two
\* sides share.
BlobAuthentic ==
  /\ field["blob"].whole /\ field["clientKey"].whole
  /\ field["blob"].post = field["clientKey"].post
  /\ PostOf("blob").gen = gen

\* The name is the one the blob's inner layer is encrypted for.
NameFits ==
  field["userName"].whole /\ PostOf("userName").user = PostOf("blob").user

\* Mutant: the MAC of the blob is not compared, whatever it decrypts to is handed out.
OutcomesWithoutMac ==
  IF BlobAuthentic /\ NameFits
  THEN {[ret |-> 0, user |-> PostOf("userName").user, auth |-> PostOf("blob").user]}
  ELSE {[ret |-> 0, user |-> 0, auth |-> 0]}

\* What can be returned: -3, -1 or -2 when the MAC does not fit (or there is
\* too little to compare); with a wrong name, the inner layer is noise that
\* may not parse (-4) or parses to some authData (0 stands for it).
Outcomes ==
  CASE ~BlobAuthentic -> {[ret |-> r, user |-> 0, auth |-> 0] : r \in {-3, -2, -1}}
    [] BlobAuthentic /\ NameFits ->
         {[ret |-> 0, user |-> PostOf("userName").user, auth |-> PostOf("blob").user]}
    [] BlobAuthentic /\ ~NameFits ->
         {[ret |-> 0, user |-> 0, auth |-> 0], [ret |-> -4, user |-> 0, auth |-> 0]}

zeroconf_get_credentials ==
  /\ live /\ captured /\ ~reading
  /\ creds' \in Outcomes
  /\ UNCHANGED <<session, reading, polled, phones>>

-----------------------------------------------------------------------------
(* The phones.                                                             *)

Arrive(r) == bell /\ Len(backlog) < Backlog /\ backlog' = Append(backlog, r)

Cuts == {"no", "empty", "part"}

\* A POST, whole or cut after some field, by a phone that hangs up when it is
\* done or keeps the connection open.
Post ==
  /\ Len(posts) < MaxPosts
  /\ \E u \in Users, g \in IF Stale THEN 1 .. gen ELSE {gen} :
       posts' = Append(posts, [user |-> u, gen |-> g])
  /\ \E done \in BOOLEAN :
       \/ Arrive(Request(Len(posts'), 3, "no", done))
       \/ /\ Damage
          /\ \E got \in 0 .. 2, cut \in Cuts : Arrive(Request(Len(posts'), got, cut, done))
  /\ UNCHANGED <<session, caller, others>>

\* GET /spotify_info, or a path that is answered with 404.
OtherRequest ==
  /\ others < MaxOther
  /\ others' = others + 1
  /\ \E done \in BOOLEAN : Arrive(Other(done))
  /\ UNCHANGED <<session, caller, posts>>

\* A phone sends the rest of its request or hangs up.
HangUp ==
  /\ \E k \in 1 .. Len(backlog) :
       ~backlog[k].done /\ backlog' = [backlog EXCEPT ![k].done = TRUE]
  /\ UNCHANGED <<session, caller, posts, others>>

-----------------------------------------------------------------------------
Caller ==
  \/ zeroconf_init \/ zeroconf_start \/ zeroconf_stop \/ zeroconf_destroy
  \/ zeroconf_poll \/ bell_handle_request \/ zeroconf_get_credentials

ZNext == Caller \/ Post \/ OtherRequest \/ HangUp

ZSpec == ZInit /\ [][ZNext]_zvars

\* The caller polls until the credentials are captured and then asks for them,
\* as include/internal/zeroconf.h tells it to.
FairCaller ==
  /\ WF_zvars(PollAccepts) /\ WF_zvars(bell_handle_request)
  /\ WF_zvars(zeroconf_get_credentials)

\* The phones are free to do nothing more: none of them has to hang up.
ZFairSpec == ZSpec /\ FairCaller

-----------------------------------------------------------------------------
(* Properties.                                                             *)

\* Credentials handed out are the name and the data of one user.
CredentialsOfOneUser == creds.ret = 0 => creds.user # 0 /\ creds.user = creds.auth

Whole(r) == r.post # 0 /\ r.got = 3 /\ posts[r.post].gen = gen
WholePostWaits == \E k \in 1 .. Len(backlog) : Whole(backlog[k])
Paired == captured /\ creds.ret = 0

\* What was captured from a POST that was cut or made for another session.
Spoiled == captured /\ ~(BlobAuthentic /\ NameFits)

\* zeroconf_poll waits for a request that does not come.
Held == reading /\ ~RequestRead

\* A whole POST at the bell ends in credentials, unless the session stops, a
\* spoiled POST came first, or a phone ahead of it holds its connection open for
\* ever: zeroconf_poll then reads from it without a timeout.
PostPairs ==
  []<>~Held => (WholePostWaits ~> (Paired \/ Spoiled \/ ~running))

-----------------------------------------------------------------------------
(* What the repository says and the code does not keep: refuted.           *)

\* include/internal/zeroconf.h says of zeroconf_poll that it "Blocks for up to
\* timeout_ms waiting for a credential POST": then it returns, whatever phones do.
PollEnds == reading ~> ~reading

=============================================================================
