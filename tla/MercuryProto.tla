---------------------------- MODULE MercuryProto ----------------------------
(***************************************************************************)
(* The messages of the login handshake (src/src/mercury.c): the protocol   *)
(* buffer writer and the parser written for it, the packets around them,   *)
(* and the keys both ends make from the packets they saw.  The access      *)
(* point is external; it reads and writes with nanopb (PbMessage), as the  *)
(* comments of the code say the original does.                             *)
(*                                                                         *)
(* A Diffie-Hellman secret is the pair of the public keys, a digest is     *)
(* DigestLen symbols that name what was hashed and with which key.         *)
(* Messages of 2^30 bytes and more are not among the inputs, nor are       *)
(* varints of ten bytes and more: as a length one can wrap round when it   *)
(* is added to the position, and the shift of an eleventh is undefined.    *)
(*                                                                         *)
(* The APWelcome comes through mercury_recv, which decrypts a header and a *)
(* body apart: of the body its first byte is what was sent and the rest is *)
(* noise (FirstWordReadBack and FrameReadBack of Shannon), so what the     *)
(* parser reads is any bytes of that length.                               *)
(***************************************************************************)
EXTENDS PbStream

CONSTANTS
    Calls,      \* [auth, user] of mercury_login5, where auth is [type, blob]
    Users,      \* names in a welcome (byte sequences without zero, or empty)
    ServerKeys, \* the gs an access point may answer with
    Extra,      \* fields (as bytes) this client does not know, and <<>>
    Creds,      \* reusable credentials
    Garbled,    \* ArMax bytes each: what rx_data may hold of a decrypted body
    DhLen,      \* 96 in the code
    DigestLen,  \* 20; a key is KeyLen of the symbols
    KeyLen,     \* 32
    AuthMin,    \* 10
    AuthMax,    \* 2048: sizeof(auth_data), and the same of b64_buf
    ArMax,      \* 4096: sizeof(ar_buf) and sizeof(rx_data)
    NameMax,    \* 255: sizeof(canonical_username) - 1
    CredMax     \* 2048: sizeof(stored_cred)

ASSUME ProtoAssumption ==
    /\ {DhLen, DigestLen, KeyLen, AuthMin, NameMax, CredMax} \subseteq Nat \ {0}
    /\ AuthMax \in Nat /\ AuthMax > 5 /\ ArMax \in Nat /\ ArMax >= 8
    /\ DigestLen + 2 * KeyLen <= 5 * DigestLen
    /\ Users \subseteq Seq(Octet) /\ Creds \subseteq Seq(Octet) /\ Extra \subseteq Seq(Octet)
    /\ \A v \in Users \cup Creds : Len(v) + 4 <= PB_SIZE_MAX
    /\ Garbled \subseteq Seq(Octet) /\ \A w \in Garbled : Len(w) = ArMax
    /\ ServerKeys \subseteq Seq(Octet)
    /\ \A gs \in ServerKeys, u \in Extra : Len(gs) + Len(u) + 20 <= PB_SIZE_MAX
    /\ DigestLen + 12 <= PB_SIZE_MAX

\* Of nine bytes one ends a varint.
ASSUME VarintAssumption ==
    \A w \in Garbled \cup Extra : \A i \in 1..(Len(w) - 8) : \E k \in 0..8 : 7 \notin w[i + k]

VARIABLES phase,    \* how far mercury_login5 is
          args,     \* [auth, user] of the call
          hello,    \* hello_pkt, as it was written
          apr,      \* what the access point answered: [gs, extra, pkt]
          resp,     \* the ClientResponse on the wire
          login,    \* the LoginRequest handed to mercury_send
          keys,     \* send_key and recv_key
          aw,       \* the APWelcome: [sent, read], the bytes of each end
          session   \* canonical_username and stored_cred

protoVars == <<phase, args, hello, apr, resp, login, keys, aw, session>>

None == [none |-> TRUE]

-----------------------------------------------------------------------------
(* The writer.  pb_grow keeps the buffer ahead of every write.             *)

pb_varint_enc(w) ==
    LET n == Max({0} \cup {b \div 7 : b \in w})
    IN  [i \in 1..(n + 1) |-> Chunk(w, 7 * (i - 1)) \cup (IF i <= n THEN {7} ELSE {})]

\* Mutant: a tag is one byte, as in raw_pb_varint.
TagOfOneByte(b, fn, wt) == Append(b, (Shl(Bits(fn), 3) \cup Bits(wt)) \cap 0..7)

pb_tag(b, fn, wt) == b \o pb_varint_enc(Shl(Bits(fn), 3) \cup Bits(wt))

pb_varint(b, fn, w) == pb_tag(b, fn, WT_VARINT) \o pb_varint_enc(w)

pb_bytes(b, fn, d) == pb_tag(b, fn, WT_STRING) \o pb_varint_enc(Bits(Len(d))) \o d

\* The texts the messages carry, as one byte each.
Text(b) == <<b>>
SystemText == Text({0, 5, 6})
DeviceText == Text({2, 5, 6})
VersionText == Text({1, 5, 6})

Version == {35, 40}     \* 0x10800000000

build_client_hello(gc, nonce) ==
    LET info == pb_varint(pb_varint(pb_varint(<<>>, 10, {}), 30, {1}), 40, Version)
        dh == pb_varint(pb_bytes(<<>>, 10, gc), 20, {0})
    IN  pb_bytes(<<>>, 10, info)
        \o pb_varint(<<>>, 30, {})
        \o pb_bytes(<<>>, 50, pb_bytes(<<>>, 10, dh))
        \o pb_bytes(<<>>, 60, nonce)
        \o pb_bytes(<<>>, 70, <<{1, 2, 3, 4}>>)
        \o pb_bytes(<<>>, 80, pb_varint(<<>>, 1, {0}))

build_client_resp(hmac) ==
    pb_bytes(<<>>, 10, pb_bytes(<<>>, 10, pb_bytes(<<>>, 10, hmac)))

\* LoginCredentials: no user name where there is none.
LoginCredentials(user, type, auth) ==
    LET name == IF user # <<>> THEN pb_bytes(<<>>, 10, user) ELSE <<>>
    IN  pb_bytes(pb_varint(name, 20, Bits(type)), 30, auth)

build_login_request(auth, type, user) ==
    LET si == pb_bytes(pb_bytes(pb_varint(pb_varint(<<>>, 10, {}), 60, {}), 90, SystemText),
                       100, DeviceText)
    IN  pb_bytes(pb_bytes(pb_bytes(<<>>, 10, LoginCredentials(user, type, auth)), 50, si),
                 70, VersionText)

-----------------------------------------------------------------------------
(* The parser: p bytes of d are behind, s is where the reader ends.        *)

Reader(d, p, s) == [d |-> d, p |-> p, s |-> s]

\* The varint at p: [v, r], cut short where the reader ends.
pb_read_varint_raw(r) ==
    LET ends == {n \in 1..(r.s - r.p) : 7 \notin r.d[r.p + n]}
        Cut(n) == [v |-> (UNION {Shl(r.d[r.p + k] \ {7}, 7 * (k - 1)) : k \in 1..n}) \cap 0..63,
                    r |-> [r EXCEPT !.p = @ + n]]
    IN  Cut(Min(ends \cup {r.s - r.p}))

\* A field number and a wire type, as bits; none at the end.
pb_read_tag(r) ==
    LET Tag(t) == [more |-> TRUE, fn |-> Shr(t.v, 3) \cap 0..31, wt |-> t.v \cap 0..2, r |-> t.r]
    IN  IF r.p >= r.s THEN [more |-> FALSE] ELSE Tag(pb_read_varint_raw(r))

IsField(t, fn, wt) == t.fn = Bits(fn) /\ t.wt = Bits(wt)

pb_read_ldelim(r) ==
    LET Cut(at, len) ==
            IF at.p + len <= at.s
            THEN [sub |-> Reader(SubSeq(at.d, at.p + 1, at.p + len), 0, len),
                  r |-> [at EXCEPT !.p = @ + len]]
            ELSE [sub |-> Reader(<<>>, 0, 0), r |-> [at EXCEPT !.p = at.s]]
        Delimits(t) == Cut(t.r, Length(t.v))
    IN  Delimits(pb_read_varint_raw(r))

\* Mutant: where the reader ends is not looked at; what is behind it is stale.
CopyPastTheEnd(r, max) ==
    LET Cut(at, len) ==
            [v |-> [i \in 1..len |-> IF at.p + i <= at.s THEN at.d[at.p + i] ELSE NullArg],
             r |-> [at EXCEPT !.p = Min({@ + len, at.s})]]
        Copy(t) == Cut(t.r, Min({Length(t.v), max}))
    IN  Copy(pb_read_varint_raw(r))

\* At most max bytes; what a longer field has left is not passed over.
pb_read_bytes_copy(r, max) ==
    LET Cut(at, len) ==
            IF at.p + len <= at.s
            THEN [v |-> SubSeq(at.d, at.p + 1, at.p + len), r |-> [at EXCEPT !.p = @ + len]]
            ELSE [v |-> <<>>, r |-> at]
        Copy(t) == Cut(t.r, Min({Length(t.v), max}))
    IN  Copy(pb_read_varint_raw(r))

\* The last byte of a tag has no continuation bit, so the loop over a varint
\* ends at once; fixed words are not passed over either.
pb_skip(r, wt) == IF wt = {1} THEN pb_read_ldelim(r).r ELSE r

DhField(t) == IsField(t, 10, WT_STRING)

\* A turn of the innermost of the nested loops that are open, of which there
\* are four at most: field 10 opens the next or, in the fourth, may be the key.
DhTurn(loops) ==
    LET n == Len(loops.open)
        outer == SubSeq(loops.open, 1, n - 1)
        t == pb_read_tag(loops.open[n])
        field == pb_read_ldelim(t.r)
        copy == pb_read_bytes_copy(t.r, DhLen)
    IN  CASE loops.dh # <<>> \/ n = 0 -> loops
          [] loops.dh = <<>> /\ n > 0 /\ ~t.more -> [open |-> outer, dh |-> <<>>]
          [] loops.dh = <<>> /\ n > 0 /\ t.more /\ ~DhField(t) ->
                [open |-> Append(outer, pb_skip(t.r, t.wt)), dh |-> <<>>]
          [] loops.dh = <<>> /\ n \in 1..3 /\ t.more /\ DhField(t) ->
                [open |-> outer \o <<field.r, field.sub>>, dh |-> <<>>]
          [] OTHER -> [open |-> Append(outer, copy.r),
                       dh |-> IF Len(copy.v) = DhLen THEN copy.v ELSE <<>>]

\* Field 10 in field 10 in field 10 in field 10: the bytes of the first that has
\* DhLen of them, else none.  Every turn reads a byte or closes a loop.
ServerDh(r) ==
    LET after[k \in 0..(2 * r.s)] ==
            IF k = 0 THEN [open |-> <<r>>, dh |-> <<>>] ELSE DhTurn(after[k - 1])
    IN  after[2 * r.s].dh

WelcomeField(t) ==
    \/ IsField(t, 1, WT_STRING) \/ IsField(t, 6, WT_STRING)
    \/ IsField(t, 2, WT_VARINT) \/ IsField(t, 5, WT_VARINT)

\* A turn of the loop over the APWelcome.
WelcomeTurn(loop) ==
    LET t == pb_read_tag(loop.r)
        name == pb_read_bytes_copy(t.r, NameMax)
        cred == pb_read_bytes_copy(t.r, CredMax)
    IN  CASE ~t.more -> loop
          [] t.more /\ IsField(t, 1, WT_STRING) ->
                [r |-> name.r, s |-> [loop.s EXCEPT !.canonical_username = name.v]]
          [] t.more /\ IsField(t, 6, WT_STRING) ->
                [r |-> cred.r, s |-> [loop.s EXCEPT !.stored_cred = cred.v]]
          [] t.more /\ (IsField(t, 2, WT_VARINT) \/ IsField(t, 5, WT_VARINT)) ->
                [loop EXCEPT !.r = pb_read_varint_raw(t.r).r]
          [] OTHER -> [loop EXCEPT !.r = pb_skip(t.r, t.wt)]

\* Every turn reads a byte at least.
ReadWelcome(r, s) ==
    LET after[k \in 0..r.s] == IF k = 0 THEN [r |-> r, s |-> s] ELSE WelcomeTurn(after[k - 1])
    IN  after[r.s].s

-----------------------------------------------------------------------------
(* Packets, authentication data and keys.                                  *)

write_be32(n) == [i \in 1..4 |-> Shr(Bits(n), 8 * (4 - i)) \cap 0..7]

read_be32(b) == Num(UNION {Shl(b[i], 8 * (4 - i)) : i \in 1..4})

\* The length counts the prefix and itself.
tcp_send_packet(prefix, data) ==
    prefix \o write_be32(4 + Len(prefix) + Len(data)) \o data

\* What tcp_recv_packet takes of a packet: all of it, or nothing.
tcp_recv_packet(pkt) ==
    LET Cut(total) == IF total < 4 \/ total > ArMax THEN <<>> ELSE SubSeq(pkt, 1, total)
    IN  Cut(read_be32(pkt))

\* Base64: a character stands for six bits, the first for the highest.
Alphabet == <<"A", "B", "C", "D", "E", "F", "G", "H", "I", "J", "K", "L", "M", "N", "O", "P",
              "Q", "R", "S", "T", "U", "V", "W", "X", "Y", "Z", "a", "b", "c", "d", "e", "f",
              "g", "h", "i", "j", "k", "l", "m", "n", "o", "p", "q", "r", "s", "t", "u", "v",
              "w", "x", "y", "z", "0", "1", "2", "3", "4", "5", "6", "7", "8", "9", "+", "/">>

\* The places in a stream of bits, groups of w with the high bit first, that are set.
BitPlaces(groups, w) ==
    UNION {{w * (i - 1) + w - 1 - b : b \in groups[i]} : i \in DOMAIN groups}

Groups(places, n, w) == [i \in 1..n |-> {b \in 0..(w - 1) : w * (i - 1) + w - 1 - b \in places}]

platform_base64_decode(text) ==
    LET chars == SelectSeq(text, LAMBDA c : c # "=")
        valid == /\ Len(text) % 4 = 0 /\ Len(text) - Len(chars) < 3
                 /\ ToSet(chars) \subseteq ToSet(Alphabet)
        six == [i \in DOMAIN chars |->
                    Bits((CHOOSE k \in DOMAIN Alphabet : Alphabet[k] = chars[i]) - 1)]
    IN  IF ~valid THEN <<>> ELSE Groups(BitPlaces(six, 6), (6 * Len(chars)) \div 8, 8)

\* The text a pairing hands over: URL-safe and without padding.
UrlSafeText(blob) ==
    LET six == Groups(BitPlaces(blob, 8), (8 * Len(blob) + 5) \div 6, 6)
        safe(c) == CASE c = "+" -> "-" [] c = "/" -> "_" [] OTHER -> c
    IN  [i \in DOMAIN six |-> safe(Alphabet[Num(six[i]) + 1])]

\* The text is cut so that padding and terminator fit, and made standard base64.
Standard(text) ==
    LET n == Min({Len(text), AuthMax - 5})
        plain(c) == CASE c = "-" -> "+" [] c = "_" -> "/" [] OTHER -> c
    IN  [i \in 1..(n + ((4 - (n % 4)) % 4)) |-> IF i <= n THEN plain(text[i]) ELSE "="]

\* auth_data: a token (type 2) is sent as its text, cut to the buffer.
AuthData(auth) ==
    IF auth.type = 2 THEN SubSeq(auth.blob, 1, Min({Len(auth.blob), AuthMax}))
    ELSE platform_base64_decode(Standard(UrlSafeText(auth.blob)))

platform_hmac_sha1(key, data) == [i \in 1..DigestLen |-> <<key, data, i>>]

\* Mutant: the round's number follows the packets.
ChallengeAppended(shared, cb) ==
    LET round(x) == platform_hmac_sha1(shared, cb \o <<Bits(x)>>)
    IN  platform_hmac_sha1(round(1), cb) \o round(2) \o round(3) \o round(4) \o round(5)

\* Five rounds, each on its number and the packets; the first digest is then
\* the key of the one that replaces it.
compute_auth_challenge(shared, cb) ==
    LET round(x) == platform_hmac_sha1(shared, <<Bits(x)>> \o cb)
    IN  platform_hmac_sha1(round(1), cb) \o round(2) \o round(3) \o round(4) \o round(5)

-----------------------------------------------------------------------------
(* The handshake.                                                          *)

Gc == [i \in 1..DhLen |-> {0, 2}]       \* this client's public key
Nonce == <<{}, {1, 2}>>

ProtoInit ==
    /\ phase = "idle"
    /\ args = None /\ apr = None /\ keys = None /\ aw = None
    /\ hello = <<>> /\ resp = <<>> /\ login = <<>>
    /\ session = [canonical_username |-> <<>>, stored_cred |-> <<>>]

\* mercury_login5 up to the ClientHello; short authentication data is refused.
mercury_login5(call) ==
    /\ phase = "idle"
    /\ args' = call
    /\ IF Len(AuthData(call.auth)) < AuthMin
       THEN phase' = "refused" /\ hello' = hello
       ELSE phase' = "hello" /\ hello' = tcp_send_packet(<<{}, {2}>>, build_client_hello(Gc, Nonce))
    /\ UNCHANGED <<apr, resp, login, keys, aw, session>>

\* The access point's nanopb writes a field that is bytes.
Delimited(tag, bytes) ==
    pb_encode_string(pb_encode_tag(pb_ostream_from_buffer(PB_SIZE_MAX), WT_STRING, tag), bytes).out

\* APResponse: gs, four messages deep; a field u is written before the one at level n.
ApProto(gs, n, u) ==
    LET at(k) == IF k = n THEN u ELSE <<>>
    IN  at(1) \o Delimited(10, at(2) \o Delimited(10, at(3) \o Delimited(10, at(4) \o Delimited(10, gs))))

ApResponds(gs, n, u) ==
    /\ phase = "hello"
    /\ phase' = "apresponse"
    /\ apr' = [gs |-> gs, extra |-> u, pkt |-> tcp_send_packet(<<>>, ApProto(gs, n, u))]
    /\ UNCHANGED <<args, hello, resp, login, keys, aw, session>>

\* The rest of mercury_login5 before it waits: APResponse, keys, ClientResponse
\* (without a length) and LoginRequest.
ReceiveApResponse ==
    /\ phase = "apresponse"
    /\ \E ar \in {tcp_recv_packet(apr.pkt)} :
       \E server_dh \in {ServerDh(Reader(ar, 4, Len(ar)))} :
          IF Len(ar) < 8 \/ server_dh = <<>>
          THEN phase' = "refused" /\ UNCHANGED <<resp, login, keys>>
          ELSE \E challenge \in {compute_auth_challenge({Gc, server_dh}, hello \o ar)} :
                  /\ phase' = "login"
                  /\ resp' = build_client_resp(SubSeq(challenge, 1, DigestLen))
                  /\ keys' = [send |-> SubSeq(challenge, DigestLen + 1, DigestLen + KeyLen),
                              recv |-> SubSeq(challenge, DigestLen + KeyLen + 1,
                                              DigestLen + 2 * KeyLen)]
                  /\ login' = build_login_request(AuthData(args.auth), args.auth.type, args.user)
    /\ UNCHANGED <<args, hello, apr, aw, session>>

\* APWelcome: name, account type, credentials' type, credentials; u before field n.
ApWelcome(name, cred, n, u) ==
    LET number(tag) == pb_encode_varint(
                          pb_encode_tag(pb_ostream_from_buffer(PB_SIZE_MAX), WT_VARINT, tag), {1}).out
        at(k) == IF k = n THEN u ELSE <<>>
    IN  at(1) \o Delimited(1, name) \o number(2) \o number(5) \o at(6) \o Delimited(6, cred)

ApWelcomes(name, cred, n, u) ==
    /\ phase = "login"
    /\ phase' = "welcome"
    /\ aw' = [sent |-> ApWelcome(name, cred, n, u), read |-> <<>>]
    /\ UNCHANGED <<args, hello, apr, resp, login, keys, session>>

\* mercury_recv gives what fits rx_data, the first byte of it as it was sent,
\* and the loop reads that.
ReceiveApWelcome ==
    LET size == Min({Len(aw.sent), ArMax})
        Decrypted(w) == [i \in 1..size |-> IF i = 1 THEN aw.sent[1] ELSE w[i]]
    IN  /\ phase = "welcome"
        /\ phase' = "connected"
        /\ \E w \in Garbled :
              /\ aw' = [aw EXCEPT !.read = Decrypted(w)]
              /\ session' = ReadWelcome(Reader(Decrypted(w), 0, size), session)
        /\ UNCHANGED <<args, hello, apr, resp, login, keys>>

ProtoNext ==
    \/ \E call \in Calls : mercury_login5(call)
    \/ \E gs \in ServerKeys, n \in 1..4, u \in Extra : ApResponds(gs, n, u)
    \/ ReceiveApResponse
    \/ \E name \in Users, cred \in Creds, n \in {1, 6}, u \in Extra : ApWelcomes(name, cred, n, u)
    \/ ReceiveApWelcome

ProtoSpec == ProtoInit /\ [][ProtoNext]_protoVars

\* mercury_get_canonical_username, a C string, and mercury_get_stored_cred: NULL
\* for nothing.
mercury_get_canonical_username ==
    LET name == session.canonical_username
        zeros == {i \in DOMAIN name : name[i] = {}}
        text == SubSeq(name, 1, Min(zeros \cup {Len(name) + 1}) - 1)
    IN  IF text = <<>> THEN NullArg ELSE text

mercury_get_stored_cred ==
    IF session.stored_cred = <<>> THEN NullArg ELSE session.stored_cred

-----------------------------------------------------------------------------
(* What the handshake is for.                                              *)

\* The parser passes over u and finds no field it looks for there: u is a field
\* of bytes, whole, or what pb_skip leaves of others is a run of varints none of
\* which is the tag of bytes or of a field that is looked for.
Harmless(u, LookedFor(_)) ==
    LET tag(i) == pb_read_tag(Reader(u, i - 1, Len(u)))
        ends == {i \in DOMAIN u : 7 \notin u[i]}
        Passes(t, size) ==
            /\ t.wt = Bits(WT_STRING) /\ ~LookedFor(t)
            /\ t.r.p \in ends /\ size.r.p \in ends /\ t.r.p < size.r.p
            /\ size.r.p + Length(size.v) = Len(u)
        Numbers ==
            /\ Len(u) \in ends
            /\ \A i \in DOMAIN u : i = 1 \/ i - 1 \in ends =>
                tag(i).wt # Bits(WT_STRING) /\ ~LookedFor(tag(i))
    IN  u = <<>> \/ Passes(tag(1), pb_read_varint_raw(tag(1).r)) \/ Numbers

(* Whatever a body decrypts to, the user and the credentials that are      *)
(* handed out afterwards are two pieces of what was received that do not   *)
(* overlap and fit their buffers: the loop reads no byte behind the end    *)
(* and none twice, wherever a length in the noise leads it.                *)
WelcomeInBounds ==
    LET Handed(text) == IF text = NullArg THEN <<>> ELSE text
        name == Handed(mercury_get_canonical_username)
        cred == Handed(mercury_get_stored_cred)
        InPlace(v, at, max) ==
            /\ Len(v) <= max
            /\ at + Len(v) <= Len(aw.read)
            /\ v = SubSeq(aw.read, at + 1, at + Len(v))
    IN  phase = "connected" =>
            \E n, c \in 0..Len(aw.read) :
                /\ InPlace(name, n, NameMax) /\ InPlace(cred, c, CredMax)
                /\ n + Len(name) <= c \/ c + Len(cred) <= n

(* Both ends make the same keys, and the answer the access point expects,  *)
(* from the packets each saw, unless the server's key was longer than the  *)
(* buffer for it; an answer is refused only if it is too long, has too     *)
(* short a key, or has a field pb_skip does not pass.  That Gc is the key   *)
(* an access point reads from the hello is RequestsRead, of MercuryAp.     *)
KeysAgree ==
    LET cb == hello \o apr.pkt
        Stream(shared) ==
            FlattenSeq([x \in 1..5 |-> platform_hmac_sha1(shared, <<Bits(x)>> \o cb)])
        Agree(stream) ==
            /\ keys.send \o keys.recv = SubSeq(stream, DigestLen + 1, DigestLen + 2 * KeyLen)
            /\ resp = Delimited(10, Delimited(10, Delimited(10,
                        platform_hmac_sha1(SubSeq(stream, 1, DigestLen), cb))))
    IN  /\ phase = "login" /\ Harmless(apr.extra, DhField) /\ Len(apr.gs) <= DhLen =>
            Agree(Stream({Gc, apr.gs}))
        /\ phase = "refused" /\ apr # None /\ Harmless(apr.extra, DhField) =>
            Len(apr.pkt) > ArMax \/ Len(apr.gs) < DhLen

=============================================================================
