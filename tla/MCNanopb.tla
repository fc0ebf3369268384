------------------------------ MODULE MCNanopb ------------------------------
(***************************************************************************)
(* Instances of the login5 messages, and of one message that has every     *)
(* kind of field nanopb knows, for a message on its way.                   *)
(***************************************************************************)
EXTENDS Nanopb, MCDescriptors

Static(v) == [n |-> 0, d |-> v]
Present(v) == [n |-> 1, d |-> v]
Array(v) == [n |-> Len(v), d |-> v]

\* Two bytes, and words at the edges of the encoders' cases.
A == {0}
B == {1, 7}
Minus == 0..63

Login(info, method) ==
    [client_info |-> info, login_method |-> method] @@ ZeroOf("Login5Request")

Info(c, v) == Present([client_id |-> Static(c), device_id |-> Static(v)])

Requests ==
    {Login(Info(<<A>>, <<B, A>>),
           [n |-> 100, d |-> [username |-> Static(<<A, B>>), data |-> Static(<<B>>)]]),
     Login(Info(<<A, A>>, NullArg),
           [n |-> 100, d |-> [username |-> Static(<<A>>), data |-> Static(NullArg)]]),
     Login(ZeroOf("Login5Request")["client_info"],
           [n |-> 101, d |-> [id |-> Static(NullArg), password |-> Static(<<B>>)]])}

Span(s, n) == [seconds |-> Static(s), nanos |-> Static(n)]

\* seconds: 2^28 - 1, 2^32, 2^34, 2^63 and -1; nanos: 0 and -1.
Durations ==
    {Span(s, n) : s \in {{}, 0..27, {32}, {34}, {31, 35}, {63}, Minus}, n \in {{}, Minus}}

Samples ==
    {[id |-> Static({63, 0}), codes |-> Array(<<{0}, Minus>>), blobs |-> Array(<<<<A, B>>>>),
      last |-> Static({0})] @@ ZeroOf("Sample"),
     [codes |-> Array(<<{7}>>), spans |-> Array(<<Span({32}, {}), Span({}, {0})>>),
      choice |-> [n |-> 19, d |-> <<A, {}>>], name |-> Static(<<A, B>>)] @@ ZeroOf("Sample"),
     [crc |-> Present({31, 0}), time |-> Static({63}), choice |-> [n |-> 18, d |-> Minus \ {0}],
      span |-> Present(Span({1}, {}))] @@ ZeroOf("Sample"),
     [spans |-> Array(<<Span({}, {})>>), choice |-> [n |-> 18, d |-> {}],
      span |-> Present(Span({}, Minus))] @@ ZeroOf("Sample")}

MCStructs ==
    LET of(login, duration, sample) ==
            [Login5Request |-> login, Duration |-> duration, Sample |-> sample]
    IN  of(Requests, Durations, Samples)

\* Fields 5 (varint), 6 (64 bits), 7 (string) and 23 (32 bits) of a later version.
MCUnknown ==
    {<<{3, 5}, {7}, {0}>>,
     <<{0, 4, 5}, A, A, A, A, A, A, A, A>>,
     <<{1, 3, 4, 5}, {0}, B>>,
     <<{0, 2, 3, 4, 5, 7}, {0}, A, A, B, A>>}

Repeat(b, n) == [i \in 1..n |-> b]

MCVarints ==
    {Repeat(x, i) \o Repeat(y, j) \o <<z>> :
        i \in 0..10, j \in 0..10, x \in {{7}, {7, 0}, 0..7, {7, 6}},
        y \in {{7}, 0..7, 3..7, {7, 3}}, z \in {{}, {0}, 0..6, 0..3, 3..6}}

=============================================================================
