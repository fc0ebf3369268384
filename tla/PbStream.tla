------------------------------ MODULE PbStream ------------------------------
(***************************************************************************)
(* The wire level of nanopb: input and output streams, varints, fixed      *)
(* words, tags, skipping and substreams.  A byte is the set of its bits    *)
(* (a subset of 0..7) and a machine word the set of its bits (a subset of  *)
(* 0..63), so masks are intersections and shifts move the elements, at the *)
(* width the C types have.                                                 *)
(*                                                                         *)
(* A stream is a record that carries its own verdict, ok: the C functions  *)
(* return false once and every caller returns false after it, so an        *)
(* operator given a failed stream gives it back.  Positions after a        *)
(* failure are not looked at, here or in the code.  Only buffer streams    *)
(* are modelled: the repository opens no other (pb_istream_from_buffer,    *)
(* pb_ostream_from_buffer and the sizing stream).                          *)
(***************************************************************************)
EXTENDS Integers, Sequences, FiniteSets, FiniteSetsExt, SequencesExt

CONSTANT NullArg        \* a null pointer: no callback argument, no union member, no text

Octet == SUBSET (0..7)

Shl(w, k) == {b + k : b \in w}

Shr(w, k) == {b - k : b \in {c \in w : c >= k}}

\* The number a word of up to 30 bits stands for, as TLC's integers have it,
\* added up from its highest bit.
Num(w) ==
    LET top[k \in 0..30] ==
            IF k = 0 THEN 0 ELSE 2 * top[k - 1] + (IF 30 - k \in w THEN 1 ELSE 0)
    IN  top[30]

Bits(n) == {b \in 0..29 : (n \div 2^b) % 2 = 1}

-----------------------------------------------------------------------------
(* Output streams.                                                         *)

PB_SIZE_MAX == 65535

pb_ostream_from_buffer(size) ==
    [ok |-> TRUE, sizing |-> FALSE, out |-> <<>>, max |-> size, written |-> 0]

\* PB_OSTREAM_SIZING has no callback: it only counts.
PB_OSTREAM_SIZING ==
    [ok |-> TRUE, sizing |-> TRUE, out |-> <<>>, max |-> 0, written |-> 0]

Refuse(s) == [s EXCEPT !.ok = FALSE]

\* What follows an operation that may have failed.
Then(s, Next(_)) == IF s.ok THEN Next(s) ELSE s

\* pb_write(stream, NULL, count), as the sizing passes call it.
Count(s, count) == IF s.ok THEN [s EXCEPT !.written = @ + count] ELSE s

pb_write(s, bytes) ==
    CASE ~s.ok -> s
      [] s.ok /\ s.sizing -> Count(s, Len(bytes))
      [] s.ok /\ ~s.sizing /\ s.written + Len(bytes) > s.max /\ bytes # <<>> -> Refuse(s)
      [] OTHER -> [Count(s, Len(bytes)) EXCEPT !.out = @ \o bytes]

\* Seven bits of a word from bit k on: (w >> k) & 0x7F.
Chunk(w, k) == Shr(w, k) \cap 0..6

(* The two loops of pb_encode_varint_32: at most four bytes from the low   *)
(* word while anything is left, then, when the high word is not zero, its  *)
(* first three bits share a byte with the last four of the low word.       *)
pb_encode_varint_32(s, low, high) ==
    LET n == IF high # {} THEN 4
             ELSE Max({0} \cup {i \in 1..4 : \E b \in low : b >= 7 * i})
        head == [i \in 1..n |-> Chunk(low, 7 * (i - 1)) \cup {7}]
        last == Chunk(low, 7 * n)
        rest == Shr(high, 3)
        m == IF rest = {} THEN 0 ELSE 1 + Max(rest) \div 7
        shared == last \cup Shl(high \cap 0..2, 4)
        tail == [j \in 0..m |-> (IF j = 0 THEN shared ELSE Chunk(rest, 7 * (j - 1)))
                                 \cup (IF j < m THEN {7} ELSE {})]
    IN  pb_write(s, head \o (IF high = {} THEN <<last>> ELSE [j \in 1..(m + 1) |-> tail[j - 1]]))

pb_encode_varint(s, w) ==
    IF w \subseteq 0..6 THEN pb_write(s, <<w>>)
    ELSE pb_encode_varint_32(s, w \cap 0..31, Shr(w, 32))

\* Zigzag: a negative value (bit 63) is the complement of its doubled rest.
pb_encode_svarint(s, w) ==
    pb_encode_varint(s, IF 63 \in w THEN (0..63) \ Shl(w \ {63}, 1) ELSE Shl(w, 1))

\* pb_encode_fixed32 and pb_encode_fixed64: n bytes, the low one first.
pb_encode_fixed(s, w, n) ==
    pb_write(s, [i \in 1..n |-> Shr(w, 8 * (i - 1)) \cap 0..7])

WT_VARINT == 0
WT_64BIT  == 1
WT_STRING == 2
WT_32BIT  == 5
WT_PACKED == 255

pb_encode_tag(s, wiretype, tag) ==
    pb_encode_varint(s, Shl(Bits(tag), 3) \cup Bits(wiretype))

pb_encode_string(s, bytes) ==
    pb_write(pb_encode_varint(s, Bits(Len(bytes))), bytes)

-----------------------------------------------------------------------------
(* Input streams: pos bytes of buf are behind, left bytes may be read.     *)
(* The value the last operator read is in v.                               *)

pb_istream_from_buffer(buf) ==
    [ok |-> TRUE, buf |-> buf, pos |-> 0, left |-> Len(buf), v |-> {}]

Take(s, n, val) == [s EXCEPT !.pos = @ + n, !.left = @ - n, !.v = val]

Deliver(s, val) == [s EXCEPT !.v = val]

\* pb_read into a buffer, or past the bytes (buf NULL): v is what was read.
pb_read(s, count) ==
    CASE ~s.ok \/ count = 0 -> Deliver(s, <<>>)
      [] s.ok /\ s.left < count -> Refuse(s)
      [] OTHER -> Take(s, count, SubSeq(s.buf, s.pos + 1, s.pos + count))

\* The bytes of the varint that starts here, 0 if the stream fails first
\* (pb_readbyte fails at its end).
VarintLength(s) ==
    LET ends == {n \in 1..s.left : 7 \notin s.buf[s.pos + n]}
    IN  IF ~s.ok \/ ends = {} THEN 0 ELSE Min(ends)

\* The k-th byte of the varint, and the word its first n bytes make.
ByteAt(s, k) == s.buf[s.pos + 1 + k]

Joined(s, n, width) ==
    (UNION {Shl(ByteAt(s, k) \ {7}, 7 * k) : k \in 0..(n - 1)}) \cap 0..(width - 1)

\* What the loop of pb_decode_varint32 rejects in byte k: the fifth byte may
\* hold four more bits or the sign's extension, later ones nothing else.
Overflow32(s, k, result) ==
    \/ k = 4 /\ ByteAt(s, k) \cap 4..6 # {} /\ ByteAt(s, k) \cap 3..6 # 3..6
    \/ /\ k >= 5
       /\ ByteAt(s, k) \cap 0..6 # {}
       /\ ~(31 \in result /\ ByteAt(s, k) = (IF k < 9 THEN 0..7 ELSE {0}))
    \/ k >= 10

pb_decode_varint32(s) ==
    LET Checked(n, result) ==
            IF n = 0 \/ \E k \in 1..(n - 1) : Overflow32(s, k, result) THEN Refuse(s)
            ELSE Take(s, n, result)
        Read(n) == Checked(n, Joined(s, Min({n, 5}), 32))
    IN  Read(VarintLength(s))

pb_decode_varint(s) ==
    LET Read(n) ==
            IF n = 0 \/ \E k \in 9..(n - 1) : ByteAt(s, k) \cap 1..7 # {} THEN Refuse(s)
            ELSE Take(s, n, Joined(s, n, 64))
    IN  Read(VarintLength(s))

pb_decode_svarint(s) ==
    Then(pb_decode_varint(s),
         LAMBDA r : Deliver(r, IF 0 \in r.v THEN (0..63) \ Shr(r.v, 1) ELSE Shr(r.v, 1)))

pb_decode_bool(s) ==
    Then(pb_decode_varint32(s), LAMBDA r : Deliver(r, IF r.v # {} THEN {0} ELSE {}))

pb_decode_fixed(s, n) ==
    Then(pb_read(s, n),
         LAMBDA r : Deliver(r, UNION {Shl(r.v[i], 8 * (i - 1)) : i \in 1..n}))

\* A 32-bit length as a number; HugeLength stands for those past any buffer.
HugeLength == 2^30
Length(w) == IF w \subseteq 0..29 THEN Num(w) ELSE HugeLength

\* v is the tag and the wire type, or eof at the end of the stream.
pb_decode_tag(s) ==
    LET Split(r) ==
            IF ~r.ok THEN [r EXCEPT !.v = [eof |-> FALSE]]
            ELSE Deliver(r, [eof |-> FALSE, tag |-> Num(Shr(r.v, 3)), wt |-> Num(r.v \cap 0..2)])
    IN  IF s.left = 0 THEN [Refuse(s) EXCEPT !.v = [eof |-> TRUE]]
        ELSE Split(pb_decode_varint32(s))

\* No limit on the length of a varint that is passed over.
pb_skip_varint(s) ==
    IF VarintLength(s) = 0 THEN Refuse(s) ELSE pb_read(s, VarintLength(s))

pb_skip_string(s) == Then(pb_decode_varint32(s), LAMBDA r : pb_read(r, Length(r.v)))

pb_skip_field(s, wt) ==
    CASE wt = WT_VARINT -> pb_skip_varint(s)
      [] wt = WT_64BIT -> pb_read(s, 8)
      [] wt = WT_STRING -> pb_skip_string(s)
      [] wt = WT_32BIT -> pb_read(s, 4)
      [] OTHER -> Refuse(s)

\* A scalar's bytes for a callback, at most max of them for a varint.
read_raw_value(s, wt, max) ==
    CASE wt = WT_VARINT -> IF VarintLength(s) \notin 1..max THEN Refuse(s)
                           ELSE pb_read(s, VarintLength(s))
      [] wt = WT_64BIT -> pb_read(s, 8)
      [] wt = WT_32BIT -> pb_read(s, 4)
      [] OTHER -> Refuse(s)

(* A substream takes its bytes from the parent's budget at once; the       *)
(* parent's position follows when the substream is closed, which skips     *)
(* what was not read.                                                      *)
pb_make_string_substream(s) ==
    LET Split(r, size) ==
            IF ~r.ok \/ r.left < size THEN [parent |-> Refuse(s), sub |-> Refuse(s)]
            ELSE [parent |-> [r EXCEPT !.left = @ - size], sub |-> [r EXCEPT !.left = size]]
        Announced(r) == Split(r, Length(r.v))
    IN  Announced(pb_decode_varint32(s))

pb_close_string_substream(parent, sub) ==
    LET r == pb_read(sub, sub.left)
    IN  [parent EXCEPT !.ok = r.ok, !.pos = r.pos]

=============================================================================
