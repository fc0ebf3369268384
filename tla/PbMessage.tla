----------------------------- MODULE PbMessage ------------------------------
(***************************************************************************)
(* Messages of nanopb: pb_encode with its sizing passes, and pb_decode     *)
(* with its defaults, repeated and oneof fields, unknown and required      *)
(* fields.                                                                 *)
(*                                                                         *)
(* A struct maps the slot of a field to [n, d]: n is has_x, x_count or     *)
(* which_x, d the data: a word, bytes, a struct, or a sequence of those.   *)
(*                                                                         *)
(* Left out, as no descriptor of the repository has them: pointer fields   *)
(* (PB_ENABLE_MALLOC is not set), extensions, default values, fixed-count  *)
(* arrays and message-level callbacks.                                     *)
(***************************************************************************)
EXTENDS PbDescriptor

PB_MAX_REQUIRED_FIELDS == 64

FieldOf(d, i) == Msgs[d][i]

IsSubmsg(f) == f.lt = "SUBMESSAGE"

Packable(f) == f.lt \in {"BOOL", "VARINT", "UVARINT", "SVARINT", "FIXED32", "FIXED64"}

-----------------------------------------------------------------------------
(* Encoding.                                                               *)

pb_encode_tag_for_field(s, f) ==
    pb_encode_tag(s, CASE f.lt \in {"BOOL", "VARINT", "UVARINT", "SVARINT"} -> WT_VARINT
                       [] f.lt = "FIXED32" -> WT_32BIT
                       [] f.lt = "FIXED64" -> WT_64BIT
                       [] OTHER -> WT_STRING, f.tag)

\* The low n bits of a word, extended to 64 by their sign.
SignExtended(w, n) ==
    (w \cap 0..(n - 1)) \cup (IF (n - 1) \in w THEN n..63 ELSE {})

\* pb_enc_bool, pb_enc_varint and pb_enc_fixed: a scalar of f's type.
EncodeScalar(s, f, w) ==
    CASE f.lt = "BOOL" -> pb_encode_varint(s, IF w # {} THEN {0} ELSE {})
      [] f.lt = "UVARINT" -> pb_encode_varint(s, w \cap 0..(8 * f.size - 1))
      [] f.lt = "VARINT" -> pb_encode_varint(s, SignExtended(w, 8 * f.size))
      [] f.lt = "SVARINT" -> pb_encode_svarint(s, SignExtended(w, 8 * f.size))
      [] OTHER -> pb_encode_fixed(s, w, f.size)

\* The length of a C string in a buffer of max bytes, or max if it does not end there.
StrLen(bytes, max) ==
    Min({max} \cup {k - 1 : k \in {j \in DOMAIN bytes : bytes[j] = {}}}
              \cup {Len(bytes)})

\* A bytes array keeps its size in two bytes before the data.
BytesHeader == 2

pb_enc_bytes(s, f, bytes) ==
    IF Len(bytes) > f.size - BytesHeader THEN Refuse(s) ELSE pb_encode_string(s, bytes)

pb_enc_string(s, f, bytes) ==
    LET n == StrLen(bytes, f.size - 1)
    IN  IF f.size = 0 \/ (n < Len(bytes) /\ bytes[n + 1] # {}) THEN Refuse(s)
        ELSE pb_encode_string(s, SubSeq(bytes, 1, n))

\* What write_string and write_bytes of spotify_login5.c do when the encoder
\* calls them: nothing without an argument, write_bytes nothing for no bytes.
encode_callback_field(s, f, arg) ==
    IF arg = NullArg \/ (f.lt = "BYTES" /\ arg = <<>>) THEN s
    ELSE pb_encode_string(pb_encode_tag_for_field(s, f), arg)

RECURSIVE pb_encode(_, _, _), pb_check_proto3_default_value(_, _)

(* The size is computed by a sizing pass, announced, and the second pass   *)
(* writes into a stream that ends there.                                   *)
pb_encode_submessage(s, d, m) ==
    LET Joins(s1, size, s2) ==
            [s1 EXCEPT !.out = @ \o s2.out, !.written = @ + s2.written,
                       !.ok = s2.ok /\ s2.written = size]
        Second(s1, pass) ==
            CASE ~s1.ok \/ ~pass.ok -> Refuse(s1)
              [] s1.ok /\ pass.ok /\ s1.sizing -> Count(s1, pass.written)
              [] s1.ok /\ pass.ok /\ ~s1.sizing /\ s1.written + pass.written > s1.max -> Refuse(s1)
              [] OTHER -> Joins(s1, pass.written,
                    pb_encode([s1 EXCEPT !.max = pass.written, !.written = 0, !.out = <<>>], d, m))
        Announced(pass) == Second(pb_encode_varint(s, Bits(pass.written)), pass)
    IN  Announced(pb_encode(PB_OSTREAM_SIZING, d, m))

\* The contents of a field, after its tag.
EncodeValue(s, f, v) ==
    CASE Packable(f) -> EncodeScalar(s, f, v)
      [] f.lt = "BYTES" -> pb_enc_bytes(s, f, v)
      [] f.lt = "STRING" -> pb_enc_string(s, f, v)
      [] f.lt = "FIXED_LENGTH_BYTES" -> pb_encode_string(s, v)
      [] OTHER -> pb_encode_submessage(s, f.sub, v)

encode_basic_field(s, f, v) == EncodeValue(pb_encode_tag_for_field(s, f), f, v)

\* Mutant: the elements of a packed array are announced instead of its bytes.
EncodePackedCount(s, f, items) ==
    LET Second(s1) == IF s1.sizing THEN Count(s1, Len(items))
                      ELSE FoldLeft(LAMBDA acc, w : EncodeScalar(acc, f, w), s1, items)
    IN  Second(pb_encode_varint(pb_encode_tag(s, WT_STRING, f.tag), Bits(Len(items))))

\* Scalars of an array are packed: a tag, the size of them all, the values.
EncodePacked(s, f, items) ==
    LET Values(t) == FoldLeft(LAMBDA acc, w : EncodeScalar(acc, f, w), t, items)
        size == CASE f.lt = "FIXED32" -> 4 * Len(items)
                  [] f.lt = "FIXED64" -> 8 * Len(items)
                  [] OTHER -> Values(PB_OSTREAM_SIZING).written
        Second(s1, n) == IF s1.sizing THEN Count(s1, n) ELSE Values(s1)
        Announced(n) == Second(pb_encode_varint(pb_encode_tag(s, WT_STRING, f.tag), Bits(n)), n)
    IN  Announced(size)

encode_array(s, f, m) ==
    LET items == SubSeq(m[f.slot].d, 1, m[f.slot].n)
    IN  CASE items = <<>> -> s
          [] items # <<>> /\ m[f.slot].n > f.max -> Refuse(s)
          [] items # <<>> /\ m[f.slot].n <= f.max /\ Packable(f) -> EncodePacked(s, f, items)
          [] OTHER -> FoldLeft(LAMBDA acc, v : encode_basic_field(acc, f, v), s, items)

\* A field without presence is written only if it is not its type's zero.
pb_check_proto3_default_value(f, m) ==
    CASE f.at = "CALLBACK" -> m[f.slot].d = NullArg
      [] f.at = "STATIC" /\ f.ht = "REQUIRED" -> FALSE
      [] f.at = "STATIC" /\ (f.ht \in {"REPEATED", "ONEOF"} \/ (f.ht = "OPTIONAL" /\ f.soff # 0)) ->
            m[f.slot].n = 0
      [] OTHER ->
            CASE Packable(f) -> m[f.slot].d = {}
              [] f.lt = "BYTES" -> m[f.slot].d = <<>>
              [] f.lt = "STRING" -> StrLen(m[f.slot].d, f.size) = 0
              [] f.lt = "FIXED_LENGTH_BYTES" -> f.size = 0
              [] OTHER -> \A i \in DOMAIN Msgs[f.sub] :
                            pb_check_proto3_default_value(FieldOf(f.sub, i), m[f.slot].d)

encode_field(s, f, m) ==
    CASE f.ht = "ONEOF" /\ m[f.slot].n # f.tag -> s
      [] f.ht = "OPTIONAL" /\ f.soff # 0 /\ m[f.slot].n = 0 -> s
      [] f.ht = "OPTIONAL" /\ f.soff = 0 /\ f.at = "STATIC" /\ pb_check_proto3_default_value(f, m) -> s
      [] OTHER ->
            CASE f.at = "CALLBACK" -> encode_callback_field(s, f, m[f.slot].d)
              [] f.at = "STATIC" /\ f.ht = "REPEATED" -> encode_array(s, f, m)
              [] OTHER -> encode_basic_field(s, f, m[f.slot].d)

pb_encode(s, d, m) ==
    FoldLeft(LAMBDA acc, f : IF acc.ok THEN encode_field(acc, f, m) ELSE acc, s, Msgs[d])

pb_get_encoded_size(d, m) == pb_encode(PB_OSTREAM_SIZING, d, m).written

-----------------------------------------------------------------------------
(* Decoding.  The operators give the new value, or the new struct, in v.   *)

RECURSIVE pb_decode_inner(_, _, _, _), ZeroOf(_), SetToDefaults(_, _)

\* A struct of zeros (X_init_zero, and the memset of a new oneof member).
ZeroOf(d) ==
    [slot \in {FieldOf(d, i).slot : i \in DOMAIN Msgs[d]} |->
        LET f == FieldOf(d, CHOOSE i \in DOMAIN Msgs[d] : FieldOf(d, i).slot = slot)
        IN  [n |-> 0, d |-> CASE f.at = "CALLBACK" -> NullArg
                              [] f.at = "STATIC" /\ f.ht = "REPEATED" -> <<>>
                              [] f.at = "STATIC" /\ f.ht = "ONEOF" -> NullArg
                              [] f.at = "STATIC" /\ f.ht \notin {"REPEATED", "ONEOF"} /\ IsSubmsg(f) ->
                                    ZeroOf(f.sub)
                              [] OTHER -> IF Packable(f) THEN {} ELSE <<>>]]

\* A struct of zeros in which every callback is set that can be before decoding.
RECURSIVE Armed(_)
Armed(d) ==
    [slot \in DOMAIN ZeroOf(d) |->
        LET f == FieldOf(d, CHOOSE i \in DOMAIN Msgs[d] : FieldOf(d, i).slot = slot)
        IN  CASE f.at = "CALLBACK" -> [n |-> 0, d |-> <<>>]
              [] f.at = "STATIC" /\ f.ht \notin {"REPEATED", "ONEOF"} /\ IsSubmsg(f) ->
                    [n |-> 0, d |-> Armed(f.sub)]
              [] OTHER -> ZeroOf(d)[slot]]

(* pb_message_set_to_defaults: counts, has_ and which_ to zero; the data   *)
(* of repeated and oneof fields is left, as are callbacks.                 *)
SetToDefaults(d, m) ==
    [slot \in DOMAIN m |->
        LET f == FieldOf(d, CHOOSE i \in DOMAIN Msgs[d] : FieldOf(d, i).slot = slot)
        IN  CASE f.at = "CALLBACK" -> m[slot]
              [] f.at = "STATIC" /\ f.ht \in {"REPEATED", "ONEOF"} ->
                    [m[slot] EXCEPT !.n = 0]
              [] f.at = "STATIC" /\ f.ht \notin {"REPEATED", "ONEOF"} /\ IsSubmsg(f) ->
                    [n |-> 0, d |-> SetToDefaults(f.sub, m[slot].d)]
              [] OTHER -> [n |-> 0, d |-> ZeroOf(d)[slot].d]]

InWidth(r, w) == IF r.ok /\ w # r.v THEN Refuse(r) ELSE r

\* pb_dec_varint: the value must survive the cast to the field's size; signed
\* values of fields shorter than 64 bits are cast to 32 bits first.
pb_dec_varint(s, f) ==
    LET n == 8 * f.size
        Signed(r) == InWidth(r, SignExtended(r.v, n))
        Cast(r) == IF n < 64 THEN Deliver(r, SignExtended(r.v, 32)) ELSE r
    IN  CASE f.lt = "UVARINT" -> Then(pb_decode_varint(s), LAMBDA r : InWidth(r, r.v \cap 0..(n - 1)))
          [] f.lt = "SVARINT" -> Then(pb_decode_svarint(s), Signed)
          [] OTHER -> Then(Then(pb_decode_varint(s), Cast), Signed)

\* The bytes after a length that is not above max.
ReadUpTo(s, max) ==
    Then(pb_decode_varint32(s),
         LAMBDA r : IF Length(r.v) > max THEN Refuse(r) ELSE pb_read(r, Length(r.v)))

\* A length above PB_SIZE_MAX is refused as well.
pb_dec_bytes(s, f) == ReadUpTo(s, Min({PB_SIZE_MAX, f.size - BytesHeader}))

\* One byte of the buffer is kept for the terminator.
pb_dec_string(s, f) == ReadUpTo(s, f.size - 1)

pb_dec_fixed_length_bytes(s, f) ==
    LET Read(r) ==
            CASE r.v = {} -> Deliver(r, [i \in 1..f.size |-> {}])
              [] r.v # {} /\ Length(r.v) # f.size -> Refuse(r)
              [] OTHER -> pb_read(r, f.size)
    IN  Then(pb_decode_varint32(s), Read)

\* Something read within a substream, which is then closed.
InSubstream(p, Read(_)) ==
    LET Closed(r) ==
            IF ~p.parent.ok \/ ~r.ok THEN Refuse(p.parent)
            ELSE Deliver(pb_close_string_substream(p.parent, r), r.v)
    IN  Closed(Read(p.sub))

\* Mutant: every submessage is set to its defaults before it is read.
DecodeSubmessageAnew(s, f, old) ==
    InSubstream(pb_make_string_substream(s),
                LAMBDA sub : pb_decode_inner(sub, f.sub, old, FALSE))

\* A singular static submessage keeps what it holds (it was initialised with
\* its parent, or holds an earlier occurrence); an element of an array does not.
pb_dec_submessage(s, f, old) ==
    InSubstream(pb_make_string_substream(s),
                LAMBDA sub : pb_decode_inner(sub, f.sub, old, f.ht # "REPEATED"))

\* The wire types a field's type is read from.
WireTypes(f) ==
    CASE f.lt \in {"BOOL", "VARINT", "UVARINT", "SVARINT"} -> {WT_VARINT, WT_PACKED}
      [] f.lt = "FIXED32" -> {WT_32BIT, WT_PACKED}
      [] f.lt = "FIXED64" -> {WT_64BIT, WT_PACKED}
      [] OTHER -> {WT_STRING}

decode_basic_field(s, wt, f, old) ==
    CASE wt \notin WireTypes(f) -> Refuse(s)
      [] wt \in WireTypes(f) /\ f.lt = "BOOL" -> pb_decode_bool(s)
      [] wt \in WireTypes(f) /\ f.lt \in {"VARINT", "UVARINT", "SVARINT"} -> pb_dec_varint(s, f)
      [] wt \in WireTypes(f) /\ f.lt \in {"FIXED32", "FIXED64"} -> pb_decode_fixed(s, f.size)
      [] wt \in WireTypes(f) /\ f.lt = "BYTES" -> pb_dec_bytes(s, f)
      [] wt \in WireTypes(f) /\ f.lt = "STRING" -> pb_dec_string(s, f)
      [] wt \in WireTypes(f) /\ f.lt = "FIXED_LENGTH_BYTES" -> pb_dec_fixed_length_bytes(s, f)
      [] OTHER -> pb_dec_submessage(s, f, old)

RECURSIVE DecodePacked(_, _, _)

\* The loop over a packed array: until its bytes or the array's places end.
DecodePacked(s, f, items) ==
    IF s.left = 0 \/ Len(items) = f.max THEN Deliver(s, items)
    ELSE Then(decode_basic_field(s, WT_PACKED, f, {}),
              LAMBDA r : DecodePacked(r, f, Append(items, r.v)))

\* The struct with v in f's slot, and n beside it.
Store(r, m, f, n, v) == Deliver(r, [m EXCEPT ![f.slot] = [n |-> n, d |-> v]])

DecodeRepeated(s, wt, f, m) ==
    LET items == SubSeq(m[f.slot].d, 1, m[f.slot].n)
        Whole(r) == IF r.left # 0 THEN Refuse(r) ELSE r
    IN  CASE wt = WT_STRING /\ Packable(f) ->
                Then(InSubstream(pb_make_string_substream(s),
                                 LAMBDA sub : Whole(DecodePacked(sub, f, items))),
                     LAMBDA r : Store(r, m, f, Len(r.v), r.v))
          [] ~(wt = WT_STRING /\ Packable(f)) /\ Len(items) >= f.max -> Refuse(s)
          [] OTHER ->
                Then(decode_basic_field(s, wt, f, IF IsSubmsg(f) THEN ZeroOf(f.sub) ELSE {}),
                     LAMBDA r : Store(r, m, f, Len(items) + 1, Append(items, r.v)))

decode_static_field(s, wt, f, m) ==
    LET fresh == f.ht = "ONEOF" /\ IsSubmsg(f) /\ m[f.slot].n # f.tag
        old == IF fresh THEN SetToDefaults(f.sub, ZeroOf(f.sub)) ELSE m[f.slot].d
        n == CASE f.ht = "ONEOF" -> f.tag
               [] f.ht = "OPTIONAL" /\ f.soff # 0 -> 1
               [] OTHER -> m[f.slot].n
    IN  IF f.ht = "REPEATED" THEN DecodeRepeated(s, wt, f, m)
        ELSE Then(decode_basic_field(s, wt, f, old), LAMBDA r : Store(r, m, f, n, r.v))

(* The callback is given the field's bytes, a scalar's raw ones as well.   *)
(* No decoder of the repository sets one; the model's reads all it is      *)
(* given and keeps the last.  A null callback (NullArg in the struct), as  *)
(* in the zeroed member of a oneof, reads nothing: the bytes are skipped.  *)
decode_callback_field(s, wt, f, m) ==
    LET kept(v) == IF m[f.slot].d = NullArg THEN NullArg ELSE v
    IN  Then(IF wt = WT_STRING
             THEN InSubstream(pb_make_string_substream(s), LAMBDA sub : pb_read(sub, sub.left))
             ELSE read_raw_value(s, wt, 10),
             LAMBDA r : Store(r, m, f, 0, kept(r.v)))

decode_field(s, wt, f, m) ==
    IF f.at = "CALLBACK" THEN decode_callback_field(s, wt, f, m)
    ELSE decode_static_field(s, wt, f, m)

\* Mutant: the required fields are not looked for at the end of the message.
NoneRequired(d, seen) == TRUE

\* All required fields (those the seen bits can hold) were in the message.
RequiredSeen(d, seen) ==
    LET n == Cardinality({i \in DOMAIN Msgs[d] : Msgs[d][i].ht = "REQUIRED"})
    IN  0..(Min({n, PB_MAX_REQUIRED_FIELDS}) - 1) \subseteq seen

RECURSIVE DecodeLoop(_, _, _, _, _)

\* The loop over the fields of a message: the next tag, its field, the rest.
DecodeLoop(s, d, m, it, seen) ==
    LET AtField(t, found, f) ==
            IF ~found.found \/ f.lt = "EXTENSION"
            THEN Then(pb_skip_field(t, t.v.wt), LAMBDA r : DecodeLoop(r, d, m, found.it, seen))
            ELSE Then(decode_field(t, t.v.wt, f, m),
                      LAMBDA r : DecodeLoop(r, d, r.v, found.it,
                          seen \cup (IF f.ht = "REQUIRED" THEN {found.it.req} ELSE {})))
        Found(t, found) == AtField(t, found, FieldAt(d, found.it))
        AtTag(t) ==
            CASE ~t.ok -> IF t.v.eof /\ RequiredSeen(d, seen) THEN Deliver(s, m) ELSE Refuse(s)
              [] t.ok /\ t.v.tag = 0 -> Refuse(s)
              [] OTHER -> Found(t, pb_field_iter_find(d, it, t.v.tag))
    IN  AtTag(pb_decode_tag(s))

pb_decode_inner(s, d, m, noinit) ==
    IF ~s.ok THEN s
    ELSE DecodeLoop(s, d, IF noinit THEN m ELSE SetToDefaults(d, m), pb_field_iter_begin(d), {})

pb_decode(s, d, m) == pb_decode_inner(s, d, m, FALSE)

=============================================================================
