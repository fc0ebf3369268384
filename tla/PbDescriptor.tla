---------------------------- MODULE PbDescriptor ----------------------------
(***************************************************************************)
(* The descriptors of nanopb: what PB_BIND packs into words for each field *)
(* of a message, and the iterator that reads it back.                      *)
(*                                                                         *)
(* Msgs[d] are the fields of message d in the order of their tags, each a  *)
(* record                                                                  *)
(*   tag, lt, ht, at  - number, PB_LTYPE, PB_HTYPE and PB_ATYPE;           *)
(*   size, max        - data_size and array_size;                          *)
(*   off, soff        - data_offset, and how far before it has_x, x_count  *)
(*                      or which_x is (0: there is none);                  *)
(*   width            - the words it is packed into: 1, 2, 4 or 8;         *)
(*   slot, sub        - its place in the model's struct (the fields of a   *)
(*                      oneof share one) and the message of a submessage.  *)
(***************************************************************************)
EXTENDS PbStream

CONSTANT Msgs           \* descriptor name -> sequence of fields

LTypes == <<"BOOL", "VARINT", "UVARINT", "SVARINT", "FIXED32", "FIXED64", "BYTES", "STRING",
            "SUBMESSAGE", "SUBMSG_W_CB", "EXTENSION", "FIXED_LENGTH_BYTES">>
HTypes == <<"REQUIRED", "OPTIONAL", "REPEATED", "ONEOF">>
ATypes == <<"STATIC", "CALLBACK", "POINTER">>

Low(w, n) == w \cap 0..(n - 1)

\* The number that stands for a kind.
Code(kinds, kind) == SelectInSeq(kinds, LAMBDA k : k = kind) - 1

PbType(f) ==
    Bits(Code(LTypes, f.lt)) \cup Shl(Bits(Code(HTypes, f.ht)), 4) \cup Shl(Bits(Code(ATypes, f.at)), 6)

\* The first eight bits of every format are the log of its length and six bits
\* of the tag, the next eight the type.
Word0(f, log) == Bits(log) \cup Low(Shl(Bits(f.tag), 2), 8) \cup Shl(PbType(f), 8)

PB_FIELDINFO_1(f) ==
    <<Word0(f, 0) \cup Shl(Low(Bits(f.off), 8), 16) \cup Shl(Low(Bits(f.soff), 4), 24)
                  \cup Shl(Low(Bits(f.size), 4), 28)>>

PB_FIELDINFO_2(f) ==
    <<Word0(f, 1) \cup Shl(Low(Bits(f.max), 12), 16) \cup Shl(Low(Bits(f.soff), 4), 28),
      Low(Bits(f.off), 16) \cup Shl(Low(Bits(f.size), 12), 16)
                           \cup Shl(Bits(f.tag) \cap 6..9, 22)>>

TagAbove6(f) == Shl(Bits(f.tag), 2) \cap 8..31

PB_FIELDINFO_4(f) ==
    <<Word0(f, 2) \cup Shl(Low(Bits(f.max), 16), 16),
      Bits(f.soff) \cup TagAbove6(f), Bits(f.off), Bits(f.size)>>

PB_FIELDINFO_8(f) ==
    <<Word0(f, 3), Bits(f.soff) \cup TagAbove6(f), Bits(f.off), Bits(f.size),
      Bits(f.max), {}, {}, {}>>

PB_FITS(n, bits) == n < 2^bits

\* The static assertion on a field of each width; a size offset is an int8 there.
PB_FIELDINFO_ASSERT(f) ==
    CASE f.width = 1 -> /\ PB_FITS(f.tag, 6) /\ PB_FITS(f.off, 8) /\ PB_FITS(f.soff, 4)
                        /\ PB_FITS(f.size, 4) /\ PB_FITS(f.max, 1)
      [] f.width = 2 -> /\ PB_FITS(f.tag, 10) /\ PB_FITS(f.off, 16) /\ PB_FITS(f.soff, 4)
                        /\ PB_FITS(f.size, 12) /\ PB_FITS(f.max, 12)
      [] OTHER -> /\ PB_FITS(f.tag, 16) /\ PB_FITS(f.off, 16) /\ PB_FITS(f.soff, 7)
                  /\ PB_FITS(f.size, 16) /\ PB_FITS(f.max, 16)

\* The width of a field where PB_BIND is left to choose it (AUTO).
PB_FIELDINFO_WIDTH_AUTO(f) ==
    IF f.at = "CALLBACK" \/ f.ht = "REPEATED"
       \/ f.lt \in {"BYTES", "STRING", "SUBMESSAGE", "SUBMSG_W_CB", "FIXED_LENGTH_BYTES"}
    THEN 2 ELSE 1

FieldInfo(f) ==
    CASE f.width = 1 -> PB_FIELDINFO_1(f)
      [] f.width = 2 -> PB_FIELDINFO_2(f)
      [] f.width = 4 -> PB_FIELDINFO_4(f)
      [] f.width = 8 -> PB_FIELDINFO_8(f)

\* field_info of each message; largest_tag is the tag of the last field.
field_info ==
    [d \in DOMAIN Msgs |->
        FlattenSeq([i \in DOMAIN Msgs[d] |-> FieldInfo(Msgs[d][i])]) \o <<{}>>]

IsSubmessage(f) == f.lt \in {"SUBMESSAGE", "SUBMSG_W_CB"}

\* submsg_info: the messages of the fields that are submessages, in their order.
submsg_info ==
    [d \in DOMAIN Msgs |->
        LET subs == {i \in DOMAIN Msgs[d] : IsSubmessage(Msgs[d][i])}
            upto(i) == {j \in subs : j <= i}
        IN  [k \in 1..Cardinality(subs) |->
                Msgs[d][CHOOSE i \in subs : Cardinality(upto(i)) = k].sub]]

-----------------------------------------------------------------------------
(* The iterator: the index of its field, where the field's words begin,    *)
(* the required fields and the submessages before it, and in f the values  *)
(* it has loaded.                                                          *)

FieldValues(type, tag, size, max, off, soff) ==
    [tag |-> Num(Low(tag, 16)),
     lt |-> LTypes[Num(Low(type, 4)) + 1],
     ht |-> HTypes[Num(Shr(type, 4) \cap 0..1) + 1],
     at |-> ATypes[Num(Shr(type, 6)) + 1],
     size |-> Num(Low(size, 16)), max |-> Num(Low(max, 16)),
     off |-> Num(off), soff |-> Num(soff)]

\* Mutant: the high bits of the tag are not looked at in the two-word format.
LoadShortTag(words, it) ==
    LET w(k) == words[it.info + k]
    IN  [it EXCEPT !.f = FieldValues(Shr(w(1), 8) \cap 0..7, Shr(w(1), 2) \cap 0..5,
                                Shr(w(2), 16) \cap 0..11, Shr(w(1), 16) \cap 0..11,
                                Low(w(2), 16), Shr(w(1), 28))]

LoadWords(words, it) ==
    LET w(k) == words[it.info + k]
        type == Shr(w(1), 8) \cap 0..7
        low == Shr(w(1), 2) \cap 0..5
        wide == low \cup Shl(Shr(w(2), 8), 6)
        f == CASE w(1) \cap 0..1 = {} ->
                    FieldValues(type, low, Shr(w(1), 28), {0}, Shr(w(1), 16) \cap 0..7,
                           Shr(w(1), 24) \cap 0..3)
               [] w(1) \cap 0..1 = {0} ->
                    FieldValues(type, low \cup Shl(Shr(w(2), 28), 6), Shr(w(2), 16) \cap 0..11,
                           Shr(w(1), 16) \cap 0..11, Low(w(2), 16), Shr(w(1), 28))
               [] w(1) \cap 0..1 = {1} ->
                    FieldValues(type, wide, w(4), Shr(w(1), 16), w(3), Low(w(2), 8))
               [] w(1) \cap 0..1 = {0, 1} ->
                    FieldValues(type, wide, w(4), w(5), w(3), Low(w(2), 8))
    IN  [it EXCEPT !.f = f]

load_descriptor_values(d, it) == LoadWords(field_info[d], it)

advance_iterator(d, it) ==
    LET Behind(word0, type) ==
            [it EXCEPT !.index = @ + 1,
                       !.info = @ + 2^Num(word0 \cap 0..1),
                       !.req = @ + (IF type \cap 4..5 = {} THEN 1 ELSE 0),
                       !.sub = @ + (IF type \cap 0..3 \in {{3}, {3, 0}} THEN 1 ELSE 0)]
        After(word0) == Behind(word0, Shr(word0, 8) \cap 0..7)
    IN  IF it.index + 1 >= Len(Msgs[d])
        THEN [it EXCEPT !.index = 0, !.info = 0, !.req = 0, !.sub = 0]
        ELSE After(field_info[d][it.info + 1])

pb_field_iter_begin(d) ==
    load_descriptor_values(d, [index |-> 0, info |-> 0, req |-> 0, sub |-> 0, f |-> <<>>])

\* The iterator on the next field, on the first one again after the last.
pb_field_iter_next(d, it) == load_descriptor_values(d, advance_iterator(d, it))

\* A turn of a search, if none before it was the last: six bits of the tag are
\* compared before the rest is loaded; extension ranges are never found.
SearchTurn(d, start, tag, t) ==
    LET Compared(next, loaded) ==
            LET hit == /\ Shr(field_info[d][next.info + 1], 2) \cap 0..5 = Low(Bits(tag), 6)
                       /\ loaded.f.tag = tag
                       /\ loaded.f.lt # "EXTENSION"
            IN  [over |-> hit \/ next.index = start, found |-> hit, it |-> loaded]
        Advanced(next) == Compared(next, load_descriptor_values(d, next))
    IN  IF t.over THEN t ELSE Advanced(advance_iterator(d, t.it))

Search(d, it, start, tag) ==
    LET turn[k \in 0..Len(Msgs[d])] ==
            IF k = 0 THEN [over |-> FALSE, found |-> FALSE, it |-> it]
            ELSE SearchTurn(d, start, tag, turn[k - 1])
    IN  turn[Len(Msgs[d])]

\* From the field the iterator is on, round to the start of the list, and up to
\* that field again; a smaller tag sends it to the start of the list at once.
pb_field_iter_find(d, it, tag) ==
    CASE it.f.tag = tag -> [found |-> TRUE, it |-> it]
      [] it.f.tag # tag /\ tag > Last(Msgs[d]).tag -> [found |-> FALSE, it |-> it]
      [] OTHER -> LET last == Search(d, IF tag < it.f.tag THEN [it EXCEPT !.index = Len(Msgs[d])]
                                        ELSE it, it.index, tag)
                  IN  [found |-> last.found, it |-> last.it]

\* submsg_desc of the field the iterator is on.
SubmsgDesc(d, it) == IF IsSubmessage(it.f) THEN submsg_info[d][it.sub + 1] ELSE "none"

\* The field the iterator is on: the values it has loaded, the message of a
\* submessage, and what stands at its offset in the struct.
FieldAt(d, it) ==
    [slot |-> Msgs[d][it.index + 1].slot, sub |-> SubmsgDesc(d, it)] @@ it.f

=============================================================================
