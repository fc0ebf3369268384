------------------------------- MODULE Nanopb -------------------------------
(***************************************************************************)
(* A message on its way through nanopb: it is encoded into a buffer, may   *)
(* be followed by a second one, may meet a field the reader does not know  *)
(* or lose its end, and is decoded into a zeroed struct.  A varint may     *)
(* also be read on its own, by both of the decoders nanopb has for it.     *)
(***************************************************************************)
EXTENDS PbMessage

CONSTANTS Structs,      \* descriptor name -> the structs that are sent
          Sizes,        \* the sizes of the writer's buffer
          Unknown,      \* fields (as bytes) that some later version has
          Varints       \* byte sequences read as a varint

ASSUME NanopbAssumption == DOMAIN Structs \subseteq DOMAIN Msgs /\ Sizes \subseteq Nat

VARIABLES desc,     \* the descriptor
          sent,     \* the structs given to pb_encode so far
          room,     \* the size of the last writer's buffer
          wire,     \* the bytes, of a refused message those the buffer holds
          stage,    \* "new", "wire", "refused", "cut"; "read" or "failed", and the
                    \* same of a cut message, "readcut" or "failedcut"; "varint"
          decoded       \* the struct that was read

pbVars == <<desc, sent, room, wire, stage, decoded>>

PbInit ==
    /\ \/ desc \in DOMAIN Structs /\ wire = <<>> /\ stage = "new"
       \/ /\ desc = (CHOOSE d \in DOMAIN Structs : TRUE)
          /\ wire \in Varints
          /\ stage = "varint"
    /\ sent = <<>>
    /\ room = 0
    /\ decoded = NullArg

\* One message into a buffer of the given size; its bytes follow the earlier ones.
Encode(m, size) ==
    /\ stage \in {"new", "wire"}
    /\ Len(sent) < 2
    /\ \E s \in {pb_encode(pb_ostream_from_buffer(size), desc, m)} :
            /\ wire' = IF s.ok THEN wire \o s.out ELSE s.out
            /\ stage' = IF s.ok THEN "wire" ELSE "refused"
    /\ sent' = Append(sent, m)
    /\ room' = size
    /\ UNCHANGED <<desc, decoded>>

\* A later version's field stands before, or after, the ones this reader knows.
Extend(u) ==
    /\ stage = "wire"
    /\ Len(sent) = 1
    /\ Len(wire) <= Len(pb_encode(pb_ostream_from_buffer(room), desc, sent[1]).out)
    /\ wire' \in {u \o wire, wire \o u}
    /\ UNCHANGED <<desc, sent, room, stage, decoded>>

\* The end of the message is lost.
Lose(n) ==
    /\ stage = "wire"
    /\ Len(sent) = 1
    /\ n < Len(wire)
    /\ wire' = SubSeq(wire, 1, n)
    /\ stage' = "cut"
    /\ UNCHANGED <<desc, sent, room, decoded>>

Decode ==
    /\ stage \in {"wire", "cut"}
    /\ \E r \in {pb_decode(pb_istream_from_buffer(wire), desc, Armed(desc))} :
            /\ stage' = CASE stage = "wire" -> IF r.ok THEN "read" ELSE "failed"
                          [] stage = "cut" -> IF r.ok THEN "readcut" ELSE "failedcut"
            /\ decoded' = IF r.ok THEN r.v ELSE NullArg
    /\ UNCHANGED <<desc, sent, room, wire>>

PbNext ==
    \/ \E m \in Structs[desc], size \in Sizes : Encode(m, size)
    \/ \E u \in Unknown : Extend(u)
    \/ \E n \in 0..(Len(wire) - 1) : Lose(n)
    \/ Decode

PbSpec == PbInit /\ [][PbNext]_pbVars

-----------------------------------------------------------------------------
(* What protocol buffers promise of two messages in one stream: scalars of *)
(* the later one win, arrays are joined, submessages are merged.           *)

\* The field a slot belongs to: of a oneof's fields the one that is set.
SlotField(d, slot, n) ==
    LET fields == {Msgs[d][i] : i \in DOMAIN Msgs[d]}
        of == {f \in fields : f.slot = slot}
    IN  CHOOSE f \in of : f.ht = "ONEOF" /\ (\E g \in of : g.tag = n) => f.tag = n

RECURSIVE Merged(_, _, _), ArraysFit(_, _)

\* A field of the later message that pb_encode leaves out says nothing.
Silent(f, b) ==
    CASE f.at = "CALLBACK" -> b.d \in {NullArg, <<>>}
      [] f.at = "STATIC" /\ f.ht = "REQUIRED" -> FALSE
      [] f.at = "STATIC" /\ f.ht = "OPTIONAL" /\ f.soff = 0 ->
            b.d = (IF Packable(f) THEN {} ELSE <<>>)
      [] OTHER -> b.n = 0

MergedSlot(f, a, b) ==
    CASE Silent(f, b) -> a
      [] ~Silent(f, b) /\ f.ht = "REPEATED" /\ f.at = "STATIC" ->
            [n |-> a.n + b.n, d |-> a.d \o b.d]
      [] ~Silent(f, b) /\ f.ht # "REPEATED" /\ f.at = "STATIC" /\ IsSubmsg(f)
            /\ (f.ht # "ONEOF" \/ a.n = b.n) ->
            [n |-> b.n, d |-> Merged(f.sub, a.d, b.d)]
      [] OTHER -> b

Merged(d, a, b) ==
    [slot \in DOMAIN a |-> MergedSlot(SlotField(d, slot, b[slot].n), a[slot], b[slot])]

RECURSIVE Arriving(_, _, _)

(* What of a message arrives: a callback that is set has read the bytes,   *)
(* none where there were none; inside oneofs and arrays none is set.       *)
Arriving(d, m, armed) ==
    [slot \in DOMAIN m |->
        LET f == SlotField(d, slot, m[slot].n)
            a == m[slot]
        IN  CASE f.at = "CALLBACK" ->
                    IF ~armed THEN [a EXCEPT !.d = NullArg]
                    ELSE [a EXCEPT !.d = IF a.d = NullArg THEN <<>> ELSE a.d]
              [] f.at = "STATIC" /\ IsSubmsg(f) /\ f.ht = "REPEATED" ->
                    [a EXCEPT !.d = [k \in DOMAIN a.d |-> Arriving(f.sub, a.d[k], FALSE)]]
              [] f.at = "STATIC" /\ IsSubmsg(f) /\ f.ht # "REPEATED" /\ a.d # NullArg ->
                    [a EXCEPT !.d = Arriving(f.sub, a.d, armed /\ f.ht # "ONEOF")]
              [] OTHER -> a]

Sent == IF Len(sent) = 1 THEN sent[1] ELSE Merged(desc, sent[1], sent[2])

\* No array of the struct holds more than its field has places.
ArraysFit(d, m) ==
    \A slot \in DOMAIN m :
        LET f == SlotField(d, slot, m[slot].n)
        IN  f.at = "STATIC" =>
                /\ f.ht = "REPEATED" => m[slot].n <= f.max
                /\ IsSubmsg(f) /\ f.ht # "REPEATED" /\ m[slot].d # NullArg =>
                       ArraysFit(f.sub, m[slot].d)

\* The struct of the first i fields of m and n elements of the next.
Prefix(m, i, n) ==
    LET before == {Msgs[desc][j].tag : j \in 1..i}
        next == {Msgs[desc][j].tag : j \in {i + 1} \cap DOMAIN Msgs[desc]}
    IN  [slot \in DOMAIN m |->
            LET f == SlotField(desc, slot, m[slot].n)
                k == Min({n, m[slot].n})
            IN  CASE f.tag \in before -> m[slot]
                  [] f.tag \in next /\ f.at = "STATIC" /\ f.ht = "REPEATED" ->
                        [n |-> k, d |-> SubSeq(m[slot].d, 1, k)]
                  [] OTHER -> ZeroOf(desc)[slot]]

Written(m) == pb_encode(pb_ostream_from_buffer(PB_SIZE_MAX), desc, m).out

\* A 32-bit value, unsigned or with its sign extended to 64 bits, is read by
\* pb_decode_varint32 and pb_decode_varint alike, however many bytes it is spent on.
VarintsAgree ==
    stage = "varint" =>
        LET a == pb_decode_varint(pb_istream_from_buffer(wire))
            b == pb_decode_varint32(pb_istream_from_buffer(wire))
        IN  a.ok /\ (a.v \subseteq 0..31 \/ 31..63 \subseteq a.v) =>
                b.ok /\ b.pos = a.pos /\ b.v = a.v \cap 0..31

(* What pb_encode writes, pb_decode reads back, field for field, whatever  *)
(* unknown field stands around it and whatever message preceded it in the  *)
(* stream; it refuses only an array that has outgrown its places.  And its *)
(* two readers of a varint agree.                                          *)
ReadBack ==
    /\ stage \in {"read", "failed"} =>
        IF ArraysFit(desc, Sent) THEN stage = "read" /\ decoded = Arriving(desc, Sent, TRUE)
        ELSE stage = "failed"
    /\ VarintsAgree

(* pb_encode succeeds exactly when the size of its sizing pass fits the    *)
(* buffer, has then written that many bytes, and never more than fit.      *)
SizeIsExact ==
    sent # <<>> /\ stage \in {"wire", "refused"} =>
        LET size == pb_get_encoded_size(desc, Last(sent))
        IN  /\ stage = "refused" <=> size > room
            /\ stage = "refused" => Len(wire) <= room
            /\ stage = "wire" /\ Len(sent) = 1 /\ wire = Written(sent[1]) => Len(wire) = size

(* A message whose end is lost is refused, unless the cut is between two   *)
(* of its fields (or elements): then the fields before the cut are read,   *)
(* and none of them is a required field's absence.                         *)
CutNoticed ==
    stage = "readcut" =>
        \E i \in 0..Len(Msgs[desc]), n \in 0..Max({f.max : f \in ToSet(Msgs[desc])}) :
            /\ LET w == Written(Prefix(sent[1], i, n))
               IN  wire \in {w} \cup {u \o w : u \in Unknown} \cup {w \o u : u \in Unknown}
            /\ decoded = Arriving(desc, Prefix(sent[1], i, n), TRUE)
            /\ \A j \in DOMAIN Msgs[desc] : Msgs[desc][j].ht = "REQUIRED" => j <= i

=============================================================================
