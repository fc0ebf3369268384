----------------------------- MODULE PbIterator -----------------------------
(***************************************************************************)
(* The iterator of nanopb on its way over a message: the encoder takes it  *)
(* from field to field, the decoder also to whatever tag comes next.       *)
(***************************************************************************)
EXTENDS PbDescriptor

CONSTANT Tags           \* the tags looked for

\* A field as PB_BIND takes it, one that passes the static assertions.
IsPbField(f) ==
    /\ {f.tag, f.max} \subseteq Nat \ {0} /\ {f.off, f.soff, f.size} \subseteq Nat
    /\ f.lt \in ToSet(LTypes) /\ f.ht \in ToSet(HTypes) /\ f.at \in ToSet(ATypes)
    /\ f.width \in {1, 2, 4, 8} /\ PB_FIELDINFO_ASSERT(f)

ASSUME DescriptorAssumption ==
    /\ Tags \subseteq Nat
    /\ \A d \in DOMAIN Msgs :
        /\ Msgs[d] \in Seq(ToSet(Msgs[d])) /\ Msgs[d] # <<>>
        /\ \A i \in DOMAIN Msgs[d] : IsPbField(Msgs[d][i])
        /\ \A i, j \in DOMAIN Msgs[d] : i < j => Msgs[d][i].tag < Msgs[d][j].tag

VARIABLES on,       \* the message
          iter,     \* pb_field_iter_t
          asked     \* the search that brought it here: its tag, its answer and where
                    \* it began; NullArg if a step did

iterVars == <<on, iter, asked>>

IterInit ==
    /\ on \in DOMAIN Msgs
    /\ iter = pb_field_iter_begin(on)
    /\ asked = NullArg

NextField ==
    /\ iter' = pb_field_iter_next(on, iter)
    /\ asked' = NullArg
    /\ UNCHANGED on

FindField(tag) ==
    LET r == pb_field_iter_find(on, iter, tag)
    IN  /\ iter' = r.it
        /\ asked' = [tag |-> tag, found |-> r.found, from |-> iter.index]
        /\ UNCHANGED on

IterNext == NextField \/ \E tag \in Tags : FindField(tag)

IterSpec == IterInit /\ [][IterNext]_iterVars

-----------------------------------------------------------------------------

\* A known field is one a search may find; extension ranges are none.
Known(d, tag) == \E i \in DOMAIN Msgs[d] : Msgs[d][i].tag = tag /\ Msgs[d][i].lt # "EXTENSION"

(* A descriptor whose fields pass the static assertions is read back field *)
(* by field, whatever the width each is packed in, with the right          *)
(* submessage and place among the required fields; a search finds exactly  *)
(* the fields there are, from any field, and one that fails ends where it  *)
(* began (load_descriptor_values, advance_iterator, pb_field_iter_find).   *)
DescriptorReadBack ==
    LET fields == Msgs[on]
        field == fields[iter.index + 1]
    IN  /\ \A key \in {"tag", "lt", "ht", "at", "size", "max", "off", "soff"} :
                iter.f[key] = field[key]
        /\ SubmsgDesc(on, iter) = (IF IsSubmessage(field) THEN field.sub ELSE "none")
        /\ iter.req = Cardinality({i \in 1..iter.index : fields[i].ht = "REQUIRED"})
        /\ asked # NullArg =>
            /\ asked.found /\ field.lt # "EXTENSION" <=> Known(on, asked.tag)
            /\ asked.found => field.tag = asked.tag
            /\ ~asked.found => iter.index = asked.from

=============================================================================
