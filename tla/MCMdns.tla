------------------------------- MODULE MCMdns -------------------------------
(* MdnsService for TLC: a service, what is asked for, and short names.     *)
EXTENDS MdnsService

\* Characters: "a" is 97, "L" of "local" 108, "s" 115, "t" 116, "=" 61.
MCType == <<<<95, 115>>, <<95, 116>>, <<108, 111>>>>        \* _s._t.lo
MCServices == <<<<95, 115, 101>>, <<95, 100>>, <<95, 117>>, <<108, 111>>>>
MCDevices == {<<<<97>>>>, <<<<97, 46>>, <<108, 111>>>>, <<<<95, 116>>>>}
MCAddress == <<192, 168, 0, 7>>
MCTxts == {<<>>, <<[key |-> <<118>>, value |-> <<49>>]>>,
           <<[key |-> <<118>>, value |-> <<49, 46>>], [key |-> <<99, 112>>, value |-> <<47>>],
             [key |-> <<115>>, value |-> <<>>]>>}

Ask(type, name) == [type |-> type, name |-> name]
MCQueries ==
    {<<Ask(PTR, MCType)>>, <<Ask(SRV, MCType)>>, <<Ask(PTR, MCServices), Ask(PTR, MCType)>>,
     <<Ask(ANY, <<<<95, 115>>>>), Ask(PTR, <<<<97>>>> \o MCType), Ask(PTR, MCType)>>}

\* A definition of its own, which TLC evaluates once.
MCDatagrams == Arriving

=============================================================================
