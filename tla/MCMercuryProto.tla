--------------------------- MODULE MCMercuryProto ---------------------------
(***************************************************************************)
(* Inputs of the handshake: logins, the access point's answers, and what a *)
(* welcome's body may decrypt to.                                          *)
(***************************************************************************)
EXTENDS MercuryAp, MCDescriptors

MCUsers == {<<>>, <<{0, 5, 6}>>, <<{1}, {0, 5, 6}, {1, 3}>>, <<{1, 3}, {1, 5, 6}, {1, 4, 5}, {0}>>}

\* Bytes whose sextets are every edge: 62 and 63, zeros, and each padding length.
Blobs == {<<{}>>, <<0..7, 3..7>>, <<{0}, {7, 6}, 0..7>>, <<0..7, {}, {1}, {5}>>}
LongBlob == <<{}, {}, {1, 4}, {6}, 0..7, {0}, {3}, {2}, {7, 1}, {}, {0}, {0}, {5}>>

MCCalls ==
    {[auth |-> [type |-> 1, blob |-> b], user |-> <<{0, 5, 6}>>] : b \in Blobs \cup {LongBlob}}
    \cup {[auth |-> [type |-> 2, blob |-> LongBlob], user |-> u] : u \in MCUsers}

\* Names and credentials of a welcome.
MCNames == {<<>>, <<{1, 3}, {1, 5, 6}, {1, 4, 5}, {0}>>}
MCCreds == {<<{1, 3}, {1}, {}, {1, 4}>>}

\* The first byte is the sent one; an overlong size is cut, and its rest is read on.
MCGarbled ==
    LET ArSize == 24
        Cycle(bytes) == [i \in 1..ArSize |-> bytes[(i % Len(bytes)) + 1]]
    IN  {Cycle(bytes) : bytes \in
            {<<{}>>,                                            \* nothing at all
             <<{0}, {1, 3}>>, <<{1, 3}, {1}>>,                  \* names of one byte, of two
             <<{}, {1, 4, 5}, {0}>>,                            \* one byte each, zero
             <<{0}, {1, 4, 5}, {0, 1}, {1, 3}, {}, {4}>>,       \* both fields in turn
             <<{2}, {1, 4, 5}, {2}>>,                           \* credentials up to the end
             <<{1, 4, 5}>>, <<{1, 3}>>,                         \* sizes that are too long
             <<{0, 7}, {1}, {1, 4, 5}>>, <<{1, 2, 5, 6}, {0}, {1, 4, 5}>>}}

Key == <<{7}, {0}, {1}>>
MCServerKeys == {Key, <<{1}, {4}>>, Key \o <<{1, 4, 6}>>}

\* Field 12 as a string (of one and of nine bytes), as varints (16 reads as a tag), and in 32 bits.
MCExtra ==
    {<<>>, <<{1, 5, 6}, {0}, {4}>>,
     <<{1, 5, 6}, {0, 3}>> \o [i \in 1..9 |-> {1, 3}],
     <<{5, 6}, {3}>>, <<{5, 6}, {4}>>, <<{5, 6}, {7, 3}, {0}>>, <<{5, 6}, {1, 4, 6}>>,
     <<{0, 2, 5, 6}, {0}, {4, 6}, {3, 4, 5, 6, 7}, {}>>}

=============================================================================
