------------------------------- MODULE MCWire -------------------------------
(***************************************************************************)
(* One instance of the bytes on the wire: the enciphered frames, the       *)
(* messages of the login handshake, and nanopb's iterator over the         *)
(* descriptors they are encoded by.  They share no state, and a behaviour  *)
(* runs one of them, named by part; the variables of the others stay as    *)
(* they are.                                                               *)
(***************************************************************************)
EXTENDS MCMercuryProto, Shannon, PbIterator

VARIABLE part           \* "frames", "handshake" or "iterator"

FramesOff == Init /\ build = "posix"

IteratorOff == on = "FeatureSet" /\ iter = pb_field_iter_begin(on) /\ asked = NullArg

WireInit ==
    \/ part = "frames" /\ Init /\ ProtoInit /\ IteratorOff
    \/ part = "handshake" /\ ProtoInit /\ FramesOff /\ IteratorOff
    \/ part = "iterator" /\ IterInit /\ FramesOff /\ ProtoInit

WireNext ==
    \/ part = "frames" /\ Next /\ UNCHANGED <<part, protoVars, iterVars>>
    \/ part = "handshake" /\ ProtoNext /\ UNCHANGED <<part, vars, iterVars>>
    \/ part = "iterator" /\ IterNext /\ UNCHANGED <<part, vars, protoVars>>

WireSpec == WireInit /\ [][WireNext]_<<part, vars, protoVars, iterVars>>

=============================================================================
