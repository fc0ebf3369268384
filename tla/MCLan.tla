-------------------------------- MODULE MCLan --------------------------------
(***************************************************************************)
(* One instance of what the local network reaches: the pairing server and  *)
(* the mDNS advertisement.  They share no state, and a behaviour runs one  *)
(* of them, named by part; the variables of the other stay as they are.    *)
(***************************************************************************)
EXTENDS MCMdns, MCZeroconf

VARIABLE part           \* "pairing" or "mdns"

LanInit == part \in {"pairing", "mdns"} /\ ZInit /\ Init

LanNext ==
    \/ part = "pairing" /\ ZNext /\ UNCHANGED <<part, vars>>
    \/ part = "mdns" /\ Next /\ UNCHANGED <<part, zvars>>

\* The fairness of ZFairSpec and of Spec, each in its part.
LanSpec ==
    /\ LanInit /\ [][LanNext]_<<part, vars, zvars>>
    /\ WF_zvars(part = "pairing" /\ PollAccepts)
    /\ WF_zvars(part = "pairing" /\ bell_handle_request)
    /\ WF_zvars(part = "pairing" /\ zeroconf_get_credentials)
    /\ WF_vars(part = "mdns" /\ Worker)
    /\ WF_vars(part = "mdns" /\ StopWaits)
    /\ WF_vars(part = "mdns" /\ StopCloses)
    /\ WF_vars(part = "mdns" /\ StopFrees)

=============================================================================
