------------------------------- MODULE MCApi --------------------------------
(***************************************************************************)
(* One instance of the public calls and of the requests they make once a   *)
(* login has succeeded.  The two are joined at the result of a call only,  *)
(* so that each takes the other's results as they come; they share no      *)
(* state, and a behaviour runs one of them, named by part.                 *)
(***************************************************************************)
EXTENDS SpClient, EspSpotify

VARIABLE part           \* "calls" or "requests"

ApiInit == part \in {"calls", "requests"} /\ Init /\ EspInit

ApiNext ==
    \/ part = "calls" /\ EspNext /\ UNCHANGED <<part, vars>>
    \/ part = "requests" /\ Next /\ UNCHANGED <<part, espVars>>

\* The fairness of FairSpec, in its part.
ApiSpec ==
    /\ ApiInit /\ [][ApiNext]_<<part, vars, espVars>>
    /\ WF_vars(part = "requests" /\ AwaitToken)
    /\ WF_vars(part = "requests" /\ AwaitKey)

=============================================================================
