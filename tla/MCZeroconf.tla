---------------------------- MODULE MCZeroconf ----------------------------
(* Zeroconf for TLC: the order in which the fields come in a POST's body.  *)
EXTENDS Zeroconf

\* The order in which bell_handle_request looks for them.
UserFirst == <<"userName", "blob", "clientKey">>

=============================================================================
