---------------------------- MODULE MCConnection ----------------------------
(* Connection on small instances.  The limits keep the order of the code's:  *)
(* TIME_WARP < TIME_RETRY < TIME_STONED, and a gap that may exceed TIME_WARP. *)
EXTENDS Connection

BackOrAhead == {-2, 2}

=============================================================================
