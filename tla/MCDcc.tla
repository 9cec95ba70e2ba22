-------------------------------- MODULE MCDcc --------------------------------
(* Dcc with three addresses, so that three DCCs exist at most.  On four slots *)
(* the table is never full and every deletion is carried out, also one of     *)
(* three; on three slots it may be full, and the slot past the last may hold  *)
(* the address of a DCC that is in the table somewhere else.                  *)
EXTENDS Dcc, TLC

Symmetry == Permutations(Addr) \cup Permutations(Nicks)

=============================================================================
