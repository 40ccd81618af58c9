-------------------------- MODULE MCControlArbiter --------------------------
(* Model values for TLC and the symmetry of the clients.                   *)
EXTENDS ControlArbiter

ClientSymmetry == Permutations(Clients)
=============================================================================
