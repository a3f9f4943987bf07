---------------------------- MODULE MCLeaseQueue ----------------------------
(* LeaseQueue for TLC: two kinds of symmetric model values. *)
EXTENDS LeaseQueue, TLC

Symmetry == Permutations(Run) \cup Permutations(Worker)
=============================================================================
