------------------------------ MODULE MCIngest ------------------------------
(***************************************************************************)
(* Instances of Ingest for TLC: two rows, two connections.                 *)
(***************************************************************************)
EXTENDS Ingest, TLC

Symmetry == Permutations(Keys) \cup Permutations(Conns)

=============================================================================
