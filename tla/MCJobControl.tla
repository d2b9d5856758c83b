---------------------------- MODULE MCJobControl ----------------------------
(* Model-checking instances of JobControl. *)
EXTENDS JobControl, TLC

SymmetricNodes == Permutations(Nodes)

=============================================================================
