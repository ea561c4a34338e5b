------------------------ MODULE MCLocationIngestion ------------------------
(* No property looks at one upload or position rather than another. *)
EXTENDS LocationIngestion, TLC

Symmetric == Permutations(Calls) \cup Permutations(Points)

=============================================================================
