------------------------------ MODULE MCDevJobs ------------------------------
(* Symmetry for the model checking of DevJobs. *)
EXTENDS DevJobs, TLC

\* No definition tells one polling thread from another.
Symmetry == Permutations(Threads)

=============================================================================
