------------------------------- MODULE MCSignerKeys -------------------------------
(* The provider's own agent and another, two threads, two key versions each. *)
EXTENDS SignerKeys, TLC

ThreadSymmetry == Permutations(Threads)
=============================================================================
