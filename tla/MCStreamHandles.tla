---------------------------- MODULE MCStreamHandles ----------------------------
(***************************************************************************)
(* Instance of StreamHandles for TLC: the calls are interchangeable.       *)
(***************************************************************************)
EXTENDS StreamHandles, TLC

CallerSymmetry == Permutations(Callers)
================================================================================
