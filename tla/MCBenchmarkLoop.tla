---------------------------- MODULE MCBenchmarkLoop ----------------------------
(***************************************************************************)
(* Instance of BenchmarkLoop for TLC: a job and the server's disconnect on *)
(* the first connection, another job on the second.                        *)
(***************************************************************************)
EXTENDS BenchmarkLoop, TLC

CONSTANTS job, bye, later, k1

MCSignedBy == job :> k1 @@ bye :> k1 @@ later :> k1
MCChannel == job :> 1 @@ bye :> 1 @@ later :> 2
================================================================================
