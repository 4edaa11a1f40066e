---------------------------- MODULE MCAgentIdentity ----------------------------
(***************************************************************************)
(* Instance of AgentIdentity for TLC: two calls through one provider and   *)
(* one through another.                                                    *)
(***************************************************************************)
EXTENDS AgentIdentity, TLC

CONSTANTS p1, p2, c1, c2, d1

MCOf == c1 :> p1 @@ c2 :> p1 @@ d1 :> p2
================================================================================
