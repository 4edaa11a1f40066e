----------------------------- MODULE MCLiveStream -----------------------------
(***************************************************************************)
(* Instance of LiveStream for TLC: two events for the first connection,    *)
(* one signed with another key, one of them and one more for the second    *)
(* connection, and one that arrives damaged.                               *)
(***************************************************************************)
EXTENDS LiveStream, TLC

CONSTANTS e1, e2, later, damaged, k1, k2

MCSignedBy == e1 :> k1 @@ e2 :> k2 @@ later :> k1 @@ damaged :> k1
MCChannel == e1 :> 1 @@ e2 :> 1 @@ later :> 2 @@ damaged :> 1
================================================================================
