----------------------------- MODULE MCDocumentSync -----------------------------
(***************************************************************************)
(* Instance of DocumentSync for TLC: a host that syncs, another client of   *)
(* the same owner, their clocks equal or either one ahead.                  *)
(***************************************************************************)
EXTENDS DocumentSync, TLC

CONSTANTS m1, h1, c1, c2

MCSkews == {[h \in {m1, h1} |-> IF h \in ahead THEN 2 ELSE 0] : ahead \in {{}, {m1}, {h1}}}
Symmetry == Permutations({c1, c2})
=============================================================================
