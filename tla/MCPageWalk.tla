-------------------------------- MODULE MCPageWalk --------------------------------
(* Pages of two, a cap of two, and up to five records: three of the name, one of them
   named in its bytes only, one of another name, and one that carries no name at all. *)
EXTENDS PageWalk

MCNamed == {1, 2, 4}
MCInSummary == {1, 3, 4}
MCInBytes == {2}
MCLimits == 0..3
MCOffsets == 0..4
=============================================================================
