--------------------------- MODULE MCMediatorJournal ---------------------------
(***************************************************************************)
(* Instance of MediatorJournal for TLC.                                    *)
(***************************************************************************)
EXTENDS MediatorJournal
================================================================================
