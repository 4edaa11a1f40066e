------------------------------ MODULE MCGoStream -------------------------------
(***************************************************************************)
(* Instance of GoStream for TLC: one reader, two closers, one other caller *)
(* whose connects sweep idle handles.                                      *)
(***************************************************************************)
EXTENDS GoStream

CONSTANTS opener, closer, reader, other

MCClosers == {opener, closer}
MCCallers == MCClosers \cup {reader, other}
================================================================================
