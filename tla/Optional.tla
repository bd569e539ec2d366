------------------------------- MODULE Optional -------------------------------
(***************************************************************************)
(* A value that may be absent.                                             *)
(***************************************************************************)
CONSTANT None   \* what is in its place: None of the programs, null of their files
===============================================================================
