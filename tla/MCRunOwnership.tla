--------------------------- MODULE MCRunOwnership ---------------------------
(***************************************************************************)
(* The owner of a new run and the processes that try to resume it.         *)
(***************************************************************************)
EXTENDS RunOwnership

CONSTANTS p1, p2, p3, p4

Four == {p1, p2, p3, p4}
=============================================================================
