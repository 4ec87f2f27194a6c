------------------------------- MODULE Gates -------------------------------
(***************************************************************************)
(* A validation is a sequence of gates: the code of the first one that     *)
(* does not let pass, or "ok".                                             *)
(***************************************************************************)
EXTENDS Integers, Sequences, FiniteSets

Gate(passes, code) == IF passes THEN "ok" ELSE code

FirstError(codes) ==
  LET failed == {i \in DOMAIN codes : codes[i] # "ok"}
  IN  IF failed = {} THEN "ok" ELSE codes[CHOOSE i \in failed : \A j \in failed : i <= j]
=============================================================================
