-------------------------- MODULE EpochOwnership ---------------------------
(***************************************************************************)
(* What owning a run promises: one process at a time owns an unfinished    *)
(* run, and every new owner gets the next epoch.  DeliveryRun relies on it *)
(* when it names processes by their epoch and lets a resume start only     *)
(* after the previous process stopped.                                     *)
(***************************************************************************)
EXTENDS Naturals

CONSTANTS Processes, FirstOwner, Nobody

VARIABLES epoch, finished, holder

ownership == <<epoch, finished, holder>>

Begin == epoch = 1 /\ finished = FALSE /\ holder = FirstOwner

Acquire(p) ==
  /\ holder = Nobody /\ ~finished
  /\ holder' = p /\ epoch' = epoch + 1
  /\ UNCHANGED finished

Conclude(p) ==
  /\ holder = p /\ finished' = TRUE
  /\ UNCHANGED <<epoch, holder>>

Leave(p) ==
  /\ holder = p /\ holder' = Nobody
  /\ UNCHANGED <<epoch, finished>>

Change == \E p \in Processes : Acquire(p) \/ Conclude(p) \/ Leave(p)

Ownership == Begin /\ [][Change]_ownership
=============================================================================
