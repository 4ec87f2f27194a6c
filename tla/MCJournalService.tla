-------------------------- MODULE MCJournalService --------------------------
(* Two processes open one journal; the callers belong to the first of them.  *)
EXTENDS JournalService

MCHome == [c \in Caller |-> "runner"]
=============================================================================
