---------------------------- MODULE RunOwnership ----------------------------
(***************************************************************************)
(* How a resume becomes the owner of a run: the lock file of the run       *)
(* directory (journal/run_lock.py, POSIX branch), the owner epoch of the   *)
(* journal and the order in which runtime/resume.py takes them.            *)
(*                                                                         *)
(* A lock file is an inode: the path may point to a newer one while an old *)
(* descriptor stays open.  An advisory lock belongs to a process and ends  *)
(* with it.  Every process has its own PID and start fingerprint, all on   *)
(* one host; a process acquires at most once.                              *)
(***************************************************************************)
EXTENDS Naturals, FiniteSets

CONSTANTS Processes, FirstOwner, Nobody

ASSUME ProcessAssumption ==
  IsFiniteSet(Processes) /\ FirstOwner \in Processes /\ Nobody \notin Processes

\* Every process creates at most one lock file, named after it.
Inodes == Processes
NoFile == Nobody

VARIABLES
  path,      \* the inode run.lock names, or NoFile
  content,   \* metadata of each inode: PID and owner epoch
  flock,     \* the process that has the advisory lock of an inode
  epoch,     \* runs.owner_epoch
  finished,  \* runs.state is terminal
  pc,        \* position of each process
  want,      \* the epoch a process asks for
  desc,      \* the inode a process has open
  crashed    \* history: some process died

vars == <<path, content, flock, epoch, finished, pc, want, desc, crashed>>

Empty == [pid |-> Nobody, epoch |-> 0]
MaxEpoch == Cardinality(Processes)
Positions ==
  {"idle", "create", "created", "open", "opened", "locked", "truncate", "write", "verify",
   "held", "owner", "unlinked", "released", "discard", "gone"}

\* Every variable has its type; an epoch is granted at most once per process.
TypeOK ==
  /\ path \in Inodes \cup {NoFile}
  /\ content \in [Inodes -> [pid : Processes \cup {Nobody}, epoch : 0 .. MaxEpoch + 1]]
  /\ flock \in [Inodes -> Processes \cup {Nobody}]
  /\ epoch \in 1 .. MaxEpoch
  /\ finished \in BOOLEAN
  /\ pc \in [Processes -> Positions]
  /\ want \in [Processes -> 0 .. MaxEpoch + 1]
  /\ desc \in [Processes -> Inodes \cup {NoFile}]
  /\ crashed \in BOOLEAN

\* The run that created the directory holds its lock under epoch 1.
Init ==
  /\ path = FirstOwner
  /\ content = [i \in Inodes |-> IF i = FirstOwner THEN [pid |-> FirstOwner, epoch |-> 1]
                                                   ELSE Empty]
  /\ flock = [i \in Inodes |-> IF i = FirstOwner THEN FirstOwner ELSE Nobody]
  /\ epoch = 1
  /\ finished = FALSE
  /\ pc = [p \in Processes |-> IF p = FirstOwner THEN "owner" ELSE "idle"]
  /\ want = [p \in Processes |-> IF p = FirstOwner THEN 1 ELSE 0]
  /\ desc = [p \in Processes |-> IF p = FirstOwner THEN FirstOwner ELSE NoFile]
  /\ crashed = FALSE

Alive(p) == pc[p] \notin {"idle", "gone"}

\* Mutant of Intact: neither the link count nor the identity of the file is checked.
IntactAlways(p) == TRUE

\* The open file is the one the path names, and so has one link.
Intact(p) == path = desc[p]

Goto(p, position) == pc' = [pc EXCEPT ![p] = position]

\* Unlock and close whatever the process has.
Unlocked(p) == [i \in Inodes |-> IF flock[i] = p THEN Nobody ELSE flock[i]]

\* An error of the acquisition: unlock, close, give up.
Refuse(p) ==
  /\ flock' = Unlocked(p)
  /\ Goto(p, "gone")
  /\ UNCHANGED <<path, content, epoch, finished, want, desc, crashed>>

\* Read-only preflight of the journal.  A finished run is refused, and so is an
\* ambiguous one when no policy was given.
Preflight(p) ==
  /\ pc[p] = "idle"
  /\ \/ Refuse(p)
     \/ /\ ~finished
        /\ want' = [want EXCEPT ![p] = epoch + 1]
        /\ Goto(p, "create")
        /\ UNCHANGED <<path, content, flock, epoch, finished, desc, crashed>>

\* Exclusive creation of the lock file; when it exists it is opened instead.
CreateLockFile(p) ==
  /\ pc[p] = "create"
  /\ IF path = NoFile
       THEN path' = p /\ desc' = [desc EXCEPT ![p] = p] /\ Goto(p, "created")
       ELSE UNCHANGED <<path, desc>> /\ Goto(p, "open")
  /\ UNCHANGED <<content, flock, epoch, finished, want, crashed>>

\* The new file is locked, unless a process that opened it meanwhile was faster.
LockCreated(p) ==
  /\ pc[p] = "created"
  /\ IF flock[desc[p]] = Nobody
       THEN flock' = [flock EXCEPT ![desc[p]] = p] /\ Goto(p, "truncate")
       ELSE flock' = flock /\ Goto(p, "discard")
  /\ UNCHANGED <<path, content, epoch, finished, want, desc, crashed>>

\* Mutant of DiscardCreated: the file that could not be locked stays.
DiscardKeepsFile(p) == pc[p] = "discard" /\ Refuse(p)

\* A creation that failed removes its own file.
DiscardCreated(p) ==
  /\ pc[p] = "discard"
  /\ path' = IF Intact(p) THEN NoFile ELSE path
  /\ Goto(p, "gone")
  /\ UNCHANGED <<content, flock, epoch, finished, want, desc, crashed>>

OpenExisting(p) ==
  /\ pc[p] = "open"
  /\ \/ path = NoFile /\ Refuse(p)
     \/ /\ path # NoFile
        /\ desc' = [desc EXCEPT ![p] = path]
        /\ Goto(p, "opened")
        /\ UNCHANGED <<path, content, flock, epoch, finished, want, crashed>>

\* Non-blocking lock of the opened file, after a check that the path had not moved.
TryLock(p) ==
  /\ pc[p] = "opened"
  /\ \/ (~Intact(p) \/ flock[desc[p]] # Nobody) /\ Refuse(p)
     \/ /\ flock[desc[p]] = Nobody
        /\ flock' = [flock EXCEPT ![desc[p]] = p]
        /\ Goto(p, "locked")
        /\ UNCHANGED <<path, content, epoch, finished, want, desc, crashed>>

\* The recorded owner must be a process proven absent, one epoch behind.
Stale(p) ==
  LET previous == content[desc[p]] IN
    /\ Intact(p) /\ previous # Empty
    /\ ~Alive(previous.pid)
    /\ want[p] = previous.epoch + 1

ClassifyOwner(p) ==
  /\ pc[p] = "locked"
  /\ \/ Stale(p) /\ Goto(p, "truncate")
        /\ UNCHANGED <<path, content, flock, epoch, finished, want, desc, crashed>>
     \/ Refuse(p)  \* not stale, or stale and started without --take-over

\* The metadata is rewritten in place: truncated, then written and synced.
Truncate(p) ==
  /\ pc[p] = "truncate"
  /\ content' = [content EXCEPT ![desc[p]] = Empty]
  /\ Goto(p, "write")
  /\ UNCHANGED <<path, flock, epoch, finished, want, desc, crashed>>

WriteMetadata(p) ==
  /\ pc[p] = "write"
  /\ content' = [content EXCEPT ![desc[p]] = [pid |-> p, epoch |-> want[p]]]
  /\ Goto(p, "verify")
  /\ UNCHANGED <<path, flock, epoch, finished, want, desc, crashed>>

\* The path must still name the written file; LockProtects says that it always does.
VerifyIdentity(p) ==
  /\ pc[p] = "verify" /\ Intact(p)
  /\ Goto(p, "held")
  /\ UNCHANGED <<path, content, flock, epoch, finished, want, desc, crashed>>

\* Mutant of AdvanceEpoch: the run state read before the lock is trusted.
AdvanceUnchecked(p) ==
  /\ pc[p] = "held" /\ epoch + 1 = want[p]
  /\ epoch' = want[p]
  /\ Goto(p, "owner")
  /\ UNCHANGED <<path, content, flock, finished, want, desc, crashed>>

\* Under the lock the preflight is repeated and must agree with the first one, and the
\* journal's epoch is advanced by compare-and-swap.  Of the run states only finished
\* ones are told apart; the refusal of any other change is a ReleaseUnlink.
AdvanceEpoch(p) ==
  /\ pc[p] = "held" /\ epoch + 1 = want[p] /\ ~finished
  /\ epoch' = want[p]
  /\ Goto(p, "owner")
  /\ UNCHANGED <<path, content, flock, finished, want, desc, crashed>>

\* The owner runs the rest of the run (DeliveryRun) to a terminal state.
FinishRun(p) ==
  /\ pc[p] = "owner" /\ ~finished
  /\ finished' = TRUE
  /\ UNCHANGED <<path, content, flock, epoch, pc, want, desc, crashed>>

\* Release, also when anything under the lock raised: unlink the own path, then unlock.
ReleaseUnlink(p) ==
  /\ pc[p] \in {"held", "owner"}
  /\ path' = IF Intact(p) THEN NoFile ELSE path
  /\ Goto(p, "unlinked")
  /\ UNCHANGED <<content, flock, epoch, finished, want, desc, crashed>>

ReleaseUnlock(p) ==
  /\ pc[p] = "unlinked"
  /\ flock' = Unlocked(p)
  /\ Goto(p, "released")
  /\ UNCHANGED <<path, content, epoch, finished, want, desc, crashed>>

Exit(p) ==
  /\ pc[p] = "released"
  /\ Goto(p, "gone")
  /\ UNCHANGED <<path, content, flock, epoch, finished, want, desc, crashed>>

\* The operating system unlocks what a dead process had locked.
Crash(p) ==
  /\ Alive(p)
  /\ flock' = Unlocked(p)
  /\ crashed' = TRUE
  /\ Goto(p, "gone")
  /\ UNCHANGED <<path, content, epoch, finished, want, desc>>

Step(p) ==
  \/ Preflight(p) \/ CreateLockFile(p) \/ LockCreated(p) \/ DiscardCreated(p)
  \/ OpenExisting(p) \/ TryLock(p) \/ ClassifyOwner(p)
  \/ Truncate(p) \/ WriteMetadata(p) \/ VerifyIdentity(p)
  \/ AdvanceEpoch(p) \/ FinishRun(p)
  \/ ReleaseUnlink(p) \/ ReleaseUnlock(p) \/ Exit(p) \/ Crash(p)

Next == \E p \in Processes : Step(p)

Spec == Init /\ [][Next]_vars

-----------------------------------------------------------------------------
(* Properties.                                                             *)

Holds(p) == pc[p] \in {"verify", "held", "owner"}

\* At most one process has the lock, the path names its file and the file its owner:
\* neither the last check of acquire_run_lock nor RunLock.require_owner can fail once
\* the metadata is written.
LockProtects ==
  \A p \in Processes : Holds(p) =>
    /\ path = desc[p] /\ content[path] = [pid |-> p, epoch |-> want[p]]
    /\ \A q \in Processes : Holds(q) => q = p

\* Without a crash no lock file is left behind, however many acquisitions raced,
\* failed or were refused.
OnlyCrashesLeaveALock ==
  ~crashed /\ (\A p \in Processes : ~Alive(p)) => path = NoFile

\* The lock file and the epoch check together implement exclusive ownership with a
\* fresh epoch for every owner, of unfinished runs only.
Holder ==
  IF \E p \in Processes : pc[p] = "owner" THEN CHOOSE p \in Processes : pc[p] = "owner"
                                          ELSE Nobody
Abstract == INSTANCE EpochOwnership WITH holder <- Holder
ImplementsOwnership == Abstract!Ownership

\* REL-012: a dead same-host owner can be taken over, so the epoch in the lock it left
\* is the one a resume asks to succeed.
DeadOwnerCanBeTakenOver ==
  (\A p \in Processes : ~Alive(p)) /\ path # NoFile /\ content[path] # Empty =>
    content[path].epoch = epoch
=============================================================================
