------------------------- MODULE RunOwnershipProofs -------------------------
(***************************************************************************)
(* For any number of processes: the lock protects, only crashes leave a    *)
(* lock file, and the protocol implements EpochOwnership.                  *)
(*                                                                         *)
(* The inductive invariant.  A process past its flock call has the         *)
(* advisory lock of the file it opened (Locking).  From the moment it may  *)
(* rewrite that file the path names the file, and the file's creator is    *)
(* not about to discard it (Naming): a creator that lost the race for its  *)
(* own file leaves it empty, and an empty file is never taken over.        *)
(***************************************************************************)
EXTENDS RunOwnership, TLAPS

Past == {"locked", "truncate", "write", "verify", "held", "owner", "unlinked"}
Sure == {"truncate", "write", "verify", "held", "owner"}
Early == {"idle", "create", "created", "discard"}

\* The types the proofs use.
Types ==
  /\ path \in Inodes \cup {NoFile}
  /\ content \in [Inodes -> [pid : Processes \cup {Nobody}, epoch : Nat]]
  /\ flock \in [Inodes -> Processes \cup {Nobody}]
  /\ epoch \in Nat
  /\ finished \in BOOLEAN
  /\ pc \in [Processes -> Positions]
  /\ want \in [Processes -> Nat]
  /\ desc \in [Processes -> Inodes \cup {NoFile}]
  /\ crashed \in BOOLEAN

\* A process has a lock exactly while it is past its flock call and before its unlock.
Locking ==
  /\ \A i \in Inodes : flock[i] # Nobody => desc[flock[i]] = i /\ pc[flock[i]] \in Past
  /\ \A p \in Processes :
       /\ pc[p] \in Past => desc[p] \in Inodes /\ flock[desc[p]] = p
       /\ pc[p] = "opened" => desc[p] \in Inodes

\* A file exists once its creator got past the creation, and is empty until the creator
\* or a later owner writes it.
Creation ==
  /\ \A p \in Processes :
       /\ pc[p] \in Early => content[p] = Empty
       /\ pc[p] \in {"created", "discard"} => desc[p] = p
       /\ desc[p] \in Inodes => pc[desc[p]] \notin {"idle", "create"}
  /\ path # NoFile => pc[path] \notin {"idle", "create"}

\* A process that may write its file, or is yet to lock the file it created, has the
\* file the path names.
NamedBy(p) ==
  /\ pc[p] \in Sure => path = desc[p] /\ pc[desc[p]] \notin Early
  /\ pc[p] \in {"created", "discard"} => path = p
  /\ pc[p] \in {"verify", "held", "owner"} =>
       content[desc[p]] = [pid |-> p, epoch |-> want[p]]
Naming == \A p \in Processes : NamedBy(p)

\* Until a crash, somebody is responsible for the file at the path.
Responsible ==
  ~crashed /\ path # NoFile =>
    \E p \in Processes : desc[p] = path /\ pc[p] \in Sure \cup {"created", "discard"}

IInv == Types /\ Locking /\ Creation /\ Naming /\ Responsible

LEMMA TypesInit == Init => Types
<1> SUFFICES ASSUME Init PROVE Types
  OBVIOUS
<1> USE ProcessAssumption DEF Init, Inodes, NoFile
<1>1. content \in [Inodes -> [pid : Processes \cup {Nobody}, epoch : Nat]]
  BY DEF Empty
<1>2. pc \in [Processes -> Positions]
  BY DEF Positions
<1>3. want \in [Processes -> Nat] /\ epoch \in Nat
  OBVIOUS
<1>4. finished \in BOOLEAN /\ crashed \in BOOLEAN
  OBVIOUS
<1> QED
  BY <1>1, <1>2, <1>3, <1>4 DEF Types

LEMMA TypesNext == Types /\ [Next]_vars => Types'
<1> SUFFICES ASSUME Types, [Next]_vars PROVE Types'
  OBVIOUS
<1> USE ProcessAssumption DEF Types, Inodes, NoFile, Positions
<1>1. CASE UNCHANGED vars
  BY <1>1 DEF vars
<1>2. ASSUME NEW p \in Processes, Step(p) PROVE Types'
  <2>0. ASSUME Refuse(p) PROVE Types'
    BY <2>0 DEF Refuse, Goto, Unlocked
  <2>1. CASE Preflight(p)
    BY <2>1, <2>0 DEF Preflight, Goto
  <2>2. CASE CreateLockFile(p)
    BY <2>2 DEF CreateLockFile, Goto
  <2>3. CASE LockCreated(p)
    BY <2>3 DEF LockCreated, Goto
  <2>4. CASE DiscardCreated(p)
    BY <2>4 DEF DiscardCreated, Goto
  <2>5. CASE OpenExisting(p)
    BY <2>5, <2>0 DEF OpenExisting, Goto
  <2>6. CASE TryLock(p)
    BY <2>6, <2>0 DEF TryLock, Goto
  <2>7. CASE ClassifyOwner(p)
    BY <2>7, <2>0 DEF ClassifyOwner, Goto
  <2>8. CASE Truncate(p)
    BY <2>8 DEF Truncate, Goto, Empty
  <2>9. CASE WriteMetadata(p)
    BY <2>9 DEF WriteMetadata, Goto
  <2>10. CASE VerifyIdentity(p) \/ Exit(p)
    BY <2>10 DEF VerifyIdentity, Exit, Goto
  <2>11. CASE AdvanceEpoch(p)
    BY <2>11 DEF AdvanceEpoch, Goto
  <2>14. CASE FinishRun(p)
    BY <2>14 DEF FinishRun
  <2>12. CASE ReleaseUnlink(p)
    BY <2>12 DEF ReleaseUnlink, Goto
  <2>13. CASE ReleaseUnlock(p) \/ Crash(p)
    BY <2>13 DEF ReleaseUnlock, Crash, Goto, Unlocked
  <2> QED
    BY <1>2, <2>1, <2>2, <2>3, <2>4, <2>5, <2>6, <2>7, <2>8, <2>9, <2>10, <2>11, <2>12,
       <2>13, <2>14
       DEF Step
<1> QED
  BY <1>1, <1>2 DEF Next

LEMMA IInvInit == Init => IInv
<1> SUFFICES ASSUME Init PROVE IInv
  OBVIOUS
<1> USE ProcessAssumption DEF Init, Inodes, NoFile
<1>1. Types
  BY TypesInit
<1>2. Locking
  BY DEF Locking, Past
<1>3. Creation
  BY DEF Creation, Early, Empty
<1>4. Naming
  BY DEF Naming, NamedBy, Sure, Early
<1>5. Responsible
  BY DEF Responsible, Sure
<1> QED
  BY <1>1, <1>2, <1>3, <1>4, <1>5 DEF IInv

\* Two processes that may write the file at the path are one.
LEMMA SureIsUnique ==
  ASSUME Locking, Naming, NEW p \in Processes, NEW q \in Processes,
         pc[p] \in Sure, pc[q] \in Sure
  PROVE  p = q
<1>1. path = desc[p] /\ path = desc[q]
  BY DEF Naming, NamedBy
<1>2. flock[desc[p]] = p /\ flock[desc[q]] = q
  BY DEF Locking, Sure, Past
<1> QED
  BY <1>1, <1>2

\* Locks are taken and given up together with the position of the process.
LEMMA LockingNext == Types /\ Locking /\ Creation /\ [Next]_vars => Locking'
<1> SUFFICES ASSUME Types, Locking, Creation, [Next]_vars PROVE Locking'
  OBVIOUS
<1> USE ProcessAssumption DEF Types, Locking, Creation, Inodes, NoFile, Past, Positions
<1>1. CASE UNCHANGED vars
  BY <1>1 DEF vars
<1>2. ASSUME NEW p \in Processes, Step(p) PROVE Locking'
  <2>0. ASSUME Refuse(p) PROVE Locking'
    BY <2>0 DEF Refuse, Goto, Unlocked
  <2>1. CASE Preflight(p)
    BY <2>1, <2>0 DEF Preflight, Goto
  <2>2. CASE CreateLockFile(p)
    BY <2>2 DEF CreateLockFile, Goto
  <2>3. CASE LockCreated(p)
    BY <2>3 DEF LockCreated, Goto
  <2>4. CASE DiscardCreated(p)
    BY <2>4 DEF DiscardCreated, Goto, Intact
  <2>5. CASE OpenExisting(p)
    BY <2>5, <2>0 DEF OpenExisting, Goto
  <2>6. CASE TryLock(p)
    BY <2>6, <2>0 DEF TryLock, Goto
  <2>7. CASE ClassifyOwner(p)
    BY <2>7, <2>0 DEF ClassifyOwner, Goto
  <2>8. CASE Truncate(p)
    BY <2>8 DEF Truncate, Goto
  <2>9. CASE WriteMetadata(p)
    BY <2>9 DEF WriteMetadata, Goto
  <2>10. CASE VerifyIdentity(p)
    BY <2>10 DEF VerifyIdentity, Goto
  <2>11. CASE AdvanceEpoch(p)
    BY <2>11 DEF AdvanceEpoch, Goto
  <2>12. CASE FinishRun(p)
    BY <2>12 DEF FinishRun
  <2>13. CASE ReleaseUnlink(p)
    BY <2>13 DEF ReleaseUnlink, Goto, Intact
  <2>14. CASE ReleaseUnlock(p)
    BY <2>14 DEF ReleaseUnlock, Goto, Unlocked
  <2>15. CASE Exit(p)
    BY <2>15 DEF Exit, Goto
  <2>16. CASE Crash(p)
    BY <2>16 DEF Crash, Goto, Unlocked
  <2> QED
    BY <1>2, <2>1, <2>2, <2>3, <2>4, <2>5, <2>6, <2>7, <2>8,
       <2>9, <2>10, <2>11, <2>12, <2>13, <2>14, <2>15, <2>16 DEF Step
<1> QED
  BY <1>1, <1>2 DEF Next

\* Nothing is written to a file before its creator locked it.
LEMMA CreationNext == Types /\ Locking /\ Creation /\ Naming /\ [Next]_vars => Creation'
<1> SUFFICES ASSUME Types, Locking, Creation, Naming, [Next]_vars PROVE Creation'
  OBVIOUS
<1> USE ProcessAssumption DEF Types, Locking, Creation, Naming, NamedBy,
  Inodes, NoFile, Early, Past, Sure, Positions
<1>1. CASE UNCHANGED vars
  BY <1>1 DEF vars
<1>2. ASSUME NEW p \in Processes, Step(p) PROVE Creation'
  <2>0. ASSUME Refuse(p) PROVE Creation'
    BY <2>0 DEF Refuse, Goto, Unlocked
  <2>1. CASE Preflight(p)
    BY <2>1, <2>0 DEF Preflight, Goto
  <2>2. CASE CreateLockFile(p)
    BY <2>2 DEF CreateLockFile, Goto
  <2>3. CASE LockCreated(p)
    BY <2>3 DEF LockCreated, Goto
  <2>4. CASE DiscardCreated(p)
    BY <2>4 DEF DiscardCreated, Goto, Intact
  <2>5. CASE OpenExisting(p)
    BY <2>5, <2>0 DEF OpenExisting, Goto
  <2>6. CASE TryLock(p)
    BY <2>6, <2>0 DEF TryLock, Goto
  <2>7. CASE ClassifyOwner(p)
    BY <2>7, <2>0 DEF ClassifyOwner, Goto
  <2>8. CASE Truncate(p)
    BY <2>8 DEF Truncate, Goto, Empty
  <2>9. CASE WriteMetadata(p)
    BY <2>9 DEF WriteMetadata, Goto, Empty
  <2>10. CASE VerifyIdentity(p)
    BY <2>10 DEF VerifyIdentity, Goto
  <2>11. CASE AdvanceEpoch(p)
    BY <2>11 DEF AdvanceEpoch, Goto
  <2>12. CASE FinishRun(p)
    BY <2>12 DEF FinishRun
  <2>13. CASE ReleaseUnlink(p)
    BY <2>13 DEF ReleaseUnlink, Goto, Intact
  <2>14. CASE ReleaseUnlock(p)
    BY <2>14 DEF ReleaseUnlock, Goto, Unlocked
  <2>15. CASE Exit(p)
    BY <2>15 DEF Exit, Goto
  <2>16. CASE Crash(p)
    BY <2>16 DEF Crash, Goto, Unlocked
  <2> QED
    BY <1>2, <2>1, <2>2, <2>3, <2>4, <2>5, <2>6, <2>7, <2>8,
       <2>9, <2>10, <2>11, <2>12, <2>13, <2>14, <2>15, <2>16 DEF Step
<1> QED
  BY <1>1, <1>2 DEF Next

\* Nobody else unlinks or writes the file of a process that may write it.
LEMMA NamingNext == Types /\ Locking /\ Creation /\ Naming /\ [Next]_vars => Naming'
<1> SUFFICES ASSUME Types, Locking, Creation, Naming, [Next]_vars PROVE Naming'
  OBVIOUS
<1> USE ProcessAssumption DEF Types, Locking, Creation, Naming, NamedBy,
  Inodes, NoFile, Early, Past, Sure, Positions
<1>1. CASE UNCHANGED vars
  BY <1>1 DEF vars
<1>2. ASSUME NEW p \in Processes, Step(p), NEW q \in Processes PROVE NamedBy(q)'
  <2>0. ASSUME Refuse(p) PROVE NamedBy(q)'
    BY <2>0 DEF Refuse, Goto, Unlocked
  <2>1. CASE Preflight(p)
    BY <2>1, <2>0 DEF Preflight, Goto
  <2>2. CASE CreateLockFile(p)
    BY <2>2 DEF CreateLockFile, Goto
  <2>3. CASE LockCreated(p)
    BY <2>3 DEF LockCreated, Goto
  <2>4. CASE DiscardCreated(p)
    BY <2>4 DEF DiscardCreated, Goto, Intact
  <2>5. CASE OpenExisting(p)
    BY <2>5, <2>0 DEF OpenExisting, Goto
  <2>6. CASE TryLock(p)
    BY <2>6, <2>0 DEF TryLock, Goto
  <2>7. CASE ClassifyOwner(p)
    BY <2>7, <2>0 DEF ClassifyOwner, Goto, Stale, Intact, Empty
  <2>8. CASE Truncate(p)
    BY <2>8 DEF Truncate, Goto
  <2>9. CASE WriteMetadata(p)
    BY <2>9 DEF WriteMetadata, Goto
  <2>10. CASE VerifyIdentity(p)
    BY <2>10 DEF VerifyIdentity, Goto, Intact
  <2>11. CASE AdvanceEpoch(p)
    BY <2>11 DEF AdvanceEpoch, Goto
  <2>12. CASE FinishRun(p)
    BY <2>12 DEF FinishRun
  <2>13. CASE ReleaseUnlink(p)
    <3>1. path = desc[p] /\ flock[desc[p]] = p /\ pc[desc[p]] \notin Early
      BY <2>13 DEF ReleaseUnlink
    <3>2. CASE q = p
      BY <2>13, <3>2 DEF ReleaseUnlink, Goto
    <3>3. CASE q # p
      <4>1. pc[q] \notin Sure
        BY <2>13, <3>3, SureIsUnique DEF ReleaseUnlink
      <4>2. pc[q] \notin {"created", "discard"}
        BY <3>1
      <4> QED
        BY <2>13, <3>3, <4>1, <4>2 DEF ReleaseUnlink, Goto
    <3> QED
      BY <3>2, <3>3
  <2>14. CASE ReleaseUnlock(p)
    BY <2>14 DEF ReleaseUnlock, Goto, Unlocked
  <2>15. CASE Exit(p)
    BY <2>15 DEF Exit, Goto
  <2>16. CASE Crash(p)
    BY <2>16 DEF Crash, Goto, Unlocked
  <2> QED
    BY <1>2, <2>1, <2>2, <2>3, <2>4, <2>5, <2>6, <2>7, <2>8,
       <2>9, <2>10, <2>11, <2>12, <2>13, <2>14, <2>15, <2>16 DEF Step
<1> QED
  BY <1>1, <1>2 DEF Next, Naming

\* A process leaves its responsibility only by unlinking or by crashing.
LEMMA ResponsibleNext ==
  Types /\ Locking /\ Creation /\ Naming /\ Responsible /\ [Next]_vars => Responsible'
<1> SUFFICES ASSUME Types, Locking, Creation, Naming, Responsible, [Next]_vars
             PROVE Responsible'
  OBVIOUS
<1> USE ProcessAssumption DEF Types, Locking, Creation, Naming, NamedBy, Responsible,
  Inodes, NoFile, Early, Past, Sure, Positions
<1>1. CASE UNCHANGED vars
  BY <1>1 DEF vars
<1>2. ASSUME NEW p \in Processes, Step(p) PROVE Responsible'
  <2>0. ASSUME Refuse(p), pc[p] \in {"idle", "open", "opened", "locked"} PROVE Responsible'
    BY <2>0 DEF Refuse, Goto, Unlocked
  <2>1. CASE Preflight(p)
    BY <2>1, <2>0 DEF Preflight, Goto
  <2>2. CASE CreateLockFile(p)
    BY <2>2 DEF CreateLockFile, Goto
  <2>3. CASE LockCreated(p)
    BY <2>3 DEF LockCreated, Goto
  <2>4. CASE DiscardCreated(p)
    BY <2>4 DEF DiscardCreated, Goto, Intact
  <2>5. CASE OpenExisting(p)
    BY <2>5, <2>0 DEF OpenExisting, Goto
  <2>6. CASE TryLock(p)
    BY <2>6, <2>0 DEF TryLock, Goto
  <2>7. CASE ClassifyOwner(p)
    BY <2>7, <2>0 DEF ClassifyOwner, Goto
  <2>8. CASE Truncate(p)
    BY <2>8 DEF Truncate, Goto
  <2>9. CASE WriteMetadata(p)
    BY <2>9 DEF WriteMetadata, Goto
  <2>10. CASE VerifyIdentity(p)
    BY <2>10 DEF VerifyIdentity, Goto
  <2>11. CASE AdvanceEpoch(p)
    BY <2>11 DEF AdvanceEpoch, Goto
  <2>12. CASE FinishRun(p)
    BY <2>12 DEF FinishRun
  <2>13. CASE ReleaseUnlink(p)
    BY <2>13 DEF ReleaseUnlink, Goto, Intact
  <2>14. CASE ReleaseUnlock(p)
    BY <2>14 DEF ReleaseUnlock, Goto, Unlocked
  <2>15. CASE Exit(p)
    BY <2>15 DEF Exit, Goto
  <2>16. CASE Crash(p)
    BY <2>16 DEF Crash, Goto, Unlocked
  <2> QED
    BY <1>2, <2>1, <2>2, <2>3, <2>4, <2>5, <2>6, <2>7, <2>8,
       <2>9, <2>10, <2>11, <2>12, <2>13, <2>14, <2>15, <2>16 DEF Step
<1> QED
  BY <1>1, <1>2 DEF Next

LEMMA Invariance == Spec => []IInv
<1>1. IInv /\ [Next]_vars => IInv'
  BY TypesNext, LockingNext, CreationNext, NamingNext, ResponsibleNext DEF IInv
<1> QED
  BY IInvInit, <1>1, PTL DEF Spec

LEMMA IInvProtects == IInv => LockProtects
<1> SUFFICES ASSUME IInv PROVE LockProtects
  OBVIOUS
<1> USE DEF IInv, Holds, Sure
<1>1. \A p \in Processes : Holds(p) =>
        path = desc[p] /\ content[path] = [pid |-> p, epoch |-> want[p]]
  BY DEF Naming, NamedBy
<1>2. \A p, q \in Processes : Holds(p) /\ Holds(q) => q = p
  BY SureIsUnique
<1> QED
  BY <1>1, <1>2 DEF LockProtects

\* For any number of processes: a process that wrote its metadata is the only one that
\* did and still has the file the path names (run_lock.py acquire_run_lock, RunLock).
THEOREM LockIsExclusive == Spec => []LockProtects
  BY IInvProtects, Invariance, PTL

\* For any number of processes: racing, failing and refused acquisitions leave no lock
\* file unless a process died (run_lock.py _create_locked_file, release).
THEOREM CleanExitLeavesNoLock == Spec => []OnlyCrashesLeaveALock
<1>1. IInv => OnlyCrashesLeaveALock
  BY ProcessAssumption DEF IInv, Responsible, OnlyCrashesLeaveALock, Alive, Sure
<1> QED
  BY <1>1, Invariance, PTL

\* Holder is the process at "owner", if there is one.
LEMMA HolderIs ==
  ASSUME LockProtects, NEW p \in Processes, pc[p] = "owner" PROVE Holder = p
  BY DEF LockProtects, Holds, Holder

LEMMA HolderNobody ==
  ASSUME \A p \in Processes : pc[p] # "owner" PROVE Holder = Nobody
  BY DEF Holder

\* For any number of processes: the lock file protocol with the epoch check of
\* runtime/resume.py implements exclusive ownership with fresh epochs.
THEOREM OwnershipIsImplemented == Spec => ImplementsOwnership
<1>1. Init => Abstract!Begin
  <2> SUFFICES ASSUME Init PROVE Abstract!Begin
    OBVIOUS
  <2>1. \A p \in Processes : pc[p] = "owner" <=> p = FirstOwner
    BY DEF Init
  <2>2. Holder = FirstOwner
    BY <2>1, ProcessAssumption DEF Holder
  <2> QED
    BY <2>2 DEF Init, Abstract!Begin
<1>2. IInv /\ IInv' /\ [Next]_vars => [Abstract!Change]_(Abstract!ownership)
  <2> SUFFICES ASSUME IInv, IInv', [Next]_vars
               PROVE [Abstract!Change]_(Abstract!ownership)
    OBVIOUS
  <2> USE ProcessAssumption
  <2>0. pc \in [Processes -> Positions]
    BY DEF IInv, Types
  <2>1. LockProtects /\ LockProtects'
    <3>1. LockProtects
      BY IInvProtects
    <3>2. IInv' => LockProtects'
      BY IInvProtects, PTL
    <3> QED
      BY <3>1, <3>2
  <2>2. CASE UNCHANGED vars
    BY <2>2 DEF vars, Holder, Abstract!ownership
  <2>3. ASSUME NEW p \in Processes, Step(p)
        PROVE [Abstract!Change]_(Abstract!ownership)
    <3>1. CASE AdvanceEpoch(p)
      <4>1. \A q \in Processes : pc[q] # "owner"
        BY <2>1, <3>1 DEF AdvanceEpoch, LockProtects, Holds
      <4>2. pc'[p] = "owner"
        BY <2>0, <3>1 DEF AdvanceEpoch, Goto
      <4>3. Holder = Nobody
        BY <4>1, HolderNobody
      <4>4. \A q \in Processes : pc'[q] = "owner" <=> q = p
        BY <2>0, <3>1, <4>1 DEF AdvanceEpoch, Goto
      <4>5. Holder' = p
        BY <4>4 DEF Holder
      <4> QED
        BY <3>1, <4>3, <4>5 DEF AdvanceEpoch, Abstract!Acquire, Abstract!Change
    <3>2. CASE FinishRun(p)
      <4>1. Holder = p
        BY <2>1, <3>2, HolderIs DEF FinishRun
      <4>2. Holder' = Holder
        BY <3>2 DEF FinishRun, Holder
      <4> QED
        BY <3>2, <4>1, <4>2 DEF FinishRun, Abstract!Conclude, Abstract!Change
    <3>3. ASSUME pc[p] = "owner", pc' = [pc EXCEPT ![p] = pc'[p]], pc'[p] # "owner",
                 UNCHANGED <<epoch, finished>>
          PROVE [Abstract!Change]_(Abstract!ownership)
      <4>1. Holder = p
        BY <2>1, <3>3, HolderIs
      <4>2. \A q \in Processes : pc[q] = "owner" => q = p
        BY <2>1, <3>3 DEF LockProtects, Holds
      <4>3. \A q \in Processes : pc'[q] # "owner"
        BY <2>0, <3>3, <4>2
      <4>4. Holder' = Nobody
        BY <4>3 DEF Holder
      <4> QED
        BY <3>3, <4>1, <4>4 DEF Abstract!Leave, Abstract!Change
    <3>4. ASSUME pc[p] # "owner", pc' = [pc EXCEPT ![p] = pc'[p]], pc'[p] # "owner",
                 UNCHANGED <<epoch, finished>>
          PROVE [Abstract!Change]_(Abstract!ownership)
      <4>1. \A q \in Processes : pc[q] = "owner" <=> pc'[q] = "owner"
        BY <2>0, <3>4
      <4>2. Holder' = Holder
        BY <4>1 DEF Holder
      <4> QED
        BY <3>4, <4>2 DEF Abstract!ownership
    <3>5. CASE ~AdvanceEpoch(p) /\ ~FinishRun(p)
      <4>1. /\ pc' = [pc EXCEPT ![p] = pc'[p]] /\ pc'[p] # "owner"
            /\ UNCHANGED <<epoch, finished>>
        BY <2>0, <2>3, <3>5
           DEF Step, Preflight, CreateLockFile, LockCreated, DiscardCreated, OpenExisting,
               TryLock, ClassifyOwner, Truncate, WriteMetadata, VerifyIdentity,
               ReleaseUnlink, ReleaseUnlock, Exit, Crash, Refuse, Goto
      <4> QED
        BY <3>3, <3>4, <4>1
    <3> QED
      BY <3>1, <3>2, <3>5
  <2> QED
    BY <2>2, <2>3 DEF Next
<1> QED
  BY <1>1, <1>2, Invariance, PTL DEF Spec, ImplementsOwnership, Abstract!Ownership
=============================================================================
