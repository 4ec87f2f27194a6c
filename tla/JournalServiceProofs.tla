------------------------ MODULE JournalServiceProofs ------------------------
(***************************************************************************)
(* For any number of processes, migrations, statements, callers and deaths *)
(* the committed journal is at a whole migration and an upgrade leaves a   *)
(* verified backup of the version it started from.                         *)
(*                                                                         *)
(* Both follow from one inductive invariant, Inv.  It says of each process *)
(* what the step it is about to take relies on: which version its open     *)
(* transaction has reached, that nobody else can have changed the file     *)
(* meanwhile, and that a backup exists before it migrates anything.        *)
(***************************************************************************)
EXTENDS JournalService, TLAPS

\* A journal file that exists, with the schema fields the checks compare.
IsFile(f) ==
  /\ f = [version |-> f.version, ledger |-> f.ledger, complete |-> f.complete,
          partial |-> f.partial, rows |-> f.rows]
  /\ f.version \in Nat /\ f.ledger \in Nat /\ f.complete \in Nat /\ f.partial \in Nat

\* Version, ledger, whole migrations and statements of the next one.
Reached(f, v, l, c, s) == f.version = v /\ f.ledger = l /\ f.complete = c /\ f.partial = s

Whole(f, v) == IsFile(f) /\ Reached(f, v, v, v, 0)

\* The states of a process that is inside the transaction of a migration.
Migrating == {"verify prefix", "statement", "ledger", "user_version", "commit"}
Opening == {"migrate"} \cup Migrating
Places ==
  {"start", "connect", "read version", "read ledger", "create backup", "copy backup",
   "validate backup", "read version again", "read ledger again", "opened", "refused"}
  \cup Opening

\* A verified backup holds the version the journal had at first.
Saved == \E b \in backups : b.verified /\ b.holds.version = original

FileInv ==
  /\ original \in Int /\ original <= disk.version
  /\ disk # NoFile => Whole(disk, disk.version)
  /\ disk = NoFile => original = -1
  /\ writer \in Process \cup {Nobody}
  /\ at \in [Process -> Places] /\ stage \in [Process -> Stages]
  /\ service \in [Process -> Services]
  /\ next \in [Process -> Nat \ {0}] /\ version \in [Process -> Int]
  /\ copy = [p \in Process |-> copy[p]]

\* What the transaction of a process has reached.
TxnInv(p) ==
  LET n == next[p] IN
  /\ at[p] \in Migrating => writer = p /\ n <= Latest
  /\ at[p] = "verify prefix" => txn = disk
  /\ at[p] \in Migrating \ {"verify prefix"} => disk.version = n - 1 /\ IsFile(txn)
  /\ at[p] = "statement" =>
       /\ Reached(txn, n - 1, n - 1, n - 1, txn.partial)
       /\ txn.partial < Statements
  /\ at[p] = "ledger" => Reached(txn, n - 1, n - 1, n, 0)
  /\ at[p] = "user_version" => Reached(txn, n - 1, n, n, 0)
  /\ at[p] = "commit" => Reached(txn, n, n, n, 0)
  /\ writer = p => at[p] \in Migrating \cup {"opened"}
  /\ writer = p /\ at[p] = "opened" => Whole(txn, disk.version)
  /\ stage[p] \in {"write", "commit"} => writer = p /\ at[p] = "opened"
  /\ stage[p] # "receive" \/ service[p] # "none" => at[p] = "opened"

\* What a process owes to the backup it takes before it migrates.
BackupInv(p) ==
  /\ at[p] \notin {"start", "refused"} => disk # NoFile
  /\ at[p] \in {"copy backup", "validate backup"} => ~copy[p].verified
  /\ at[p] = "validate backup" /\ disk.version = original =>
       copy[p].holds.version = original
  /\ at[p] \in Opening /\ next[p] <= Latest /\ original > 0 => Saved

Inv ==
  /\ FileInv
  /\ UpgradeIsRecoverable
  /\ \A p \in Process : TxnInv(p) /\ BackupInv(p)

-----------------------------------------------------------------------------
(* Lemmas about the operators and about steps of other processes.           *)

\* What the ledger check returns for a whole journal.
LEMMA LedgerOfWhole ==
  ASSUME NEW f, NEW v \in Nat, Whole(f, v), NEW read \in Int
  PROVE  /\ VerifyLedger(read, f) \in {-1, v}
         /\ VerifyLedger(read, f) # -1 => v <= Latest
BY SchemaBounds DEF Whole, IsFile, Reached, VerifyLedger, LedgerTable

LEMMA Successor ==
  ASSUME NEW n \in Nat
  PROVE  n + 1 \in Nat \ {0}
OBVIOUS

\* The locals of a process are left alone.
Local(q) ==
  /\ at'[q] = at[q] /\ next'[q] = next[q] /\ copy'[q] = copy[q]
  /\ stage'[q] = stage[q] /\ service'[q] = service[q]

\* A step of another process that leaves the transaction of q alone: the file is
\* the same, or q has no transaction and the file only moves on.
Apart(q) ==
  /\ \/ UNCHANGED <<disk, txn, writer>>
     \/ /\ writer # q /\ writer' # q
        /\ disk # NoFile => disk' # NoFile
        /\ disk.version = original \/ disk'.version # original
  /\ UNCHANGED original
  /\ Saved => Saved'

LEMMA Others ==
  ASSUME NEW q \in Process, TxnInv(q), BackupInv(q), Local(q), Apart(q)
  PROVE  TxnInv(q)' /\ BackupInv(q)'
<1>1. CASE UNCHANGED <<disk, txn, writer>>
  <2>1. disk' = disk /\ txn' = txn /\ writer' = writer
    BY <1>1
  <2>2. TxnInv(q)'
    BY <2>1, Zenon DEF TxnInv, Local, IsFile, Whole, Reached
  <2>3. BackupInv(q)'
    BY <2>1, Zenon DEF BackupInv, Local, Apart
  <2> QED BY <2>2, <2>3
<1>2. CASE writer # q /\ writer' # q
  <2>1. at[q] \notin Migrating /\ at'[q] \notin Migrating
    BY <1>2, Zenon DEF TxnInv, Local
  <2>2. /\ stage'[q] \notin {"write", "commit"}
        /\ stage'[q] # "receive" \/ service'[q] # "none" => at'[q] = "opened"
    BY <1>2, Zenon DEF TxnInv, Local
  <2>3. TxnInv(q)'
    BY <1>2, <2>1, <2>2, Zenon DEF TxnInv, Migrating
  <2>4. BackupInv(q)'
    BY <1>2, Zenon DEF BackupInv, Local, Apart
  <2> QED BY <2>3, <2>4
<1> QED BY <1>1, <1>2 DEF Apart

LEMMA Compose ==
  ASSUME Inv, NEW p \in Process, FileInv', UpgradeIsRecoverable',
         TxnInv(p)', BackupInv(p)',
         \A q \in Process \ {p} : Local(q) /\ Apart(q)
  PROVE  Inv'
<1>1. SUFFICES ASSUME NEW q \in Process PROVE TxnInv(q)' /\ BackupInv(q)'
  BY DEF Inv
<1>2. CASE q = p
  BY <1>2
<1>3. CASE q # p
  BY <1>3, Others DEF Inv
<1> QED BY <1>2, <1>3

\* A step outside any transaction that touches only the process and the backups.
Quiet(p) ==
  /\ UNCHANGED <<disk, txn, writer, original, stage, service>>
  /\ at[p] \notin Migrating \cup {"opened"} /\ at'[p] \notin Migrating
  /\ at' \in [Process -> Places]
  /\ next' \in [Process -> Nat \ {0}] /\ version' \in [Process -> Int]
  /\ copy' = [q \in Process |-> copy'[q]]
  /\ \A q \in Process \ {p} :
       at'[q] = at[q] /\ next'[q] = next[q] /\ copy'[q] = copy[q]
  /\ Saved => Saved'

LEMMA QuietStep ==
  ASSUME Inv, NEW p \in Process, Quiet(p), BackupInv(p)'
  PROVE  Inv'
<1>1. /\ disk' = disk /\ txn' = txn /\ writer' = writer /\ original' = original
      /\ stage' = stage /\ service' = service
      /\ at' \in [Process -> Places]
      /\ \A q \in Process \ {p} : at'[q] = at[q]
  BY DEF Quiet, Inv, FileInv
<1>2. FileInv'
  BY <1>1 DEF Quiet, Inv, FileInv, Whole, IsFile, Reached
<1>3. UpgradeIsRecoverable'
  BY <1>1 DEF Inv, UpgradeIsRecoverable, Saved, Quiet
<1>4. TxnInv(p)'
  <2>1. writer # p /\ stage[p] = "receive" /\ service[p] = "none"
    BY Zenon DEF Quiet, Inv, TxnInv
  <2> QED BY <1>1, <2>1, Zenon DEF TxnInv, Quiet, Migrating
<1>5. \A q \in Process \ {p} : Local(q) /\ Apart(q)
  BY <1>1 DEF Quiet, Local, Apart
<1> QED BY <1>2, <1>3, <1>4, <1>5, Compose

LEMMA Placed ==
  ASSUME FileInv, NEW p \in Process, NEW w \in Places, Go(p, w)
  PROVE  /\ at' \in [Process -> Places] /\ at'[p] = w
         /\ \A q \in Process \ {p} : at'[q] = at[q]
BY DEF Go, FileInv

LEMMA DiskVersion ==
  ASSUME FileInv
  PROVE  disk.version \in Int
<1>1. CASE disk = NoFile
  BY <1>1 DEF NoFile, EmptyFile, Migrated
<1>2. CASE disk # NoFile
  BY <1>2 DEF FileInv, Whole, IsFile
<1> QED BY <1>1, <1>2

\* An open that returned or raised leaves no locals.
LEMMA Forgotten ==
  ASSUME FileInv, NEW p \in Process, Forget(p)
  PROVE  /\ next' \in [Process -> Nat \ {0}] /\ version' \in [Process -> Int]
         /\ copy' = [q \in Process |-> copy'[q]]
         /\ \A q \in Process \ {p} : next'[q] = next[q] /\ copy'[q] = copy[q]
<1>1. next' \in [Process -> Nat \ {0}] /\ version' \in [Process -> Int]
  BY DEF Forget, FileInv
<1>2. copy' = [q \in Process |-> copy'[q]]
  BY DEF Forget, FileInv
<1>3. \A q \in Process \ {p} : next'[q] = next[q] /\ copy'[q] = copy[q]
  BY DEF Forget, FileInv
<1> QED BY <1>1, <1>2, <1>3

LEMMA RefuseStep ==
  ASSUME Inv, NEW p \in Process, Refuse(p), UNCHANGED <<original, stage, service>>,
         at[p] \notin Migrating \cup {"opened"}
  PROVE  Inv'
<1>1. Saved => Saved'
  BY DEF Refuse, Saved
<1>2. Quiet(p)
  <2>1. UNCHANGED <<disk, txn, writer, original, stage, service>> /\ Forget(p)
    BY DEF Refuse
  <2>2. /\ at' \in [Process -> Places] /\ at'[p] = "refused"
        /\ \A q \in Process \ {p} : at'[q] = at[q]
    BY Placed, Zenon DEF Refuse, Inv, Places
  <2> QED BY <1>1, <2>1, <2>2, Forgotten, Zenon DEF Quiet, Inv, Migrating
<1>3. at'[p] = "refused"
  BY DEF Refuse, Go, Inv, FileInv
<1>4. BackupInv(p)'
  BY <1>3, Zenon DEF BackupInv, Opening, Migrating
<1> QED BY <1>2, <1>4, QuietStep

\* A step that gives up whatever transaction the process holds.
LetGo(p) ==
  /\ UNCHANGED <<disk, original, backups>>
  /\ \/ writer = p /\ writer' = Nobody
     \/ writer # p /\ UNCHANGED <<writer, txn>>
  /\ at' \in [Process -> Places] /\ stage' \in [Process -> Stages]
  /\ service' \in [Process -> Services]
  /\ next' \in [Process -> Nat \ {0}] /\ version' \in [Process -> Int]
  /\ copy' = [q \in Process |-> copy'[q]]
  /\ \/ at'[p] \in {"start", "refused"}
     \/ at'[p] = "opened" /\ at[p] = "opened"
  /\ stage'[p] \notin {"write", "commit"}
  /\ stage'[p] # "receive" \/ service'[p] # "none" => at'[p] = "opened"
  /\ \A q \in Process \ {p} : Local(q)

LEMMA LetGoStep ==
  ASSUME Inv, NEW p \in Process, LetGo(p)
  PROVE  Inv'
<1>1. p # Nobody
  BY SchemaBounds
<1>2. disk' = disk /\ original' = original /\ backups' = backups /\ Saved' = Saved
  BY DEF LetGo, Saved
<1>3. FileInv'
  BY <1>2 DEF LetGo, Inv, FileInv, Whole, IsFile, Reached
<1>4. UpgradeIsRecoverable'
  BY <1>2 DEF Inv, UpgradeIsRecoverable
<1>5. writer' # p
  BY <1>1 DEF LetGo
<1>6. TxnInv(p)'
  BY <1>5, Zenon DEF LetGo, TxnInv, Migrating
<1>7. BackupInv(p)'
  BY <1>2, Zenon DEF LetGo, Inv, BackupInv, Opening, Migrating
<1>8. \A q \in Process \ {p} : Local(q) /\ Apart(q)
  <2>1. SUFFICES ASSUME NEW q \in Process \ {p} PROVE Apart(q)
    BY DEF LetGo
  <2>2. q # Nobody
    BY SchemaBounds
  <2> QED BY <1>2, <2>2 DEF LetGo, Apart
<1> QED BY <1>3, <1>4, <1>6, <1>7, <1>8, Compose

\* A process inside a transaction rolls it back and its open raises.
LEMMA GiveUp ==
  ASSUME Inv, NEW p \in Process, writer = p, writer' = Nobody, Go(p, "refused"), Forget(p),
         UNCHANGED <<disk, original, backups, stage, service>>,
         stage[p] = "receive", service[p] = "none"
  PROVE  Inv'
<1>1. FileInv /\ stage' = stage /\ service' = service
  BY DEF Inv
<1>2. /\ at' \in [Process -> Places] /\ at'[p] = "refused"
      /\ \A q \in Process \ {p} : at'[q] = at[q]
  BY <1>1, Placed, Zenon DEF Places
<1>3. LetGo(p)
  <2>1. /\ next' \in [Process -> Nat \ {0}] /\ version' \in [Process -> Int]
        /\ copy' = [q \in Process |-> copy'[q]]
        /\ \A q \in Process \ {p} : next'[q] = next[q] /\ copy'[q] = copy[q]
    BY <1>1, Forgotten
  <2>2. \A q \in Process \ {p} : Local(q)
    BY <1>1, <1>2, <2>1 DEF Local
  <2>3. stage' \in [Process -> Stages] /\ service' \in [Process -> Services]
    BY <1>1 DEF FileInv
  <2>4. /\ UNCHANGED <<disk, original, backups>>
        /\ stage'[p] = "receive" /\ service'[p] = "none"
    BY <1>1
  <2> QED BY <1>2, <2>1, <2>2, <2>3, <2>4 DEF LetGo
<1> QED BY <1>3, LetGoStep

\* A step of the queue, its callers or the serving task that leaves the file alone.
LEMMA ServiceStep ==
  ASSUME Inv, UNCHANGED schemaVars,
         stage' \in [Process -> Stages], service' \in [Process -> Services],
         \A q \in Process :
           /\ stage'[q] \in {"write", "commit"} => stage'[q] = stage[q]
           /\ stage'[q] # "receive" \/ service'[q] # "none" => at[q] = "opened"
  PROVE  Inv'
<1>1. /\ disk' = disk /\ txn' = txn /\ writer' = writer /\ original' = original
      /\ at' = at /\ next' = next /\ copy' = copy /\ backups' = backups /\ version' = version
  BY DEF schemaVars
<1>2. FileInv'
  BY <1>1 DEF Inv, FileInv, Whole, IsFile, Reached
<1>3. UpgradeIsRecoverable'
  BY <1>1 DEF Inv, UpgradeIsRecoverable
<1>4. ASSUME NEW q \in Process PROVE TxnInv(q)'
  BY <1>1, Zenon DEF Inv, TxnInv, Whole, IsFile, Reached
<1>5. ASSUME NEW q \in Process PROVE BackupInv(q)'
  BY <1>1, Zenon DEF Inv, BackupInv, Saved
<1> QED BY <1>2, <1>3, <1>4, <1>5 DEF Inv

-----------------------------------------------------------------------------
(* The initial states and the steps of opening a journal.                   *)

LEMMA InitInv == Init => Inv
<1> SUFFICES ASSUME Init PROVE Inv
  OBVIOUS
<1>1. disk.version \in Int /\ (disk # NoFile => Whole(disk, disk.version))
  <2>1. CASE disk = NoFile
    BY <2>1 DEF NoFile, EmptyFile, Migrated
  <2>2. CASE disk # NoFile
    <3>1. PICK v \in OldVersions : disk = Migrated(v)
      BY <2>2 DEF Init, SchemaInit
    <3>2. v \in Nat
      BY SchemaBounds
    <3> QED BY <3>1, <3>2 DEF Migrated, Whole, IsFile, Reached
  <2> QED BY <2>1, <2>2
<1>2. FileInv
  BY <1>1 DEF Init, SchemaInit, FileInv, NoFile, EmptyFile, Migrated, Places, Stages, Services
<1>3. UpgradeIsRecoverable
  BY DEF Init, SchemaInit, UpgradeIsRecoverable
<1>4. ASSUME NEW p \in Process PROVE TxnInv(p)
  <2>1. writer # p /\ at[p] = "start" /\ stage[p] = "receive" /\ service[p] = "none"
    BY SchemaBounds DEF Init, SchemaInit
  <2> QED BY <2>1 DEF TxnInv, Migrating
<1>5. ASSUME NEW p \in Process PROVE BackupInv(p)
  BY DEF Init, SchemaInit, BackupInv, Opening, Migrating
<1> QED BY <1>2, <1>3, <1>4, <1>5 DEF Inv

LEMMA CreateStep ==
  ASSUME Inv, NEW p \in Process, CreateJournalDatabase(p), UNCHANGED serviceVars
  PROVE  Inv'
<1>1. stage' = stage /\ service' = service /\ original' = original /\ at[p] = "start"
  BY DEF serviceVars, CreateJournalDatabase
<1>2. CASE RunDirectoryTaken
  BY <1>1, <1>2, RefuseStep, Zenon DEF CreateJournalDatabase, Migrating
<1>3. CASE ~RunDirectoryTaken
  <2>1. /\ disk = NoFile /\ disk' = EmptyFile /\ txn' = txn /\ writer' = writer
        /\ backups' = backups /\ version' = version /\ next' = next /\ copy' = copy
        /\ Go(p, "connect") /\ Saved' = Saved
    BY <1>1, <1>3 DEF CreateJournalDatabase, RunDirectoryTaken, Exists, Saved
  <2>2. /\ at' \in [Process -> Places] /\ at'[p] = "connect"
        /\ \A q \in Process \ {p} : at'[q] = at[q]
    BY <2>1, Placed, Zenon DEF Inv, Places
  <2>3. Whole(disk', 0) /\ disk'.version = 0 /\ disk' # NoFile /\ original = -1
    BY <2>1 DEF Whole, IsFile, Reached, EmptyFile, Migrated, NoFile, Inv, FileInv
  <2>4. \A q \in Process : writer # q
    BY <2>1, Zenon DEF Inv, TxnInv, BackupInv, Migrating
  <2>5. FileInv'
    BY <1>1, <2>1, <2>2, <2>3 DEF Inv, FileInv
  <2>6. UpgradeIsRecoverable'
    BY <1>1, <2>3, SchemaBounds DEF UpgradeIsRecoverable
  <2>7. TxnInv(p)'
    BY <1>1, <2>1, <2>2, <2>4, Zenon DEF Inv, TxnInv, Migrating
  <2>8. BackupInv(p)'
    BY <2>2, <2>3 DEF BackupInv, Opening, Migrating
  <2>9. \A q \in Process \ {p} : Local(q) /\ Apart(q)
    BY <1>1, <2>1, <2>2, <2>3, <2>4 DEF Local, Apart
  <2> QED BY <2>5, <2>6, <2>7, <2>8, <2>9, Compose
<1> QED BY <1>2, <1>3

\* A move to a place that owes nothing to a backup.
LEMMA PlainMove ==
  ASSUME Inv, NEW p \in Process, NEW w \in Places, Go(p, w),
         at[p] \notin Migrating \cup {"opened", "refused"}, disk # NoFile \/ at[p] # "start",
         w \notin Opening \cup {"copy backup", "validate backup"},
         UNCHANGED <<disk, txn, writer, backups, original, stage, service>>,
         next' \in [Process -> Nat \ {0}], version' \in [Process -> Int],
         copy' = [q \in Process |-> copy'[q]],
         \A q \in Process \ {p} : next'[q] = next[q] /\ copy'[q] = copy[q]
  PROVE  Inv'
<1>1. /\ at' \in [Process -> Places] /\ at'[p] = w
      /\ \A q \in Process \ {p} : at'[q] = at[q]
  BY Placed, Zenon DEF Inv
<1>2. Saved => Saved'
  BY Zenon DEF Saved
<1>3. Quiet(p)
  BY <1>1, <1>2, Zenon DEF Quiet, Opening
<1>4. BackupInv(p)'
  BY <1>1, Zenon DEF Inv, BackupInv
<1> QED BY <1>3, <1>4, QuietStep, Zenon

LEMMA ReadStep ==
  ASSUME Inv, NEW p \in Process, UNCHANGED serviceVars,
         VerifyResumeIntegrity(p) \/ Connect(p) \/ ReadVersion(p) \/ ValidateOpened(p)
  PROVE  Inv'
<1>1. stage' = stage /\ service' = service /\ original' = original
  BY Zenon DEF serviceVars, VerifyResumeIntegrity, Connect, ReadVersion, ValidateOpened
<1>2. at[p] \in {"start", "connect", "read version", "read version again", "read ledger again"}
  BY Zenon DEF VerifyResumeIntegrity, Connect, ReadVersion, ValidateOpened
<1>3. CASE Refuse(p)
  BY <1>1, <1>2, <1>3, RefuseStep, Zenon DEF Migrating
<1>4. CASE ~Refuse(p)
  <2>1. PICK w \in {"connect", "read version", "read ledger", "read ledger again", "opened"} :
          Go(p, w)
    BY <1>2, <1>4, Zenon DEF VerifyResumeIntegrity, Connect, ReadVersion, ValidateOpened
  <2>2. w \in Places \ (Opening \cup {"copy backup", "validate backup"})
    BY Zenon DEF Places, Opening, Migrating
  <2>3. /\ UNCHANGED <<disk, txn, writer, backups, original, stage, service>>
        /\ next' \in [Process -> Nat \ {0}] /\ version' \in [Process -> Int]
        /\ copy' = [q \in Process |-> copy'[q]]
        /\ \A q \in Process \ {p} : next'[q] = next[q] /\ copy'[q] = copy[q]
    <3>1. UNCHANGED <<disk, txn, writer, backups, original, stage, service>>
      BY <1>1, <1>4, Zenon DEF VerifyResumeIntegrity, Connect, ReadVersion, ValidateOpened
    <3>2. disk.version \in Int
      BY DiskVersion, Zenon DEF Inv
    <3>3. \/ UNCHANGED <<next, copy>> /\ version' \in [Process -> Int]
          \/ Forget(p)
      BY <1>4, <3>2, Zenon DEF VerifyResumeIntegrity, Connect, ReadVersion, ValidateOpened, Inv, FileInv
    <3>4. CASE UNCHANGED <<next, copy>> /\ version' \in [Process -> Int]
      BY <3>1, <3>4, Zenon DEF Inv, FileInv
    <3>5. CASE Forget(p)
      BY <3>1, <3>5, Forgotten, Zenon DEF Inv
    <3> QED BY <3>3, <3>4, <3>5, Zenon
  <2>4. disk # NoFile \/ at[p] # "start"
    BY Zenon DEF VerifyResumeIntegrity, Connect, ReadVersion, ValidateOpened, Exists
  <2>5. at[p] \notin Migrating \cup {"opened", "refused"}
    BY <1>2, Zenon DEF Migrating
  <2> QED BY <2>1, <2>2, <2>3, <2>4, <2>5, PlainMove, Zenon
<1> QED BY <1>3, <1>4

LEMMA RetryStep ==
  ASSUME Inv, NEW p \in Process, UNCHANGED serviceVars, Retry(p)
  PROVE  Inv'
<1>1. /\ at' \in [Process -> Places] /\ at'[p] = "start"
      /\ \A q \in Process \ {p} : at'[q] = at[q]
  BY Placed, Zenon DEF Inv, Places, Retry
<1>2. Saved => Saved'
  BY DEF Retry, Saved
<1>3. Quiet(p)
  BY <1>1, <1>2 DEF Quiet, Retry, Migrating, serviceVars, Inv, FileInv
<1>4. BackupInv(p)'
  BY <1>1 DEF BackupInv, Opening, Migrating
<1> QED BY <1>3, <1>4, QuietStep

LEMMA ReadLedgerStep ==
  ASSUME Inv, NEW p \in Process, UNCHANGED serviceVars, ReadLedger(p)
  PROVE  Inv'
<1>1. /\ stage' = stage /\ service' = service /\ original' = original
      /\ at[p] = "read ledger" /\ disk # NoFile
  BY Zenon DEF serviceVars, ReadLedger, Inv, BackupInv
<1>2. CASE Refuse(p)
  BY <1>1, <1>2, RefuseStep, Zenon DEF Migrating
<1>3. CASE ~Refuse(p)
  <2>1. PICK v : v = VerifyLedger(version[p], disk)
    OBVIOUS
  <2>2. v # -1 /\ UNCHANGED <<disk, txn, writer, backups, version, copy>>
    BY <1>3, <2>1, Zenon DEF ReadLedger
  <2>3. next' = [next EXCEPT ![p] = v + 1]
    BY <1>3, <2>1, Zenon DEF ReadLedger
  <2>4. PICK w \in {"create backup", "migrate"} :
          Go(p, w) /\ (w = "migrate" => ~NeedsBackup(v))
    BY <1>3, <2>1, Zenon DEF ReadLedger
  <2>5. v = disk.version /\ v \in Nat /\ v <= Latest /\ original <= v /\ original \in Int
    <3>1. Whole(disk, disk.version) /\ disk.version \in Nat /\ version[p] \in Int
      BY <1>1, Zenon DEF Inv, FileInv, Whole, IsFile
    <3> QED BY <2>1, <2>2, <3>1, LedgerOfWhole, Zenon DEF Inv, FileInv
  <2>6. /\ at' \in [Process -> Places] /\ at'[p] = w
        /\ \A q \in Process \ {p} : at'[q] = at[q]
    BY <2>4, Placed, Zenon DEF Inv, Places, Opening
  <2>7. Saved => Saved'
    BY <1>1, <2>2, Zenon DEF Saved
  <2>8. /\ next' \in [Process -> Nat \ {0}] /\ next'[p] = v + 1
        /\ \A q \in Process \ {p} : next'[q] = next[q]
    <3>1. next \in [Process -> Nat \ {0}]
      BY Zenon DEF Inv, FileInv
    <3>2. v + 1 \in Nat \ {0}
      BY <2>5, Successor, Zenon
    <3> QED BY <2>3, <3>1, <3>2, Zenon
  <2>9. w = "migrate" /\ next'[p] <= Latest => original <= 0
    BY <2>4, <2>5, <2>8, SchemaBounds DEF NeedsBackup
  <2>10. Quiet(p)
    BY <1>1, <2>2, <2>4, <2>6, <2>7, <2>8, Zenon DEF Quiet, Migrating, Inv, FileInv
  <2>11. BackupInv(p)'
    <3>1. original' = original /\ disk' = disk /\ disk # NoFile
      BY <1>1, <2>2, Zenon
    <3>2. CASE w = "create backup"
      BY <2>6, <3>1, <3>2, Zenon DEF BackupInv, Opening, Migrating
    <3>3. CASE w = "migrate"
      BY <2>5, <2>6, <2>9, <3>1, <3>3 DEF BackupInv
    <3> QED BY <3>2, <3>3, Zenon
  <2> QED BY <2>10, <2>11, QuietStep, Zenon
<1> QED BY <1>2, <1>3

-----------------------------------------------------------------------------
(* The backup.                                                              *)

LEMMA CreateBackupStep ==
  ASSUME Inv, NEW p \in Process, UNCHANGED serviceVars, CreateBackupFile(p)
  PROVE  Inv'
<1>1. /\ stage' = stage /\ service' = service /\ original' = original
      /\ at[p] = "create backup" /\ disk # NoFile
  BY Zenon DEF serviceVars, CreateBackupFile, Inv, BackupInv
<1>2. CASE Refuse(p)
  BY <1>1, <1>2, RefuseStep, Zenon DEF Migrating
<1>3. CASE ~Refuse(p)
  <2>1. PICK n : LET file == Backup(next[p] - 1, n, NoFile, FALSE)
                 IN  backups' = backups \cup {file} /\ copy' = [copy EXCEPT ![p] = file]
    BY <1>3, Zenon DEF CreateBackupFile
  <2>2. Go(p, "copy backup") /\ UNCHANGED <<disk, txn, writer, version, next>>
    BY <1>3, Zenon DEF CreateBackupFile
  <2>3. /\ at' \in [Process -> Places] /\ at'[p] = "copy backup"
        /\ \A q \in Process \ {p} : at'[q] = at[q]
    BY <2>2, Placed, Zenon DEF Inv, Places
  <2>4. Saved => Saved'
    BY <1>1, <2>1, Zenon DEF Saved
  <2>5. /\ copy' = [q \in Process |-> copy'[q]]
        /\ \A q \in Process \ {p} : copy'[q] = copy[q]
        /\ copy'[p] = Backup(next[p] - 1, n, NoFile, FALSE)
    BY <2>1, Zenon DEF Inv, FileInv
  <2>6. Quiet(p)
    BY <1>1, <2>2, <2>3, <2>4, <2>5, Zenon DEF Quiet, Migrating, Inv, FileInv
  <2>7. BackupInv(p)'
    <3> DEFINE file == Backup(next[p] - 1, n, NoFile, FALSE)
    <3>1. ~file.verified
      BY DEF Backup
    <3>2. copy'[p] = file
      BY <2>5
    <3> HIDE DEF file
    <3>3. disk' # NoFile /\ ~copy'[p].verified
      BY <1>1, <2>2, <3>1, <3>2, Zenon
    <3> QED BY <2>3, <3>3, Zenon DEF BackupInv, Opening, Migrating
  <2> QED BY <2>6, <2>7, QuietStep
<1> QED BY <1>2, <1>3

\* The file a process is writing is not yet verified, so replacing it loses no
\* verified backup.
LEMMA ReplaceKeeps ==
  ASSUME Inv, NEW p \in Process, NEW file, Replace(p, file), UNCHANGED original,
         at[p] \in {"copy backup", "validate backup"}
  PROVE  /\ Saved => Saved'
         /\ copy' = [q \in Process |-> copy'[q]] /\ copy'[p] = file
         /\ \A q \in Process \ {p} : copy'[q] = copy[q]
         /\ file \in backups'
<1>1. ~copy[p].verified
  BY Zenon DEF Inv, BackupInv
<1>2. Saved => Saved'
  <2>1. SUFFICES ASSUME NEW b \in backups, b.verified, b.holds.version = original
                 PROVE  b \in backups'
    BY Zenon DEF Saved
  <2> QED BY <1>1, <2>1, Zenon DEF Replace
<1>3. /\ copy' = [q \in Process |-> copy'[q]] /\ copy'[p] = file
      /\ \A q \in Process \ {p} : copy'[q] = copy[q]
  BY Zenon DEF Replace, Inv, FileInv
<1> QED BY <1>2, <1>3, Zenon DEF Replace

LEMMA CopyBackupStep ==
  ASSUME Inv, NEW p \in Process, UNCHANGED serviceVars, CopyBackup(p)
  PROVE  Inv'
<1>1. /\ stage' = stage /\ service' = service /\ original' = original
      /\ at[p] = "copy backup" /\ disk # NoFile
  BY Zenon DEF serviceVars, CopyBackup, Inv, BackupInv
<1>2. CASE Refuse(p)
  BY <1>1, <1>2, RefuseStep, Zenon DEF Migrating
<1>3. CASE ~Refuse(p)
  <2> DEFINE content == [disk EXCEPT !.rows = <<>>]
             file == Backup(copy[p].from, copy[p].counter, content, FALSE)
  <2>1. Replace(p, file) /\ Go(p, "validate backup") /\ UNCHANGED <<disk, txn, writer, version, next>>
    BY <1>3, Zenon DEF CopyBackup
  <2>2. content.version = disk.version
    BY <1>1, Zenon DEF Inv, FileInv, Whole, IsFile
  <2> HIDE DEF content
  <2>3. file.holds = content /\ ~file.verified
    BY DEF Backup
  <2> HIDE DEF content, file
  <2>4. /\ at' \in [Process -> Places] /\ at'[p] = "validate backup"
        /\ \A q \in Process \ {p} : at'[q] = at[q]
    BY <2>1, Placed, Zenon DEF Inv, Places
  <2>5. /\ Saved => Saved'
        /\ copy' = [q \in Process |-> copy'[q]] /\ copy'[p] = file
        /\ \A q \in Process \ {p} : copy'[q] = copy[q]
    BY <1>1, <2>1, ReplaceKeeps, Zenon
  <2>6. Quiet(p)
    BY <1>1, <2>1, <2>4, <2>5, Zenon DEF Quiet, Migrating, Inv, FileInv
  <2>7. BackupInv(p)'
    <3>1. /\ disk' = disk /\ disk # NoFile /\ original' = original
          /\ copy'[p].holds.version = disk.version /\ ~copy'[p].verified
      BY <1>1, <2>1, <2>2, <2>3, <2>5, Zenon
    <3> QED BY <2>4, <3>1, Zenon DEF BackupInv, Opening, Migrating
  <2> QED BY <2>6, <2>7, QuietStep
<1> QED BY <1>2, <1>3

LEMMA ValidateBackupStep ==
  ASSUME Inv, NEW p \in Process, UNCHANGED serviceVars, ValidateBackup(p)
  PROVE  Inv'
<1>1. /\ stage' = stage /\ service' = service /\ original' = original
      /\ at[p] = "validate backup" /\ disk # NoFile
  BY Zenon DEF serviceVars, ValidateBackup, Inv, BackupInv
<1>2. CASE Refuse(p)
  BY <1>1, <1>2, RefuseStep, Zenon DEF Migrating
<1>3. CASE ~Refuse(p)
  <2> DEFINE file == Backup(copy[p].from, copy[p].counter, copy[p].holds, TRUE)
  <2>1. Replace(p, file) /\ Go(p, "migrate") /\ UNCHANGED <<disk, txn, writer, version, next>>
    BY <1>3, Zenon DEF ValidateBackup
  <2>2. file.verified /\ file.holds = copy[p].holds
    BY DEF Backup
  <2> HIDE DEF file
  <2>3. /\ at' \in [Process -> Places] /\ at'[p] = "migrate"
        /\ \A q \in Process \ {p} : at'[q] = at[q]
    BY <2>1, Placed, Zenon DEF Inv, Places, Opening
  <2>4. /\ Saved => Saved'
        /\ copy' = [q \in Process |-> copy'[q]] /\ copy'[p] = file
        /\ \A q \in Process \ {p} : copy'[q] = copy[q]
        /\ file \in backups'
    BY <1>1, <2>1, ReplaceKeeps, Zenon
  <2>5. Quiet(p)
    BY <1>1, <2>1, <2>3, <2>4, Zenon DEF Quiet, Migrating, Inv, FileInv
  <2>6. original > 0 => Saved'
    <3>1. CASE disk.version = original
      <4>1. file.holds.version = original
        BY <1>1, <2>2, <3>1, Zenon DEF Inv, BackupInv
      <4> QED BY <1>1, <2>2, <2>4, <4>1, Zenon DEF Saved
    <3>2. CASE disk.version # original
      BY <2>4, <3>2 DEF Inv, UpgradeIsRecoverable, Saved
    <3> QED BY <3>1, <3>2
  <2>7. BackupInv(p)'
    BY <1>1, <2>1, <2>3, <2>6, Zenon DEF BackupInv
  <2> QED BY <2>5, <2>7, QuietStep
<1> QED BY <1>2, <1>3

-----------------------------------------------------------------------------
(* One migration is one transaction.                                        *)

LEMMA ApplyStep ==
  ASSUME Inv, NEW p \in Process, UNCHANGED serviceVars, ApplyOneMigration(p)
  PROVE  Inv'
<1>1. /\ stage' = stage /\ service' = service /\ original' = original
      /\ at[p] = "migrate" /\ disk # NoFile /\ disk' = disk /\ backups' = backups
      /\ version' = version /\ next' = next /\ copy' = copy
  BY Zenon DEF serviceVars, ApplyOneMigration, Inv, BackupInv
<1>2. CASE next[p] > Latest
  <2>1. Go(p, "read version again") /\ UNCHANGED <<txn, writer>>
    BY <1>2, Zenon DEF ApplyOneMigration
  <2>2. /\ "read version again" \in Places
        /\ "read version again" \notin Opening \cup {"copy backup", "validate backup"}
        /\ at[p] \notin Migrating \cup {"opened", "refused"} /\ at[p] # "start"
    BY <1>1 DEF Places, Opening, Migrating
  <2>3. /\ next' \in [Process -> Nat \ {0}] /\ version' \in [Process -> Int]
        /\ copy' = [q \in Process |-> copy'[q]]
    BY <1>1 DEF Inv, FileInv
  <2> QED BY <1>1, <2>1, <2>2, <2>3, PlainMove, Zenon
<1>3. CASE next[p] <= Latest
  <2>1. writer = Nobody /\ writer' = p /\ txn' = disk /\ Go(p, "verify prefix")
    <3>1. ~(next[p] > Latest)
      BY <1>3, SchemaBounds DEF Inv, FileInv
    <3> QED BY <3>1, Zenon DEF ApplyOneMigration, BeginImmediate
  <2>2. /\ at' \in [Process -> Places] /\ at'[p] = "verify prefix"
        /\ \A q \in Process \ {p} : at'[q] = at[q]
    BY <2>1, Placed, Zenon DEF Inv, Places, Opening, Migrating
  <2>3. FileInv'
    BY <1>1, <2>1, <2>2, Zenon DEF Inv, FileInv, Whole, IsFile, Reached
  <2>4. UpgradeIsRecoverable'
    BY <1>1, Zenon DEF Inv, UpgradeIsRecoverable
  <2>5. TxnInv(p)'
    <3>1. stage[p] = "receive" /\ service[p] = "none"
      BY <1>1, Zenon DEF Inv, TxnInv
    <3> QED BY <1>1, <1>3, <2>1, <2>2, <3>1, Zenon DEF TxnInv, Migrating
  <2>6. Saved' = Saved
    BY <1>1 DEF Saved
  <2>7. BackupInv(p)'
    <3>1. original > 0 => Saved
      BY <1>1, <1>3, Zenon DEF Inv, BackupInv, Opening
    <3> QED BY <1>1, <2>2, <2>6, <3>1, Zenon DEF BackupInv
  <2>8. \A q \in Process \ {p} : Local(q) /\ Apart(q)
    BY <1>1, <2>1, <2>2, <2>6, SchemaBounds, Zenon DEF Local, Apart
  <2> QED BY <2>3, <2>4, <2>5, <2>7, <2>8, Compose
<1> QED BY <1>2, <1>3, SchemaBounds DEF Inv, FileInv

\* A step of a migration inside its transaction.
LEMMA InsideStep ==
  ASSUME Inv, NEW p \in Process, at[p] \in Migrating, NEW w \in Migrating, Go(p, w),
         UNCHANGED <<disk, writer, backups, original, version, next, copy, stage, service>>,
         TxnInv(p)'
  PROVE  Inv'
<1>1. /\ at' \in [Process -> Places] /\ at'[p] = w
      /\ \A q \in Process \ {p} : at'[q] = at[q]
  BY Placed, Zenon DEF Inv, Places, Opening
<1>2. /\ disk' = disk /\ writer' = writer /\ backups' = backups /\ original' = original
      /\ version' = version /\ next' = next /\ copy' = copy /\ stage' = stage
      /\ service' = service /\ Saved' = Saved /\ writer = p
  BY Zenon DEF Saved, Inv, TxnInv
<1>3. FileInv'
  BY <1>1, <1>2 DEF Inv, FileInv, Whole, IsFile, Reached
<1>4. UpgradeIsRecoverable'
  BY <1>2, Zenon DEF Inv, UpgradeIsRecoverable
<1>5. BackupInv(p)'
  <2>1. disk # NoFile /\ (next[p] <= Latest /\ original > 0 => Saved)
    BY Zenon DEF Inv, BackupInv, Opening, Migrating
  <2> QED BY <1>1, <1>2, <2>1, Zenon DEF BackupInv, Migrating
<1>6. \A q \in Process \ {p} : Local(q) /\ Apart(q)
  BY <1>1, <1>2 DEF Local, Apart
<1> QED BY <1>3, <1>4, <1>5, <1>6, Compose

\* A transaction of p ends and the file it leaves is whole and no older.
LEMMA CommitStep ==
  ASSUME Inv, NEW p \in Process, writer = p, writer' = Nobody, Whole(disk', disk'.version),
         disk.version <= disk'.version, disk # NoFile,
         \/ disk'.version = disk.version
         \/ disk'.version <= Latest /\ (original > 0 => Saved),
         UNCHANGED <<backups, original, version, copy, service>>,
         stage' \in [Process -> Stages], stage'[p] \notin {"write", "commit"},
         at' \in [Process -> Places], next' \in [Process -> Nat \ {0}],
         \/ at'[p] = "opened" /\ at[p] = "opened"
         \/ /\ at'[p] = "migrate" /\ at[p] # "opened" /\ stage'[p] = stage[p]
            /\ original > 0 => Saved,
         \A q \in Process \ {p} : at'[q] = at[q] /\ next'[q] = next[q] /\ stage'[q] = stage[q]
  PROVE  Inv'
<1>1. /\ backups' = backups /\ original' = original /\ version' = version /\ copy' = copy
      /\ service' = service /\ Saved' = Saved /\ p # Nobody
  BY SchemaBounds DEF Saved
<1>2. disk.version \in Nat /\ disk'.version \in Nat /\ original \in Int /\ original <= disk.version
  BY DEF Inv, FileInv, Whole, IsFile
<1>3. disk' # NoFile
  BY <1>2 DEF NoFile, EmptyFile, Migrated
<1>4. FileInv'
  BY <1>1, <1>2, <1>3 DEF Inv, FileInv
<1>5. UpgradeIsRecoverable'
  <2>1. original > 0 /\ disk'.version # original => Saved
    <3>1. original > 0 /\ disk.version # original => Saved
      BY DEF Inv, UpgradeIsRecoverable, Saved
    <3> QED BY <3>1
  <2>2. original > Latest => disk'.version = original
    <3>1. original > Latest => disk.version = original
      BY DEF Inv, UpgradeIsRecoverable
    <3>2. Latest \in Nat
      BY SchemaBounds
    <3> QED BY <1>2, <3>1, <3>2
  <2> QED BY <1>1, <2>1, <2>2, Zenon DEF UpgradeIsRecoverable, Saved
<1>6. TxnInv(p)'
  <2>1. at[p] # "opened" => stage[p] = "receive" /\ service[p] = "none"
    BY Zenon DEF Inv, TxnInv
  <2> QED BY <1>1, <2>1, Zenon DEF TxnInv, Migrating
<1>7. BackupInv(p)'
  BY <1>1, <1>3, Zenon DEF BackupInv, Opening, Migrating
<1>8. \A q \in Process \ {p} : Local(q) /\ Apart(q)
  <2>1. SUFFICES ASSUME NEW q \in Process \ {p} PROVE Local(q) /\ Apart(q)
    OBVIOUS
  <2>2. q # Nobody
    BY SchemaBounds
  <2> QED BY <1>1, <1>2, <1>3, <2>2 DEF Local, Apart
<1> QED BY <1>4, <1>5, <1>6, <1>7, <1>8, Compose

LEMMA VerifyPrefixStep ==
  ASSUME Inv, NEW p \in Process, UNCHANGED serviceVars, VerifyPrefix(p)
  PROVE  Inv'
<1>1. /\ stage' = stage /\ service' = service /\ original' = original /\ backups' = backups
      /\ at[p] = "verify prefix"
  BY Zenon DEF serviceVars, VerifyPrefix
<1>2. /\ writer = p /\ next[p] <= Latest /\ txn = disk /\ disk # NoFile
      /\ stage[p] = "receive" /\ service[p] = "none"
      /\ original > 0 => Saved
  <2>1. TxnInv(p) /\ BackupInv(p)
    BY DEF Inv
  <2>2. writer = p /\ next[p] <= Latest /\ txn = disk /\ service[p] = "none"
    BY <1>1, <2>1, Zenon DEF TxnInv, Migrating
  <2>3. stage[p] = "receive"
    BY <1>1, <2>1, Zenon DEF TxnInv
  <2>4. disk # NoFile /\ (original > 0 => Saved)
    BY <1>1, <2>1, <2>2, Zenon DEF BackupInv, Opening, Migrating
  <2> QED BY <2>2, <2>3, <2>4
<1>3. /\ Whole(disk, disk.version) /\ disk.version \in Nat
      /\ next[p] \in Nat \ {0} /\ at \in [Process -> Places] /\ stage \in [Process -> Stages]
      /\ service \in [Process -> Services] /\ next \in [Process -> Nat \ {0}]
  BY <1>2 DEF Inv, FileInv, Whole, IsFile
<1>4. PICK applied : applied = VerifyLedger(txn.version, txn)
  OBVIOUS
<1>5. applied \in {-1, disk.version}
  BY <1>2, <1>3, <1>4, LedgerOfWhole
<1>6. CASE applied >= next[p]
  <2>1. /\ disk' = disk /\ writer' = Nobody /\ next' = [next EXCEPT ![p] = next[p] + 1]
        /\ Go(p, "migrate") /\ UNCHANGED <<version, copy>>
    BY <1>2, <1>4, <1>6, Zenon DEF VerifyPrefix, Commit
  <2>2. /\ at' \in [Process -> Places] /\ at'[p] = "migrate"
        /\ \A q \in Process \ {p} : at'[q] = at[q]
    BY <2>1, Placed, Zenon DEF Inv, Places, Opening
  <2>3. next' \in [Process -> Nat \ {0}] /\ \A q \in Process \ {p} : next'[q] = next[q]
    <3>1. next[p] + 1 \in Nat \ {0}
      BY <1>3, Successor
    <3> QED BY <1>3, <2>1, <3>1
  <2>4. Whole(disk', disk'.version) /\ disk.version <= disk'.version /\ disk'.version = disk.version
    BY <1>3, <2>1 DEF Whole, IsFile, Reached
  <2> QED BY <1>1, <1>2, <1>3, <2>1, <2>2, <2>3, <2>4, CommitStep, Zenon
<1>7. CASE ~(applied >= next[p]) /\ applied = next[p] - 1
  <2>1. Go(p, "statement") /\ UNCHANGED <<disk, txn, writer, version, next, copy>>
    BY <1>4, <1>7, Zenon DEF VerifyPrefix
  <2>2. applied = disk.version
    BY <1>3, <1>5, <1>7
  <2>3. at'[p] = "statement"
    BY <2>1, <1>3 DEF Go
  <2>4. TxnInv(p)'
    <3>1. /\ writer' = p /\ next'[p] <= Latest /\ disk'.version = next'[p] - 1
          /\ stage'[p] = "receive" /\ service'[p] = "none"
      BY <1>1, <1>2, <1>7, <2>1, <2>2, Zenon
    <3>2. /\ IsFile(txn') /\ txn'.partial < Statements
          /\ Reached(txn', next'[p] - 1, next'[p] - 1, next'[p] - 1, txn'.partial)
      BY <1>2, <1>3, <1>7, <2>1, <2>2, SchemaBounds DEF Whole, IsFile, Reached
    <3> QED BY <2>3, <3>1, <3>2, Zenon DEF TxnInv, Migrating
  <2> QED BY <1>1, <2>1, <2>4, InsideStep, Zenon DEF Migrating
<1>8. CASE ~(applied >= next[p]) /\ applied # next[p] - 1
  <2>1. writer' = Nobody /\ disk' = disk /\ Go(p, "refused") /\ Forget(p)
    BY <1>4, <1>8, Zenon DEF VerifyPrefix, Rollback
  <2> QED BY <1>1, <1>2, <1>3, <2>1, GiveUp, Zenon
<1> QED BY <1>6, <1>7, <1>8

LEMMA StatementStep ==
  ASSUME Inv, NEW p \in Process, UNCHANGED serviceVars,
         ExecuteStatement(p) \/ InsertLedger(p) \/ SetUserVersion(p)
  PROVE  Inv'
<1>1. /\ UNCHANGED <<disk, writer, backups, original, version, next, copy, stage, service>>
      /\ at[p] \in {"statement", "ledger", "user_version"}
  BY DEF serviceVars, ExecuteStatement, InsertLedger, SetUserVersion
<1>2. /\ writer = p /\ next[p] <= Latest /\ disk.version = next[p] - 1 /\ IsFile(txn)
      /\ stage[p] = "receive" /\ service[p] = "none"
      /\ next[p] \in Nat \ {0} /\ at \in [Process -> Places]
  <2>1. TxnInv(p)
    BY DEF Inv
  <2>2. writer = p /\ next[p] <= Latest /\ disk.version = next[p] - 1 /\ IsFile(txn)
    BY <1>1, <2>1, Zenon DEF TxnInv, Migrating
  <2>3. stage[p] = "receive" /\ service[p] = "none"
    BY <1>1, <2>1, Zenon DEF TxnInv
  <2> QED BY <2>2, <2>3 DEF Inv, FileInv
<1>3. /\ writer' = p /\ next'[p] = next[p] /\ disk'.version = next[p] - 1
      /\ stage'[p] = "receive" /\ service'[p] = "none"
  BY <1>1, <1>2
<1>4. txn = [version |-> txn.version, ledger |-> txn.ledger, complete |-> txn.complete,
             partial |-> txn.partial, rows |-> txn.rows]
      /\ txn.version \in Nat /\ txn.ledger \in Nat /\ txn.complete \in Nat /\ txn.partial \in Nat
  BY <1>2 DEF IsFile
<1>5. CASE ExecuteStatement(p)
  <2>1. at[p] = "statement" /\ txn.partial < Statements
        /\ Reached(txn, next[p] - 1, next[p] - 1, next[p] - 1, txn.partial)
    BY <1>5, Zenon DEF ExecuteStatement, Inv, TxnInv
  <2>2. CASE txn.partial + 1 = Statements
    <3>1. Go(p, "ledger") /\ at'[p] = "ledger"
      BY <1>2, <1>5, <2>2 DEF ExecuteStatement, Go
    <3>2. IsFile(txn') /\ Reached(txn', next[p] - 1, next[p] - 1, next[p], 0)
      <4>1. txn' = [version |-> txn.version, ledger |-> txn.ledger,
                    complete |-> txn.complete + 1, partial |-> 0, rows |-> txn.rows]
        BY <1>4, <1>5, <2>2, Zenon DEF ExecuteStatement
      <4> QED BY <1>2, <1>4, <2>1, <4>1 DEF IsFile, Reached
    <3>3. TxnInv(p)'
      BY <1>2, <1>3, <3>1, <3>2, Zenon DEF TxnInv, Migrating
    <3> QED BY <1>1, <3>1, <3>3, InsideStep, Zenon DEF Migrating
  <2>3. CASE txn.partial + 1 # Statements
    <3>1. Go(p, "statement") /\ at'[p] = "statement"
      BY <1>2, <1>5, <2>3 DEF ExecuteStatement, Go
    <3>2. IsFile(txn') /\ txn'.partial < Statements
          /\ Reached(txn', next[p] - 1, next[p] - 1, next[p] - 1, txn'.partial)
      <4>1. txn' = [version |-> txn.version, ledger |-> txn.ledger,
                    complete |-> txn.complete, partial |-> txn.partial + 1, rows |-> txn.rows]
        BY <1>4, <1>5, <2>3 DEF ExecuteStatement
      <4> QED BY <1>2, <1>4, <2>1, <2>3, <4>1, SchemaBounds DEF IsFile, Reached
    <3>3. TxnInv(p)'
      BY <1>2, <1>3, <3>1, <3>2, Zenon DEF TxnInv, Migrating
    <3> QED BY <1>1, <3>1, <3>3, InsideStep, Zenon DEF Migrating
  <2> QED BY <2>2, <2>3
<1>6. CASE InsertLedger(p)
  <2>1. /\ at[p] = "ledger" /\ Reached(txn, next[p] - 1, next[p] - 1, next[p], 0)
        /\ Go(p, "user_version") /\ at'[p] = "user_version"
    BY <1>2, <1>6, Zenon DEF InsertLedger, Inv, TxnInv, Go
  <2>2. IsFile(txn') /\ Reached(txn', next[p] - 1, next[p], next[p], 0)
    <3>1. txn' = [version |-> txn.version, ledger |-> txn.ledger + 1,
                  complete |-> txn.complete, partial |-> txn.partial, rows |-> txn.rows]
      BY <1>4, <1>6 DEF InsertLedger
    <3> QED BY <1>2, <1>4, <2>1, <3>1 DEF IsFile, Reached
  <2>3. TxnInv(p)'
    BY <1>2, <1>3, <2>1, <2>2, Zenon DEF TxnInv, Migrating
  <2> QED BY <1>1, <2>1, <2>3, InsideStep, Zenon DEF Migrating
<1>7. CASE SetUserVersion(p)
  <2>1. /\ at[p] = "user_version" /\ Reached(txn, next[p] - 1, next[p], next[p], 0)
        /\ Go(p, "commit") /\ at'[p] = "commit"
    BY <1>2, <1>7, Zenon DEF SetUserVersion, Inv, TxnInv, Go
  <2>2. IsFile(txn') /\ Reached(txn', next[p], next[p], next[p], 0)
    <3>1. txn' = [version |-> next[p], ledger |-> txn.ledger,
                  complete |-> txn.complete, partial |-> txn.partial, rows |-> txn.rows]
      BY <1>4, <1>7 DEF SetUserVersion
    <3> QED BY <1>2, <1>4, <2>1, <3>1 DEF IsFile, Reached
  <2>3. TxnInv(p)'
    BY <1>2, <1>3, <2>1, <2>2 DEF TxnInv, Migrating
  <2> QED BY <1>1, <2>1, <2>3, InsideStep, Zenon DEF Migrating
<1> QED BY <1>5, <1>6, <1>7

LEMMA CommitMigrationStep ==
  ASSUME Inv, NEW p \in Process, UNCHANGED serviceVars, CommitMigration(p)
  PROVE  Inv'
<1>1. /\ stage' = stage /\ service' = service /\ original' = original /\ backups' = backups
      /\ version' = version /\ copy' = copy /\ at[p] = "commit" /\ Go(p, "migrate")
      /\ disk' = txn /\ writer' = Nobody /\ next' = [next EXCEPT ![p] = next[p] + 1]
  BY DEF serviceVars, CommitMigration, Commit
<1>2. /\ writer = p /\ next[p] <= Latest /\ disk.version = next[p] - 1 /\ IsFile(txn)
      /\ Reached(txn, next[p], next[p], next[p], 0) /\ stage[p] \notin {"write", "commit"}
  <2>1. TxnInv(p)
    BY DEF Inv
  <2> QED BY <1>1, <2>1, Zenon DEF TxnInv, Migrating
<1>3. disk # NoFile /\ (original > 0 => Saved)
  <2>1. BackupInv(p)
    BY DEF Inv
  <2> QED BY <1>1, <1>2, <2>1, Zenon DEF BackupInv, Opening, Migrating
<1>4. /\ at' \in [Process -> Places] /\ at'[p] = "migrate"
      /\ \A q \in Process \ {p} : at'[q] = at[q]
  BY <1>1, Placed, Zenon DEF Inv, Places, Opening
<1>5. next \in [Process -> Nat \ {0}] /\ stage \in [Process -> Stages]
  BY DEF Inv, FileInv
<1>6. next' \in [Process -> Nat \ {0}] /\ \A q \in Process \ {p} : next'[q] = next[q]
  <2>1. next[p] + 1 \in Nat \ {0}
    BY <1>5, Successor
  <2> QED BY <1>1, <1>5, <2>1
<1>7. /\ Whole(disk', disk'.version) /\ disk.version <= disk'.version
      /\ disk'.version <= Latest
  BY <1>1, <1>2, <1>5 DEF Whole, IsFile, Reached
<1> QED BY <1>1, <1>2, <1>3, <1>4, <1>5, <1>6, <1>7, CommitStep

LEMMA MigrationFailsStep ==
  ASSUME Inv, NEW p \in Process, UNCHANGED serviceVars, MigrationFails(p)
  PROVE  Inv'
<1>1. /\ UNCHANGED <<disk, original, backups, stage, service>>
      /\ at[p] \in {"statement", "ledger", "user_version", "commit"}
      /\ writer' = Nobody /\ Go(p, "refused") /\ Forget(p)
  BY DEF serviceVars, MigrationFails, Rollback
<1>2. writer = p /\ stage[p] = "receive" /\ service[p] = "none"
  <2>1. TxnInv(p)
    BY DEF Inv
  <2> QED BY <1>1, <2>1, Zenon DEF TxnInv, Migrating
<1> QED BY <1>1, <1>2, GiveUp, Zenon

LEMMA BusyStep ==
  ASSUME Inv, NEW p \in Process, UNCHANGED serviceVars, MigrationBusy(p)
  PROVE  Inv'
<1>1. Refuse(p) /\ UNCHANGED <<original, stage, service>> /\ at[p] = "migrate"
  BY DEF serviceVars, MigrationBusy
<1> QED BY <1>1, RefuseStep, Zenon DEF Migrating

LEMMA OpenSteps ==
  ASSUME Inv, NEW p \in Process, UNCHANGED serviceVars, OpenStep(p) \/ Retry(p)
  PROVE  Inv'
BY CreateStep, ReadStep, ReadLedgerStep, CreateBackupStep, CopyBackupStep, ValidateBackupStep,
   ApplyStep, BusyStep, VerifyPrefixStep, StatementStep, CommitMigrationStep,
   MigrationFailsStep, RetryStep
   DEF OpenStep

-----------------------------------------------------------------------------
(* The operations of the writer.                                            *)

LEMMA RunOperationStep ==
  ASSUME Inv, NEW p \in Process, RunOperation(p)
  PROVE  Inv'
<1>1. /\ disk' = disk /\ backups' = backups /\ at' = at /\ version' = version /\ next' = next
      /\ copy' = copy /\ original' = original /\ service' = service /\ Saved' = Saved
      /\ writer = Nobody /\ writer' = p /\ txn' = disk
  BY DEF RunOperation, BeginImmediate, Saved
<1>2. /\ at[p] = "opened" /\ disk # NoFile /\ Whole(disk, disk.version)
      /\ stage \in [Process -> Stages]
  BY Zenon DEF RunOperation, Inv, TxnInv, BackupInv, FileInv
<1>3. /\ stage' \in [Process -> Stages] /\ stage'[p] = "write"
      /\ \A q \in Process \ {p} : stage'[q] = stage[q]
  BY <1>2 DEF RunOperation, Stage, Stages
<1>4. FileInv'
  BY <1>1, <1>3 DEF Inv, FileInv, Whole, IsFile, Reached
<1>5. UpgradeIsRecoverable'
  BY <1>1 DEF Inv, UpgradeIsRecoverable
<1>6. TxnInv(p)'
  <2>1. Whole(txn', disk'.version)
    BY <1>1, <1>2 DEF Whole, IsFile, Reached
  <2> QED BY <1>1, <1>2, <2>1 DEF TxnInv, Migrating
<1>7. BackupInv(p)'
  BY <1>1, <1>2 DEF BackupInv, Opening, Migrating
<1>8. \A q \in Process \ {p} : Local(q) /\ Apart(q)
  BY <1>1, <1>3, SchemaBounds DEF Local, Apart
<1> QED BY <1>4, <1>5, <1>6, <1>7, <1>8, Compose

LEMMA ExecuteWriteStep ==
  ASSUME Inv, NEW p \in Process, ExecuteWrite(p)
  PROVE  Inv'
<1>1. /\ disk' = disk /\ backups' = backups /\ at' = at /\ version' = version /\ next' = next
      /\ copy' = copy /\ original' = original /\ service' = service /\ Saved' = Saved
      /\ writer' = writer /\ txn' = [txn EXCEPT !.rows = Append(@, current[p])]
  BY DEF ExecuteWrite, Saved
<1>2. /\ at[p] = "opened" /\ writer = p /\ disk # NoFile /\ Whole(txn, disk.version)
      /\ stage \in [Process -> Stages]
  BY Zenon DEF ExecuteWrite, Inv, TxnInv, BackupInv, FileInv
<1>3. /\ stage' \in [Process -> Stages]
      /\ \A q \in Process \ {p} : stage'[q] = stage[q]
  BY <1>2 DEF ExecuteWrite, Stage, Stages
<1>4. FileInv'
  BY <1>1, <1>3 DEF Inv, FileInv, Whole, IsFile, Reached
<1>5. UpgradeIsRecoverable'
  BY <1>1 DEF Inv, UpgradeIsRecoverable
<1>6. TxnInv(p)'
  <2>1. txn' = [version |-> txn.version, ledger |-> txn.ledger, complete |-> txn.complete,
                partial |-> txn.partial, rows |-> Append(txn.rows, current[p])]
    BY <1>1, <1>2, Zenon DEF Whole, IsFile
  <2>2. Whole(txn', disk'.version)
    BY <1>1, <1>2, <2>1, Zenon DEF Whole, IsFile, Reached
  <2> QED BY <1>1, <1>2, <2>2 DEF TxnInv, Migrating
<1>7. BackupInv(p)'
  BY <1>1, <1>2 DEF BackupInv, Opening, Migrating
<1>8. \A q \in Process \ {p} : Local(q) /\ Apart(q)
  BY <1>1, <1>2, <1>3, SchemaBounds DEF Local, Apart
<1> QED BY <1>4, <1>5, <1>6, <1>7, <1>8, Compose

LEMMA CommitOperationStep ==
  ASSUME Inv, NEW p \in Process, CommitOperation(p)
  PROVE  Inv'
<1>1. /\ UNCHANGED <<backups, original, version, copy, service>> /\ at' = at /\ next' = next
      /\ disk' = txn /\ writer' = Nobody /\ stage[p] = "commit"
  BY DEF CommitOperation, Commit
<1>2. /\ at[p] = "opened" /\ writer = p /\ disk # NoFile /\ Whole(txn, disk.version)
      /\ disk.version \in Nat /\ stage \in [Process -> Stages]
      /\ at \in [Process -> Places] /\ next \in [Process -> Nat \ {0}]
  <2>1. TxnInv(p) /\ BackupInv(p) /\ FileInv
    BY DEF Inv
  <2>2. at[p] = "opened" /\ writer = p /\ Whole(txn, disk.version)
    BY <1>1, <2>1, Zenon DEF TxnInv
  <2> QED BY <2>1, <2>2 DEF BackupInv, FileInv, Whole, IsFile
<1>3. /\ stage' \in [Process -> Stages] /\ stage'[p] = "answer"
      /\ \A q \in Process \ {p} : stage'[q] = stage[q]
  BY <1>2 DEF CommitOperation, Stage, Stages
<1>4. /\ Whole(disk', disk'.version) /\ disk.version <= disk'.version
      /\ disk'.version = disk.version
  BY <1>1, <1>2 DEF Whole, IsFile, Reached
<1>5. /\ at' \in [Process -> Places] /\ next' \in [Process -> Nat \ {0}]
      /\ at'[p] = "opened"
      /\ \A q \in Process \ {p} : at'[q] = at[q] /\ next'[q] = next[q]
  BY <1>1, <1>2
<1>6. stage'[p] \notin {"write", "commit"}
  BY <1>3
<1> QED BY <1>1, <1>2, <1>3, <1>4, <1>5, <1>6, CommitStep

\* A rollback that leaves the process where it is.
LEMMA RollbackStep ==
  ASSUME Inv, NEW p \in Process, at[p] = "opened", stage'[p] \notin {"write", "commit"},
         UNCHANGED <<disk, at, version, next, copy, original, backups>>,
         \/ writer = p /\ writer' = Nobody
         \/ writer # p /\ UNCHANGED <<writer, txn>>,
         stage' \in [Process -> Stages], service' \in [Process -> Services],
         \A q \in Process \ {p} : stage'[q] = stage[q] /\ service'[q] = service[q]
  PROVE  Inv'
<1>1. at' = at /\ next' = next /\ copy' = copy /\ version' = version /\ FileInv
  BY DEF Inv
<1>2. /\ at' \in [Process -> Places] /\ next' \in [Process -> Nat \ {0}]
      /\ version' \in [Process -> Int] /\ copy' = [q \in Process |-> copy'[q]]
  BY <1>1 DEF FileInv
<1>3. \A q \in Process \ {p} : Local(q)
  BY <1>1 DEF Local
<1>4. LetGo(p)
  BY <1>1, <1>2, <1>3 DEF LetGo
<1> QED BY <1>4, LetGoStep

LEMMA OperationFailsStep ==
  ASSUME Inv, NEW p \in Process, OperationFails(p)
  PROVE  Inv'
<1>1. /\ UNCHANGED <<at, version, next, copy, original, backups, linked, deaths, service>>
      /\ stage[p] \in {"write", "commit"} /\ UNCHANGED disk
      /\ writer' = Nobody \/ UNCHANGED <<disk, txn, writer>>
  BY DEF OperationFails, Rollback
<1>2. /\ at[p] = "opened" /\ writer = p /\ stage \in [Process -> Stages]
      /\ service \in [Process -> Services]
  BY <1>1, Zenon DEF Inv, TxnInv, FileInv
<1>3. /\ stage' \in [Process -> Stages] /\ stage'[p] = "receive"
      /\ \A q \in Process \ {p} : stage'[q] = stage[q]
  BY <1>2, Zenon DEF OperationFails, Complete, Stages
<1>4. service' = service
  BY <1>1
<1>5. CASE writer' = Nobody
  <2>1. stage'[p] \notin {"write", "commit"} /\ service' \in [Process -> Services]
    BY <1>2, <1>3, <1>4
  <2> QED BY <1>1, <1>2, <1>3, <1>4, <1>5, <2>1, RollbackStep
<1>6. CASE UNCHANGED <<disk, txn, writer>>
  <2>1. UNCHANGED schemaVars
    BY <1>1, <1>6 DEF schemaVars
  <2>2. \A q \in Process :
          /\ stage'[q] \in {"write", "commit"} => stage'[q] = stage[q]
          /\ stage'[q] # "receive" \/ service'[q] # "none" => at[q] = "opened"
    BY <1>3, <1>4, Zenon DEF Inv, TxnInv
  <2> QED BY <1>2, <1>3, <1>4, <2>1, <2>2, ServiceStep
<1> QED BY <1>1, <1>5, <1>6

LEMMA CloseStep ==
  ASSUME Inv, NEW p \in Process, CloseConnection(p)
  PROVE  Inv'
<1>1. /\ UNCHANGED <<at, version, next, copy, original, backups>> /\ UNCHANGED disk
      /\ \/ writer = p /\ writer' = Nobody
         \/ writer # p /\ UNCHANGED <<writer, txn>>
  BY DEF CloseConnection, Rollback
<1>2. stage \in [Process -> Stages] /\ service \in [Process -> Services]
  BY DEF Inv, FileInv
<1>3. /\ stage' \in [Process -> Stages] /\ service' \in [Process -> Services]
      /\ stage'[p] = "done"
      /\ \A q \in Process \ {p} : stage'[q] = stage[q] /\ service'[q] = service[q]
  BY <1>2 DEF CloseConnection, Stage, Stages, Services
<1>4. at[p] = "opened"
  BY Zenon DEF CloseConnection, Inv, TxnInv
<1>5. stage'[p] \notin {"write", "commit"}
  BY <1>3
<1> QED BY <1>1, <1>3, <1>4, <1>5, RollbackStep

\* The schema variables of a killed process are those of one not started yet.
LEMMA DieStep ==
  ASSUME Inv, NEW p \in Process, Die(p)
  PROVE  Inv'
<1>1. /\ UNCHANGED <<disk, original, backups>> /\ Go(p, "start") /\ Forget(p)
      /\ \/ writer = p /\ writer' = Nobody
         \/ writer # p /\ UNCHANGED <<writer, txn>>
  BY Zenon DEF Die, Rollback
<1>2. FileInv
  BY DEF Inv
<1>3. /\ at' \in [Process -> Places] /\ at'[p] = "start"
      /\ \A q \in Process \ {p} : at'[q] = at[q]
  BY <1>1, <1>2, Placed, Zenon DEF Places
<1>4. /\ next' \in [Process -> Nat \ {0}] /\ version' \in [Process -> Int]
      /\ copy' = [q \in Process |-> copy'[q]]
      /\ \A q \in Process \ {p} : next'[q] = next[q] /\ copy'[q] = copy[q]
  BY <1>1, <1>2, Forgotten
<1>5. /\ stage' \in [Process -> Stages] /\ service' \in [Process -> Services]
      /\ stage'[p] = "receive" /\ service'[p] = "none"
      /\ \A q \in Process \ {p} : stage'[q] = stage[q] /\ service'[q] = service[q]
  BY <1>2 DEF Die, FileInv, Stages, Services
<1>6. \A q \in Process \ {p} : Local(q)
  BY <1>3, <1>4, <1>5 DEF Local
<1>7. stage'[p] \notin {"write", "commit"}
  BY <1>5
<1>8. LetGo(p)
  BY <1>1, <1>3, <1>4, <1>5, <1>6, <1>7 DEF LetGo
<1> QED BY <1>8, LetGoStep

\* The steps of the queue leave the file, the transaction and the opens alone.
LEMMA QueueStep ==
  ASSUME Inv, NEW p \in Process,
         \/ Managed(p) \/ Aclose(p) \/ CancelServe(p) \/ Receive(p) \/ RefuseReceived(p)
         \/ OperationBusy(p) \/ AnswerOperation(p) \/ EndOfStream(p) \/ RejectBuffered(p)
  PROVE  Inv'
<1>1. UNCHANGED schemaVars
  BY Zenon DEF Managed, Aclose, CancelServe, Receive, RefuseReceived, OperationBusy,
         AnswerOperation, EndOfStream, RejectBuffered
<1>2. stage \in [Process -> Stages] /\ service \in [Process -> Services]
  BY DEF Inv, FileInv
<1>3. \/ stage' = stage
      \/ stage' = [stage EXCEPT ![p] = "receive"]
      \/ /\ at[p] = "opened"
         /\ \E w \in {"drain", "close"} : stage' = [stage EXCEPT ![p] = w]
  BY Zenon DEF Managed, Aclose, CancelServe, Receive, RefuseReceived, OperationBusy,
         AnswerOperation, EndOfStream, RejectBuffered, Complete, Stage, Inv, TxnInv
<1>4. \/ service' = service
      \/ /\ at[p] = "opened"
         /\ \E w \in {"running", "closing"} : service' = [service EXCEPT ![p] = w]
  BY Zenon DEF Managed, Aclose, CancelServe, Receive, RefuseReceived, OperationBusy,
         AnswerOperation, EndOfStream, RejectBuffered, Inv, TxnInv
<1>5. stage' \in [Process -> Stages] /\ service' \in [Process -> Services]
  BY <1>2, <1>3, <1>4 DEF Stages, Services
<1>6. \A q \in Process : stage'[q] \in {"write", "commit"} => stage'[q] = stage[q]
  BY <1>2, <1>3
<1>7. \A q \in Process : stage'[q] # "receive" \/ service'[q] # "none" => at[q] = "opened"
  BY <1>2, <1>3, <1>4, Zenon DEF Inv, TxnInv
<1> QED BY <1>1, <1>5, <1>6, <1>7, ServiceStep, Zenon

LEMMA ExecuteStep ==
  ASSUME Inv, NEW c \in Caller, Execute(c)
  PROVE  Inv'
<1>1. UNCHANGED schemaVars /\ stage' = stage /\ service' = service
  BY DEF Execute
<1>2. stage' \in [Process -> Stages] /\ service' \in [Process -> Services]
  BY <1>1 DEF Inv, FileInv
<1>3. \A q \in Process :
        /\ stage'[q] \in {"write", "commit"} => stage'[q] = stage[q]
        /\ stage'[q] # "receive" \/ service'[q] # "none" => at[q] = "opened"
  BY <1>1, Zenon DEF Inv, TxnInv
<1> QED BY <1>1, <1>2, <1>3, ServiceStep, Zenon

-----------------------------------------------------------------------------
(* The invariant and what it implies.                                       *)

LEMMA LinkStep ==
  ASSUME Inv, Link, UNCHANGED serviceVars
  PROVE  Inv'
<1>1. /\ disk' = disk /\ txn' = txn /\ writer' = writer /\ original' = original
      /\ at' = at /\ next' = next /\ copy' = copy /\ backups' = backups /\ version' = version
      /\ stage' = stage /\ service' = service
  BY DEF Link, serviceVars
<1>2. FileInv' /\ UpgradeIsRecoverable'
  BY <1>1 DEF Inv, FileInv, Whole, IsFile, Reached, UpgradeIsRecoverable
<1>3. ASSUME NEW q \in Process PROVE TxnInv(q)' /\ BackupInv(q)'
  BY <1>1, Zenon DEF Inv, TxnInv, BackupInv, Saved, Whole, IsFile, Reached
<1> QED BY <1>2, <1>3 DEF Inv

LEMMA StutterStep ==
  ASSUME Inv, UNCHANGED vars
  PROVE  Inv'
<1>1. UNCHANGED schemaVars /\ stage' = stage /\ service' = service
  BY DEF vars, serviceVars
<1>2. stage' \in [Process -> Stages] /\ service' \in [Process -> Services]
  BY <1>1 DEF Inv, FileInv
<1>3. \A q \in Process :
        /\ stage'[q] \in {"write", "commit"} => stage'[q] = stage[q]
        /\ stage'[q] # "receive" \/ service'[q] # "none" => at[q] = "opened"
  BY <1>1, Zenon DEF Inv, TxnInv
<1> QED BY <1>1, <1>2, <1>3, ServiceStep

LEMMA NextInv == Inv /\ [Next]_vars => Inv'
<1> SUFFICES ASSUME Inv, [Next]_vars PROVE Inv'
  OBVIOUS
<1>1. CASE UNCHANGED vars
  BY <1>1, StutterStep
<1>2. CASE Link /\ UNCHANGED serviceVars
  BY <1>2, LinkStep
<1>3. ASSUME NEW p \in Process, ProcessStep(p) PROVE Inv'
  <2>1. CASE (OpenStep(p) \/ Retry(p)) /\ UNCHANGED serviceVars
    BY <2>1, OpenSteps
  <2>2. CASE Die(p)
    BY <2>2, DieStep
  <2>3. CASE \/ Managed(p) \/ Aclose(p) \/ CancelServe(p) \/ Receive(p) \/ RefuseReceived(p)
             \/ OperationBusy(p) \/ AnswerOperation(p) \/ EndOfStream(p) \/ RejectBuffered(p)
    BY <2>3, QueueStep
  <2>4. CASE RunOperation(p)
    BY <2>4, RunOperationStep
  <2>5. CASE ExecuteWrite(p)
    BY <2>5, ExecuteWriteStep
  <2>6. CASE CommitOperation(p)
    BY <2>6, CommitOperationStep
  <2>7. CASE OperationFails(p)
    BY <2>7, OperationFailsStep
  <2>8. CASE CloseConnection(p)
    BY <2>8, CloseStep
  <2> QED BY <1>3, <2>1, <2>2, <2>3, <2>4, <2>5, <2>6, <2>7, <2>8 DEF ProcessStep, ServeStep
<1>4. ASSUME NEW c \in Caller, Execute(c) PROVE Inv'
  BY <1>4, ExecuteStep
<1> QED BY <1>1, <1>2, <1>3, <1>4 DEF Next

LEMMA InvHolds == Spec => []Inv
BY InitInv, NextInv, PTL DEF Spec

\* The committed journal is at a whole migration in every reachable state, for any
\* number of migrations, statements, processes, callers and deaths: a process killed
\* inside _apply_one_migration, or one that migrates a file another process has
\* migrated meanwhile, leaves user_version, ledger and objects in agreement.
THEOREM JournalIsWhole == Spec => []LedgerTellsSchema
<1>1. Inv => LedgerTellsSchema
  BY DEF Inv, FileInv, LedgerTellsSchema, Exists, Whole, Reached
<1> QED BY <1>1, InvHolds, PTL

\* Once a journal has been migrated past the version it was found at, a verified
\* backup of that version exists, and the journal of a newer program is never
\* migrated (apply_migrations, _create_upgrade_backup, _verify_ledger).
THEOREM UpgradesAreRecoverable == Spec => []UpgradeIsRecoverable
<1>1. Inv => UpgradeIsRecoverable
  BY DEF Inv
<1> QED BY <1>1, InvHolds, PTL
=============================================================================
