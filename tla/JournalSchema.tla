--------------------------- MODULE JournalSchema ---------------------------
(***************************************************************************)
(* Creating, opening and migrating a journal file (journal/schema.py,      *)
(* journal/connection.py, journal/integrity.py) by several processes, each *)
(* of which may be killed at any point.                                    *)
(*                                                                         *)
(* The file is abstracted to what its checks compare: PRAGMA user_version, *)
(* the rows of schema_migrations, how many migrations have all of their    *)
(* objects and how many statements of the next one have run.  SQLite is    *)
(* external: one writer transaction at a time, visible at COMMIT, gone     *)
(* when its process dies.                                                  *)
(***************************************************************************)
EXTENDS Integers, Sequences, FiniteSets

CONSTANTS
  Process,      \* processes that use the journal of one run
  Latest,       \* migrations in this program's catalog
  Statements,   \* statements of one migration
  OldVersions,  \* versions an existing journal may have been left at
  MaxBackups,   \* MAX_BACKUP_CANDIDATES
  MaxDeaths     \* bound: processes killed in one behaviour

VARIABLES
  disk,      \* the committed journal file, NoFile before it is created
  txn,       \* the uncommitted copy of the writer's transaction
  writer,    \* the process inside BEGIN IMMEDIATE, or Nobody
  linked,    \* the file has a second hard link
  backups,   \* backup files: the upgrade they are named after and their content
  at,        \* what each process does next
  version,   \* user_version a process read first in _verify_ledger
  next,      \* the migration a process applies next
  copy,      \* the backup file a process is writing
  deaths,
  original   \* history: the version of the file that was there at first

schemaVars == <<disk, txn, writer, linked, backups, at, version, next, copy, deaths, original>>

Nobody == "nobody"

ASSUME SchemaBounds ==
  /\ Latest \in Nat \ {0} /\ Statements \in Nat \ {0}
  /\ OldVersions \subseteq Nat /\ MaxBackups \in Nat /\ MaxDeaths \in Nat
  /\ Nobody \notin Process

Migrated(v) == [version |-> v, ledger |-> v, complete |-> v, partial |-> 0, rows |-> <<>>]
EmptyFile == Migrated(0)
NoFile == [EmptyFile EXCEPT !.version = -1]
Backup(from, counter, holds, verified) ==
  [from |-> from, counter |-> counter, holds |-> holds, verified |-> verified]
NoCopy == Backup(0, 0, NoFile, FALSE)
Exists == disk # NoFile

SchemaInit ==
  /\ disk \in {NoFile} \cup {Migrated(v) : v \in OldVersions}
  /\ txn = NoFile /\ writer = Nobody /\ linked = FALSE /\ backups = {}
  /\ at = [p \in Process |-> "start"]
  /\ version = [p \in Process |-> 0]
  /\ next = [p \in Process |-> 1]
  /\ copy = [p \in Process |-> NoCopy]
  /\ deaths = 0
  /\ original = disk.version

Go(p, where) == at' = [at EXCEPT ![p] = where]

\* The locals of an open that returned or raised.
Forget(p) ==
  /\ version' = [version EXCEPT ![p] = 0]
  /\ next' = [next EXCEPT ![p] = 1]
  /\ copy' = [copy EXCEPT ![p] = NoCopy]

\* A caller that gives up closes its connection and raises; the file stays.
Refuse(p) == Go(p, "refused") /\ Forget(p) /\ UNCHANGED <<disk, txn, writer, backups>>

\* A hard link to the journal may appear at any time; the file guard compares the
\* link count and identity of the open descriptor with those of the pathname.
Link == /\ Exists /\ ~linked /\ linked' = TRUE
        /\ UNCHANGED <<disk, txn, writer, backups, at, version, next, copy, deaths, original>>

GuardVerify == Exists /\ ~linked

----------------------------------------------------------------------------
\* Creating and connecting

\* The run directory and the file are both created exclusively.
RunDirectoryTaken == Exists

CreateJournalDatabase(p) ==
  /\ at[p] = "start"
  /\ IF RunDirectoryTaken THEN Refuse(p)
     ELSE /\ disk' = EmptyFile
          /\ Go(p, "connect")
          /\ UNCHANGED <<txn, writer, backups, version, next, copy>>
  /\ UNCHANGED <<linked, deaths, original>>

\* A resume and an inspection check the file read-only before they open it.
VerifyResumeIntegrity(p) ==
  /\ at[p] = "start" /\ Exists
  /\ \/ ~GuardVerify /\ Refuse(p)
     \/ GuardVerify /\ Go(p, "connect") /\ UNCHANGED <<disk, txn, writer, backups, version, next, copy>>
  /\ UNCHANGED <<linked, deaths, original>>

\* _connect binds the descriptor, verifies it, sets the connection policy and
\* verifies it again.
Connect(p) ==
  /\ at[p] = "connect"
  /\ IF GuardVerify
     THEN Go(p, "read version") /\ UNCHANGED <<disk, txn, writer, backups, version, next, copy>>
     ELSE Refuse(p)
  /\ UNCHANGED <<linked, deaths, original>>

----------------------------------------------------------------------------
\* The migration ledger

LedgerTable(file) == file.complete > 0 \/ file.partial > 0

\* _verify_ledger, given the user_version read before: the number of applied
\* migrations, or -1 for an error.
VerifyLedger(read, file) ==
  IF read > Latest THEN -1
  ELSE IF ~LedgerTable(file) THEN (IF read = 0 THEN 0 ELSE -1)
  ELSE IF file.ledger > Latest \/ file.ledger = 0 THEN -1
  ELSE IF read = file.ledger THEN file.ledger ELSE -1

\* Outside a transaction each SELECT of _verify_ledger sees the file of its own
\* moment; the table lookup and the rows are one read here.
ReadVersion(p) ==
  /\ at[p] \in {"read version", "read version again"}
  /\ version' = [version EXCEPT ![p] = disk.version]
  /\ Go(p, IF at[p] = "read version" THEN "read ledger" ELSE "read ledger again")
  /\ UNCHANGED <<disk, txn, writer, linked, backups, next, copy, deaths, original>>

\* mutant: the upgrade from the first version is taken for a new journal
NeedsBackupLater(applied) == applied > 1 /\ applied < Latest

\* No caller of the program asks for no_backup.
NeedsBackup(applied) == applied > 0 /\ applied < Latest

ReadLedger(p) ==
  /\ at[p] = "read ledger"
  /\ LET applied == VerifyLedger(version[p], disk) IN
     IF applied = -1 THEN Refuse(p)
     ELSE /\ next' = [next EXCEPT ![p] = applied + 1]
          /\ Go(p, IF NeedsBackup(applied) THEN "create backup" ELSE "migrate")
          /\ UNCHANGED <<disk, txn, writer, backups, version, copy>>
  /\ UNCHANGED <<linked, deaths, original>>

----------------------------------------------------------------------------
\* The backup before an upgrade

Candidates(p) ==
  {n \in 0 .. MaxBackups - 1 :
     \A b \in backups : ~(b.from = next[p] - 1 /\ b.counter = n)}

CreateBackupFile(p) ==
  /\ at[p] = "create backup"
  /\ IF ~GuardVerify \/ Candidates(p) = {} THEN Refuse(p)
     ELSE LET n == CHOOSE n \in Candidates(p) : \A m \in Candidates(p) : n <= m
              file == Backup(next[p] - 1, n, NoFile, FALSE)
          IN /\ backups' = backups \cup {file}
             /\ copy' = [copy EXCEPT ![p] = file]
             /\ Go(p, "copy backup")
             /\ UNCHANGED <<disk, txn, writer, version, next>>
  /\ UNCHANGED <<linked, deaths, original>>

\* connection.backup copies one consistent state of the file, later than the one
\* whose ledger was verified; the copy may fail.
Replace(p, file) ==
  /\ backups' = (backups \ {copy[p]}) \cup {file}
  /\ copy' = [copy EXCEPT ![p] = file]

CopyBackup(p) ==
  /\ at[p] = "copy backup"
  /\ \/ Refuse(p)
     \/ /\ GuardVerify
        /\ Replace(p, Backup(copy[p].from, copy[p].counter, [disk EXCEPT !.rows = <<>>], FALSE))
        /\ Go(p, "validate backup")
        /\ UNCHANGED <<disk, txn, writer, version, next>>
  /\ UNCHANGED <<linked, deaths, original>>

\* The output of a migration: integrity_check, foreign keys, the ledger and the
\* objects of the applied prefix.
ValidMigrationOutput(file) ==
  /\ VerifyLedger(file.version, file) # -1
  /\ file.complete = file.ledger /\ file.partial = 0

ValidateBackup(p) ==
  /\ at[p] = "validate backup"
  /\ IF GuardVerify /\ ValidMigrationOutput(copy[p].holds)
     THEN /\ Replace(p, Backup(copy[p].from, copy[p].counter, copy[p].holds, TRUE))
          /\ Go(p, "migrate")
          /\ UNCHANGED <<disk, txn, writer, version, next>>
     ELSE Refuse(p)
  /\ UNCHANGED <<linked, deaths, original>>

----------------------------------------------------------------------------
\* One migration is one transaction

BeginImmediate(p) ==
  /\ writer = Nobody
  /\ writer' = p /\ txn' = disk

Commit == disk' = txn /\ txn' = NoFile /\ writer' = Nobody

Rollback == txn' = NoFile /\ writer' = Nobody /\ UNCHANGED disk

ApplyOneMigration(p) ==
  /\ at[p] = "migrate"
  /\ IF next[p] > Latest
     THEN Go(p, "read version again") /\ UNCHANGED <<txn, writer>>
     ELSE /\ BeginImmediate(p)
          /\ Go(p, "verify prefix")
  /\ UNCHANGED <<disk, linked, backups, version, next, copy, deaths, original>>

\* The busy timeout passes while another process holds the writer lock.
MigrationBusy(p) ==
  /\ at[p] = "migrate" /\ next[p] <= Latest
  /\ writer \notin {Nobody, p}
  /\ Refuse(p)
  /\ UNCHANGED <<linked, deaths, original>>

\* mutant: the ledger read before the lock is trusted
VerifyPrefixEarlier(p) ==
  /\ at[p] = "verify prefix"
  /\ Go(p, "statement")
  /\ UNCHANGED <<disk, txn, writer, linked, backups, version, next, copy, deaths, original>>

\* Under the lock the ledger is verified again: another process may have applied
\* this migration meanwhile.
VerifyPrefix(p) ==
  /\ at[p] = "verify prefix"
  /\ LET applied == VerifyLedger(txn.version, txn) IN
     IF applied >= next[p]
     THEN Commit /\ next' = [next EXCEPT ![p] = @ + 1] /\ Go(p, "migrate") /\ UNCHANGED <<version, copy>>
     ELSE IF applied = next[p] - 1
     THEN Go(p, "statement") /\ UNCHANGED <<disk, txn, writer, version, next, copy>>
     ELSE Rollback /\ Go(p, "refused") /\ Forget(p)
  /\ UNCHANGED <<linked, backups, deaths, original>>

ExecuteStatement(p) ==
  /\ at[p] = "statement"
  /\ IF txn.partial + 1 = Statements
     THEN /\ txn' = [txn EXCEPT !.complete = @ + 1, !.partial = 0]
          /\ Go(p, "ledger")
     ELSE /\ txn' = [txn EXCEPT !.partial = @ + 1]
          /\ Go(p, "statement")
  /\ UNCHANGED <<disk, writer, linked, backups, version, next, copy, deaths, original>>

InsertLedger(p) ==
  /\ at[p] = "ledger"
  /\ txn' = [txn EXCEPT !.ledger = @ + 1]
  /\ Go(p, "user_version")
  /\ UNCHANGED <<disk, writer, linked, backups, version, next, copy, deaths, original>>

SetUserVersion(p) ==
  /\ at[p] = "user_version"
  /\ txn' = [txn EXCEPT !.version = next[p]]
  /\ Go(p, "commit")
  /\ UNCHANGED <<disk, writer, linked, backups, version, next, copy, deaths, original>>

CommitMigration(p) ==
  /\ at[p] = "commit"
  /\ Commit
  /\ next' = [next EXCEPT ![p] = @ + 1]
  /\ Go(p, "migrate")
  /\ UNCHANGED <<linked, backups, version, copy, deaths, original>>

\* A statement, the ledger insert or COMMIT fails: the migration is rolled back.
MigrationFails(p) ==
  /\ at[p] \in {"statement", "ledger", "user_version", "commit"}
  /\ Rollback /\ Go(p, "refused") /\ Forget(p)
  /\ UNCHANGED <<linked, backups, deaths, original>>

\* The ledger once more, the output checks and the file binding.
ValidateOpened(p) ==
  /\ at[p] = "read ledger again"
  /\ IF VerifyLedger(version[p], disk) # -1 /\ ValidMigrationOutput(disk) /\ GuardVerify
     THEN Go(p, "opened") /\ Forget(p) /\ UNCHANGED <<disk, txn, writer, backups>>
     ELSE Refuse(p)
  /\ UNCHANGED <<linked, deaths, original>>

\* A refused process may try again.
Retry(p) ==
  /\ at[p] = "refused" /\ deaths < MaxDeaths
  /\ deaths' = deaths + 1
  /\ Go(p, "start")
  /\ UNCHANGED <<disk, txn, writer, linked, backups, version, next, copy, original>>

OpenStep(p) ==
  \/ CreateJournalDatabase(p) \/ VerifyResumeIntegrity(p) \/ Connect(p)
  \/ ReadVersion(p) \/ ReadLedger(p)
  \/ CreateBackupFile(p) \/ CopyBackup(p) \/ ValidateBackup(p)
  \/ ApplyOneMigration(p) \/ MigrationBusy(p) \/ VerifyPrefix(p)
  \/ ExecuteStatement(p) \/ InsertLedger(p) \/ SetUserVersion(p)
  \/ CommitMigration(p) \/ MigrationFails(p) \/ ValidateOpened(p)

----------------------------------------------------------------------------
\* A committed journal is always at a whole migration: user_version, the ledger
\* and the objects agree, whatever process died in whatever statement, so the
\* prior version stays usable (_apply_one_migration, _verify_ledger).
LedgerTellsSchema ==
  Exists => /\ disk.version = disk.ledger
            /\ disk.complete = disk.ledger
            /\ disk.partial = 0

\* An existing journal is never migrated past its version without a verified
\* backup that still holds that version, even when two processes upgrade it at
\* once, and a journal of a newer program is left as it is (apply_migrations,
\* _create_upgrade_backup, _verify_ledger).
UpgradeIsRecoverable ==
  /\ original > 0 /\ disk.version # original
       => \E b \in backups : b.verified /\ b.holds.version = original
  /\ original > Latest => disk.version = original
=============================================================================
