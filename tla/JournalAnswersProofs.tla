------------------------ MODULE JournalAnswersProofs ------------------------
(***************************************************************************)
(* For any number of processes, callers, rows per operation and places in  *)
(* the queue, what a caller is told agrees with what the journal holds,    *)
(* and an operation without an answer is in one pair of hands.             *)
(*                                                                         *)
(* RowInv follows the rows of each operation: an open transaction of an    *)
(* operation is the committed file and some rows of that operation alone,  *)
(* and what is committed is made of whole operations.  QueueInv, of        *)
(* JournalQueueProofs, says where the operation is meanwhile.              *)
(***************************************************************************)
EXTENDS JournalServiceProofs, JournalQueueProofs

\* The rows of c are the Writes rows after the first lo.
Block(c, rows, lo) ==
  /\ lo + Writes <= Len(rows)
  /\ \A i \in DOMAIN rows : rows[i] = c <=> lo < i /\ i <= lo + Writes

Written(c) == In(c, disk.rows)

\* rows is the committed rows and some rows of c.
Extends(rows, c) ==
  /\ rows \in Seq(Caller) /\ Len(disk.rows) <= Len(rows)
  /\ \A i \in 1 .. Len(disk.rows) : rows[i] = disk.rows[i]
  /\ \A i \in Len(disk.rows) + 1 .. Len(rows) : rows[i] = c

FileRows ==
  /\ disk.rows \in Seq(Caller)
  /\ \A c \in Caller : Written(c) => \E lo \in 0 .. Len(disk.rows) : Block(c, disk.rows, lo)

\* What the state of a caller says of its rows.
CallRows(c) ==
  /\ call[c] = "ok" => Written(c)
  /\ call[c] \in {"new", "failed", "closed"} => ~Written(c)
  /\ call[c] \in Pending /\ Written(c) =>
       current[Home[c]] = c /\ stage[Home[c]] = "answer"

\* What the transaction of a process has written.
TxnRows(p) ==
  /\ at[p] \in Migrating => txn.rows = disk.rows
  /\ stage[p] \in {"write", "commit"} =>
       /\ Extends(txn.rows, current[p])
       /\ Len(txn.rows) <= Len(disk.rows) + Writes
       /\ stage[p] = "write" <=> Len(txn.rows) # Len(disk.rows) + Writes
  /\ stage[p] = "answer" => Written(current[p])

RowInv ==
  /\ FileRows
  /\ \A c \in Caller : CallRows(c)
  /\ \A p \in Process : TxnRows(p)

-----------------------------------------------------------------------------
(* The rows.                                                                *)

\* A step of p that leaves the committed rows and the other transactions alone.
LEMMA RowCompose ==
  ASSUME Inv, RowInv, NEW p \in Process, disk'.rows = disk.rows,
         txn' = txn \/ writer \in {p, Nobody},
         \A q \in Process \ {p} :
           at'[q] = at[q] /\ stage'[q] = stage[q] /\ current'[q] = current[q],
         \A c \in Caller : Home[c] # p => call'[c] = call[c],
         \A c \in Caller : Home[c] = p => CallRows(c)',
         TxnRows(p)'
  PROVE  RowInv'
<1>1. FileRows'
  BY DEF RowInv, FileRows, Written
<1>2. \A c : Written(c)' <=> Written(c)
  BY DEF Written
<1>3. ASSUME NEW c \in Caller PROVE CallRows(c)'
  <2>1. CASE Home[c] = p
    BY <2>1
  <2>2. CASE Home[c] # p
    <3>1. Home[c] \in Process \ {p} /\ CallRows(c)
      BY <2>2, ServiceBounds DEF RowInv
    <3> QED BY <1>2, <2>2, <3>1 DEF CallRows
  <2> QED BY <2>1, <2>2
<1>4. ASSUME NEW q \in Process \ {p} PROVE TxnRows(q)'
  <2>1. TxnRows(q) /\ TxnInv(q) /\ q # Nobody
    BY SchemaBounds DEF RowInv, Inv
  <2>2. at'[q] = at[q] /\ stage'[q] = stage[q] /\ current'[q] = current[q]
    OBVIOUS
  <2>3. CASE txn' = txn
    BY <1>2, <2>1, <2>2, <2>3, Zenon DEF TxnRows, Extends
  <2>4. CASE writer \in {p, Nobody}
    <3>1. at[q] \notin Migrating /\ stage[q] \notin {"write", "commit"}
      BY <2>1, <2>4, Zenon DEF TxnInv
    <3> QED BY <1>2, <2>1, <2>2, <3>1, Zenon DEF TxnRows
  <2> QED BY <2>3, <2>4
<1> QED BY <1>1, <1>3, <1>4 DEF RowInv

\* Opening and migrating a journal keep the rows it has.
LEMMA RowsKept ==
  ASSUME Inv, RowInv, NEW p \in Process, UNCHANGED serviceVars, at[p] # "opened",
         disk'.rows = disk.rows, txn' = txn \/ writer \in {p, Nobody},
         \A q \in Process \ {p} : at'[q] = at[q],
         at'[p] \in Migrating => txn'.rows = disk.rows
  PROVE  RowInv'
<1>1. stage' = stage /\ current' = current /\ call' = call
  BY Zenon DEF serviceVars
<1>2. stage[p] = "receive"
  BY Zenon DEF Inv, TxnInv
<1>3. TxnRows(p)'
  BY <1>1, <1>2, Zenon DEF TxnRows
<1>4. ASSUME NEW c \in Caller PROVE CallRows(c)'
  BY <1>1 DEF RowInv, CallRows, Written
<1> QED BY <1>1, <1>3, <1>4, RowCompose, Zenon

LEMMA RowsOfOpens ==
  ASSUME Inv, RowInv, NEW p \in Process, UNCHANGED serviceVars, OpenStep(p) \/ Retry(p)
  PROVE  RowInv'
<1>1. /\ at \in [Process -> Places] /\ (at[p] \in Migrating => writer = p)
      /\ TxnRows(p) /\ TxnInv(p)
  BY Zenon DEF Inv, FileInv, TxnInv, RowInv
<1>2. CASE CreateJournalDatabase(p)
  <2>1. CASE RunDirectoryTaken
    <3>1. Refuse(p) /\ at[p] = "start"
      BY <1>2, <2>1 DEF CreateJournalDatabase
    <3> QED BY <1>1, <3>1, RowsKept, Zenon DEF Refuse, Go, Migrating
  <2>2. CASE ~RunDirectoryTaken
    <3>1. disk = NoFile /\ disk' = EmptyFile /\ UNCHANGED txn /\ at[p] = "start"
          /\ Go(p, "connect")
      BY <1>2, <2>2 DEF CreateJournalDatabase, RunDirectoryTaken, Exists
    <3>2. disk'.rows = disk.rows
      BY <3>1 DEF NoFile, EmptyFile, Migrated
    <3> QED BY <1>1, <3>1, <3>2, RowsKept, Zenon DEF Go, Migrating
  <2> QED BY <2>1, <2>2
<1>3. CASE \/ VerifyResumeIntegrity(p) \/ Connect(p) \/ ReadVersion(p) \/ ReadLedger(p)
           \/ CreateBackupFile(p) \/ CopyBackup(p) \/ ValidateBackup(p) \/ MigrationBusy(p)
           \/ ValidateOpened(p) \/ Retry(p)
  <2>1. UNCHANGED <<disk, txn>> /\ at[p] # "opened"
    BY <1>3, Zenon DEF VerifyResumeIntegrity, Connect, ReadVersion, ReadLedger, CreateBackupFile,
                CopyBackup, ValidateBackup, MigrationBusy, ValidateOpened, Retry, Refuse
  <2>2. \E w \in Places \ Migrating : at' = [at EXCEPT ![p] = w]
    BY <1>3, Zenon DEF VerifyResumeIntegrity, Connect, ReadVersion, ReadLedger, CreateBackupFile,
                CopyBackup, ValidateBackup, MigrationBusy, ValidateOpened, Retry, Refuse, Go,
                Places, Opening, Migrating
  <2>3. at'[p] \notin Migrating /\ \A q \in Process \ {p} : at'[q] = at[q]
    BY <1>1, <2>2
  <2> QED BY <2>1, <2>3, RowsKept
<1>4. CASE ApplyOneMigration(p)
  <2>1. /\ at[p] = "migrate" /\ disk' = disk
        /\ \/ Go(p, "read version again") /\ txn' = txn
           \/ Go(p, "verify prefix") /\ writer = Nobody /\ txn' = disk
    BY <1>4, Zenon DEF ApplyOneMigration, BeginImmediate
  <2> QED BY <1>1, <2>1, RowsKept, Zenon DEF Go, Migrating
<1>5. CASE VerifyPrefix(p)
  <2>1. at[p] = "verify prefix" /\ writer = p /\ txn.rows = disk.rows
    BY <1>1, <1>5, Zenon DEF VerifyPrefix, TxnRows, Migrating
  <2>2. /\ disk' \in {txn, disk}
        /\ \/ Go(p, "migrate") \/ Go(p, "refused")
           \/ Go(p, "statement") /\ txn' = txn
    BY <1>5, Zenon DEF VerifyPrefix, Commit, Rollback
  <2> QED BY <1>1, <2>1, <2>2, RowsKept, Zenon DEF Go, Migrating
<1>6. CASE ExecuteStatement(p) \/ InsertLedger(p) \/ SetUserVersion(p)
  <2>1. /\ at[p] \in Migrating \ {"verify prefix"} /\ disk' = disk
        /\ \E w : at' = [at EXCEPT ![p] = w]
    BY <1>6, Zenon DEF ExecuteStatement, InsertLedger, SetUserVersion, Migrating, Go
  <2>2. /\ writer = p /\ IsFile(txn) /\ txn.rows = disk.rows
    BY <1>1, <2>1, Zenon DEF TxnInv, TxnRows
  <2>3. txn'.rows = txn.rows
    <3>1. txn = [version |-> txn.version, ledger |-> txn.ledger, complete |-> txn.complete,
                 partial |-> txn.partial, rows |-> txn.rows]
      BY <2>2 DEF IsFile
    <3>2. \E v, l, c, s : txn' = [version |-> v, ledger |-> l, complete |-> c,
                                  partial |-> s, rows |-> txn.rows]
      BY <1>6, <3>1, Zenon DEF ExecuteStatement, InsertLedger, SetUserVersion
    <3> QED BY <3>2
  <2> QED BY <1>1, <2>1, <2>2, <2>3, RowsKept, Zenon DEF Migrating
<1>7. CASE CommitMigration(p) \/ MigrationFails(p)
  <2>1. /\ at[p] \in Migrating /\ disk' \in {txn, disk}
        /\ Go(p, "migrate") \/ Go(p, "refused")
    BY <1>7, Zenon DEF CommitMigration, MigrationFails, Commit, Rollback, Migrating
  <2>2. writer = p /\ txn.rows = disk.rows /\ at[p] # "opened"
    BY <1>1, <1>7, Zenon DEF TxnRows, CommitMigration, MigrationFails, Migrating
  <2> QED BY <1>1, <2>1, <2>2, RowsKept, Zenon DEF Go, Migrating
<1> QED BY <1>2, <1>3, <1>4, <1>5, <1>6, <1>7 DEF OpenStep

\* A step that changes only how far the service of p is.
LEMMA RowsOfTurns ==
  ASSUME Inv, QueueInv, RowInv, NEW p \in Process,
         \/ Managed(p) \/ Aclose(p) \/ CancelServe(p) \/ EndOfStream(p) \/ RunOperation(p)
         \/ CloseConnection(p)
  PROVE  RowInv'
<1>1. /\ disk' = disk /\ at' = at /\ current' = current /\ call' = call
  BY Zenon DEF Managed, Aclose, CancelServe, EndOfStream, RunOperation, CloseConnection,
         schemaVars, Rollback
<1>2. TxnRows(p) /\ TxnInv(p) /\ stage \in [Process -> Stages]
  BY DEF RowInv, Inv, FileInv
<1>3. txn' = txn \/ writer \in {p, Nobody}
  BY Zenon DEF Managed, Aclose, CancelServe, EndOfStream, RunOperation, CloseConnection,
         schemaVars, BeginImmediate
<1>4. /\ \A q \in Process \ {p} : stage'[q] = stage[q]
      /\ \/ stage'[p] = stage[p] /\ txn' = txn
         \/ stage[p] = "receive" /\ stage'[p] = "drain" /\ txn' = txn
         \/ stage[p] = "close" /\ stage'[p] = "done"
         \/ /\ stage[p] = "receive" /\ stage'[p] = "write" /\ txn' = disk
            /\ current[p] # Idle /\ service[p] = "running"
  BY <1>2, Zenon DEF Managed, Aclose, CancelServe, EndOfStream, RunOperation, CloseConnection,
              schemaVars, BeginImmediate, Stage
<1>5. ASSUME NEW c \in Caller PROVE CallRows(c)'
  <2>1. CallRows(c) /\ Home[c] \in Process
    BY ServiceBounds DEF RowInv
  <2>2. Written(c)' <=> Written(c)
    BY <1>1 DEF Written
  <2>3. stage[Home[c]] = "answer" => stage'[Home[c]] = "answer"
    BY <1>4, <2>1, Zenon
  <2> QED BY <1>1, <2>1, <2>2, <2>3, Zenon DEF CallRows
<1>6. TxnRows(p)'
  <2>1. CASE stage'[p] = stage[p] /\ txn' = txn
    BY <1>1, <1>2, <2>1, Zenon DEF TxnRows, Extends, Written
  <2>2. CASE stage[p] = "receive" /\ stage'[p] = "drain" /\ txn' = txn
    BY <1>1, <1>2, <2>2, Zenon DEF TxnRows
  <2>3. CASE stage[p] = "close" /\ stage'[p] = "done"
    <3>1. at[p] = "opened"
      BY <1>2, <2>3, Zenon DEF TxnInv
    <3> QED BY <1>1, <2>3, <3>1, Zenon DEF TxnRows, Migrating
  <2>4. CASE /\ stage[p] = "receive" /\ stage'[p] = "write" /\ txn' = disk
             /\ current[p] # Idle /\ service[p] = "running"
    <3>1. at[p] = "opened"
      BY <1>2, <2>4, Zenon DEF TxnInv
    <3>2. disk.rows \in Seq(Caller) /\ Len(disk.rows) \in Nat /\ Writes \in Nat \ {0}
      BY ServiceBounds DEF RowInv, FileRows
    <3>3. Extends(disk.rows, current[p])
      BY <3>2 DEF Extends
    <3>4. Extends(txn.rows, current[p])'
      BY <1>1, <2>4, <3>3 DEF Extends
    <3>5. Len(disk.rows) <= Len(disk.rows) + Writes /\ Len(disk.rows) # Len(disk.rows) + Writes
      BY <3>2
    <3> QED BY <1>1, <2>4, <3>1, <3>4, <3>5, Zenon DEF TxnRows, Migrating
  <2> QED BY <1>4, <2>1, <2>2, <2>3, <2>4, Zenon
<1> QED BY <1>1, <1>3, <1>4, <1>5, <1>6, RowCompose, Zenon

\* Operations that enter the queue, move up in it or are refused from it have
\* written nothing.
LEMMA RowsOfQueue ==
  ASSUME Inv, QueueInv, RowInv, NEW p \in Process, UNCHANGED schemaVars,
         stage' \in [Process -> Stages], stage'[p] \notin {"write", "commit", "answer"},
         stage[p] \notin {"write", "commit", "answer"},
         \A q \in Process \ {p} : stage'[q] = stage[q] /\ current'[q] = current[q],
         \A c \in Caller : Home[c] # p => call'[c] = call[c],
         \A c \in Caller : Home[c] = p /\ call'[c] # call[c] =>
           call[c] \in Pending \cup {"new"} /\ call'[c] # "ok"
  PROVE  RowInv'
<1>1. disk' = disk /\ txn' = txn /\ at' = at
  BY Zenon DEF schemaVars
<1>2. \A c : Written(c)' <=> Written(c)
  BY <1>1, Zenon DEF Written
<1>3. ASSUME NEW c \in Caller, Home[c] = p PROVE CallRows(c)'
  <2>1. CallRows(c)
    BY Zenon DEF RowInv
  <2>2. CASE call'[c] = call[c]
    BY <1>2, <1>3, <2>1, <2>2, Zenon DEF CallRows
  <2>3. CASE call'[c] # call[c]
    <3>1. ~Written(c) /\ call'[c] # "ok"
      BY <1>3, <2>1, <2>3 DEF CallRows
    <3> QED BY <1>2, <3>1 DEF CallRows
  <2> QED BY <2>2, <2>3
<1>4. TxnRows(p)'
  BY <1>1, Zenon DEF RowInv, TxnRows
<1> QED BY <1>1, <1>3, <1>4, RowCompose

\* The operation at hand belongs to a caller of the process, who waits for it.
LEMMA AtHand ==
  ASSUME QueueInv, NEW p \in Process,
         current[p] # Idle \/ stage[p] \in {"write", "commit", "answer"}
  PROVE  current[p] \in Caller /\ Home[current[p]] = p /\ call[current[p]] = "queued"
<1>1. LineInv(p) /\ current[p] \in Caller \cup {Idle} /\ \A c \in Caller : PlaceInv(p, c)
  BY DEF QueueInv, QueueTypes
<1>2. current[p] \in Caller
  BY <1>1, Zenon DEF LineInv
<1> QED BY <1>1, <1>2, Zenon DEF PlaceInv

LEMMA RowsOfServing ==
  ASSUME Inv, QueueInv, RowInv, NEW p \in Process,
         \/ Receive(p) \/ RejectBuffered(p) \/ RefuseReceived(p) \/ OperationBusy(p)
  PROVE  RowInv'
<1>1. QueueTypes /\ UNCHANGED schemaVars
  BY Zenon DEF QueueInv, Receive, RejectBuffered, RefuseReceived, OperationBusy
<1>2. CASE Receive(p)
  <2>1. /\ stage' = stage /\ stage[p] = "receive"
        /\ \A q \in Process \ {p} : current'[q] = current[q]
        /\ \A c \in Caller : call'[c] = IF c \in Woken(p) THEN "queued" ELSE call[c]
    BY <1>1, <1>2 DEF Receive, QueueTypes
  <2>2. ASSUME NEW c \in Caller, c \in Woken(p) PROVE Home[c] = p /\ call[c] = "blocked"
    <3>1. blocked[p] # <<>> /\ c = Head(blocked[p]) /\ blocked[p] \in Seq(Caller)
      BY <1>1, <2>2 DEF Woken, QueueTypes
    <3>2. In(c, blocked[p])
      BY <3>1, Headed, Zenon
    <3> QED BY <3>2, Zenon DEF QueueInv, PlaceInv
  <2> QED BY <1>1, <2>1, <2>2, RowsOfQueue, Zenon DEF QueueTypes, Pending
<1>3. CASE RejectBuffered(p)
  <2>1. /\ stage' \in [Process -> Stages] /\ stage'[p] = "close" /\ stage[p] = "drain"
        /\ current' = current /\ \A q \in Process \ {p} : stage'[q] = stage[q]
        /\ \A c \in Caller : call'[c] = IF c \in Left(p) THEN "closed" ELSE call[c]
    BY <1>1, <1>3 DEF RejectBuffered, Stage, QueueTypes, Stages
  <2>2. ASSUME NEW c \in Caller, c \in Left(p) PROVE Home[c] = p /\ call[c] \in Pending
    <3>1. In(c, buffer[p]) \/ In(c, blocked[p])
      BY <2>2 DEF Left, In
    <3> QED BY <3>1, Zenon DEF QueueInv, PlaceInv, Pending
  <2> QED BY <1>1, <2>1, <2>2, RowsOfQueue
<1>4. CASE RefuseReceived(p) \/ OperationBusy(p)
  <2>1. /\ stage[p] = "receive" /\ current[p] # Idle
        /\ \E what \in {"closed", "failed"} : Complete(p, what)
    BY <1>4, Zenon DEF RefuseReceived, OperationBusy
  <2>2. current[p] \in Caller /\ Home[current[p]] = p /\ call[current[p]] = "queued"
    BY <2>1, AtHand, Zenon
  <2>3. /\ stage' \in [Process -> Stages] /\ stage'[p] = "receive"
        /\ \A q \in Process \ {p} : stage'[q] = stage[q] /\ current'[q] = current[q]
        /\ \A c \in Caller \ {current[p]} : call'[c] = call[c]
        /\ call'[current[p]] # "ok"
    BY <1>1, <2>1, <2>2, Zenon DEF Complete, Answer, QueueTypes, Stages
  <2> QED BY <1>1, <2>1, <2>2, <2>3, RowsOfQueue, Zenon DEF Pending
<1> QED BY <1>2, <1>3, <1>4

LEMMA RowsOfExecute ==
  ASSUME Inv, QueueInv, RowInv, NEW e \in Caller, Execute(e)
  PROVE  RowInv'
<1> DEFINE p == Home[e]
<1>1. p \in Process /\ QueueTypes
  BY ServiceBounds DEF QueueInv
<1>2. /\ UNCHANGED schemaVars /\ stage' = stage /\ call[e] = "new"
      /\ stage[p] \notin {"write", "commit", "answer"}
      /\ \E w \in {"closed", "queued", "blocked"} : call' = Answer(e, w)
      /\ \E h : current' = [current EXCEPT ![p] = h]
  <2>1. current = [current EXCEPT ![p] = current[p]]
    BY <1>1 DEF QueueTypes
  <2> QED BY <2>1, Zenon DEF Execute, InOperation
<1>3. /\ call'[e] # "ok" /\ \A c \in Caller \ {e} : call'[c] = call[c]
      /\ \A q \in Process \ {p} : current'[q] = current[q]
  BY <1>1, <1>2 DEF QueueTypes, Answer
<1> QED BY <1>1, <1>2, <1>3, RowsOfQueue, Zenon DEF QueueTypes

\* The answer follows the commit, or nothing was committed.
LEMMA RowsOfAnswers ==
  ASSUME Inv, QueueInv, RowInv, NEW p \in Process, AnswerOperation(p) \/ OperationFails(p)
  PROVE  RowInv'
<1> DEFINE d == current[p]
<1>1. /\ QueueTypes /\ TxnRows(p) /\ TxnInv(p) /\ LineInv(p) /\ Idle \notin Caller
      /\ disk' = disk /\ at' = at
  BY ServiceBounds DEF QueueInv, RowInv, Inv, AnswerOperation, OperationFails, schemaVars,
                       Rollback, Idle
<1>2. /\ stage[p] \in {"write", "commit", "answer"}
      /\ \/ stage[p] = "answer" /\ Complete(p, "ok") /\ txn' = txn
         \/ stage[p] # "answer" /\ Complete(p, "failed")
  BY DEF AnswerOperation, OperationFails, schemaVars
<1>3. d \in Caller /\ Home[d] = p /\ call[d] = "queued"
  BY <1>2, AtHand, Zenon
<1>4. at[p] = "opened" /\ (stage[p] # "answer" => writer = p)
  BY <1>1, <1>2, Zenon DEF TxnInv
<1>5. /\ stage'[p] = "receive"
      /\ \A q \in Process \ {p} : stage'[q] = stage[q] /\ current'[q] = current[q]
      /\ \A c \in Caller \ {d} : call'[c] = call[c]
      /\ call'[d] = IF stage[p] = "answer" THEN "ok" ELSE "failed"
  BY <1>1, <1>2, <1>3, Zenon DEF Complete, Answer, QueueTypes
<1>6. \A c : Written(c)' <=> Written(c)
  BY <1>1 DEF Written
<1>7. ASSUME NEW c \in Caller, Home[c] = p PROVE CallRows(c)'
  <2>1. CallRows(c)
    BY DEF RowInv
  <2>2. CASE c = d
    <3>1. Written(d) <=> stage[p] = "answer"
      BY <1>1, <1>3, <2>1, <2>2, Zenon DEF TxnRows, CallRows, Pending
    <3> QED BY <1>5, <1>6, <2>2, <3>1, Zenon DEF CallRows, Pending
  <2>3. CASE c # d
    BY <1>5, <1>6, <1>7, <2>1, <2>3, Zenon DEF CallRows
  <2> QED BY <2>2, <2>3
<1>8. TxnRows(p)'
  BY <1>1, <1>4, <1>5, Zenon DEF TxnRows, Migrating
<1> QED BY <1>1, <1>2, <1>3, <1>4, <1>5, <1>7, <1>8, RowCompose, Zenon

LEMMA RowsOfDeath ==
  ASSUME Inv, QueueInv, RowInv, NEW p \in Process, Die(p)
  PROVE  RowInv'
<1>1. QueueTypes /\ at \in [Process -> Places] /\ disk' = disk
  BY DEF QueueInv, Inv, FileInv, Die, Rollback
<1>2. /\ at'[p] = "start" /\ stage'[p] = "receive"
      /\ \A q \in Process \ {p} :
           at'[q] = at[q] /\ stage'[q] = stage[q] /\ current'[q] = current[q]
      /\ \A c \in Caller :
           call'[c] = IF Home[c] = p /\ call[c] \in Pending THEN "gone" ELSE call[c]
  BY <1>1, Zenon DEF Die, Go, QueueTypes
<1>3. txn' = txn \/ writer \in {p, Nobody}
  BY DEF Die
<1>4. ASSUME NEW c \in Caller, Home[c] = p PROVE CallRows(c)'
  <2>1. CallRows(c) /\ (Written(c)' <=> Written(c))
    BY <1>1 DEF RowInv, Written
  <2>2. CASE call[c] \in Pending
    <3>1. call'[c] = "gone"
      BY <1>2, <1>4, <2>2
    <3> QED BY <3>1 DEF CallRows, Pending
  <2>3. CASE call[c] \notin Pending
    <3>1. call'[c] = call[c]
      BY <1>2, <2>3
    <3> QED BY <2>1, <2>3, <3>1, Zenon DEF CallRows
  <2> QED BY <2>2, <2>3
<1>5. TxnRows(p)'
  BY <1>2 DEF TxnRows, Migrating
<1> QED BY <1>1, <1>2, <1>3, <1>4, <1>5, RowCompose, Zenon

\* The commit makes the operation's rows one more whole block of the file.
LEMMA RowsOfCommit ==
  ASSUME Inv, QueueInv, RowInv, NEW p \in Process, CommitOperation(p)
  PROVE  RowInv'
<1> DEFINE d == current[p]
           n == Len(disk.rows)
<1>1. /\ QueueTypes /\ TxnRows(p) /\ TxnInv(p) /\ stage[p] = "commit"
      /\ disk' = txn /\ at' = at /\ current' = current /\ call' = call
      /\ stage'[p] = "answer" /\ \A q \in Process \ {p} : stage'[q] = stage[q]
  BY DEF QueueInv, QueueTypes, RowInv, Inv, CommitOperation, Commit, Stage
<1>2. /\ at[p] = "opened" /\ writer = p
      /\ Extends(txn.rows, d) /\ Len(txn.rows) = n + Writes
  BY <1>1, Zenon DEF TxnInv, TxnRows
<1>3. d \in Caller /\ Home[d] = p /\ call[d] = "queued"
  BY <1>1, AtHand
<1>4. ~Written(d)
  BY <1>1, <1>3, Zenon DEF RowInv, CallRows, Pending
<1>5. /\ disk.rows \in Seq(Caller) /\ n \in Nat /\ Writes \in Nat \ {0}
      /\ disk'.rows \in Seq(Caller) /\ Len(disk'.rows) = n + Writes
      /\ DOMAIN disk.rows = 1 .. n /\ DOMAIN disk'.rows = 1 .. n + Writes
      /\ \A i \in 1 .. n : disk'.rows[i] = disk.rows[i]
      /\ \A i \in n + 1 .. n + Writes : disk'.rows[i] = d
  <2>1. disk'.rows \in Seq(Caller) /\ disk.rows \in Seq(Caller)
    BY <1>1, <1>2, Zenon DEF RowInv, FileRows, Extends
  <2>2. n \in Nat /\ Writes \in Nat \ {0} /\ Len(disk'.rows) = n + Writes
    <3>1. Len(disk'.rows) = n + Writes
      BY <1>1, <1>2, Zenon
    <3> QED BY <2>1, <3>1, ServiceBounds
  <2>3. DOMAIN disk.rows = 1 .. n /\ DOMAIN disk'.rows = 1 .. n + Writes
    <3>1. DOMAIN disk.rows = 1 .. Len(disk.rows) /\ DOMAIN disk'.rows = 1 .. Len(disk'.rows)
      BY <2>1
    <3> QED BY <2>2, <3>1, Zenon
  <2>4. /\ \A i \in 1 .. n : disk'.rows[i] = disk.rows[i]
        /\ \A i \in n + 1 .. n + Writes : disk'.rows[i] = d
    BY <1>1, <1>2, Zenon DEF Extends
  <2> QED BY <2>1, <2>2, <2>3, <2>4
<1> HIDE DEF n
<1>6. \A i \in 1 .. n + Writes : i \in 1 .. n \/ i \in n + 1 .. n + Writes
  BY <1>5
<1>7. /\ \A i \in 1 .. n : i \in 1 .. n + Writes
      /\ n + 1 \in 1 .. n + Writes /\ n + 1 \in n + 1 .. n + Writes
  BY <1>5
<1>8. \A c : Written(c)' <=> Written(c) \/ c = d
  BY <1>5, <1>6, <1>7, Zenon DEF Written, In
<1>9. ASSUME NEW c \in Caller, Written(c)'
      PROVE  \E lo \in 0 .. Len(disk'.rows) : Block(c, disk'.rows, lo)
  <2>1. CASE c = d
    <3>1. ASSUME NEW i \in 1 .. n + Writes PROVE disk'.rows[i] = d <=> n < i /\ i <= n + Writes
      <4>1. CASE i \in 1 .. n
        BY <1>4, <1>5, <4>1 DEF Written, In
      <4>2. CASE i \in n + 1 .. n + Writes
        BY <1>5, <4>2
      <4> QED BY <1>6, <4>1, <4>2
    <3>2. Block(d, disk'.rows, n)
      BY <1>5, <3>1 DEF Block
    <3>3. n \in 0 .. Len(disk'.rows)
      BY <1>5
    <3> QED BY <2>1, <3>2, <3>3
  <2>2. CASE c # d
    <3>1. PICK lo \in 0 .. n : Block(c, disk.rows, lo)
      BY <1>8, <1>9, <2>2 DEF RowInv, FileRows, n
    <3>2. /\ lo \in Nat /\ lo + Writes <= n
          /\ \A i \in 1 .. n : disk.rows[i] = c <=> lo < i /\ i <= lo + Writes
      <4>1. Len(disk.rows) = n
        BY DEF n
      <4> QED BY <1>5, <3>1, <4>1, SMTT(20) DEF Block
    <3>3. ASSUME NEW i \in 1 .. n + Writes
          PROVE  disk'.rows[i] = c <=> lo < i /\ i <= lo + Writes
      <4>1. CASE i \in 1 .. n
        BY <1>5, <3>2, <4>1
      <4>2. CASE i \in n + 1 .. n + Writes
        BY <1>5, <2>2, <3>2, <4>2
      <4> QED BY <1>6, <4>1, <4>2
    <3>4. lo + Writes <= n + Writes /\ lo \in 0 .. n + Writes
      BY <1>5, <3>2
    <3> QED BY <1>5, <3>3, <3>4 DEF Block
  <2> QED BY <2>1, <2>2
<1>10. FileRows'
  BY <1>5, <1>9 DEF FileRows
<1>11. ASSUME NEW c \in Caller PROVE CallRows(c)'
  <2>1. CallRows(c) /\ Home[c] \in Process
    BY ServiceBounds DEF RowInv
  <2>2. CASE c = d
    BY <1>1, <1>3, <1>8, <2>2 DEF CallRows, Pending
  <2>3. CASE c # d
    <3>1. stage[Home[c]] = "answer" => stage'[Home[c]] = "answer"
      BY <1>1, <2>1
    <3> QED BY <1>1, <1>8, <2>1, <2>3, <3>1, Zenon DEF CallRows
  <2> QED BY <2>2, <2>3
<1>12. ASSUME NEW q \in Process PROVE TxnRows(q)'
  <2>1. CASE q = p
    BY <1>1, <1>2, <1>8, <2>1, Zenon DEF TxnRows, Migrating
  <2>2. CASE q # p
    <3>1. TxnRows(q) /\ TxnInv(q)
      BY DEF RowInv, Inv
    <3>2. at[q] \notin Migrating /\ stage[q] \notin {"write", "commit"}
      BY <1>2, <2>2, <3>1, Zenon DEF TxnInv
    <3> QED BY <1>1, <1>8, <2>2, <3>1, <3>2, Zenon DEF TxnRows
  <2> QED BY <2>1, <2>2
<1> QED BY <1>10, <1>11, <1>12 DEF RowInv

LEMMA RowsStay ==
  ASSUME RowInv, disk' = disk, txn' = txn, at' = at, UNCHANGED serviceVars
  PROVE  RowInv'
<1>1. stage' = stage /\ current' = current /\ call' = call
  BY DEF serviceVars
<1>2. \A c : Written(c)' <=> Written(c)
  BY DEF Written
<1>3. FileRows' /\ \A c \in Caller : CallRows(c)'
  BY <1>1, <1>2, Zenon DEF RowInv, FileRows, CallRows
<1>4. \A p \in Process : TxnRows(p)'
  BY <1>1, <1>2, Zenon DEF RowInv, TxnRows, Extends
<1> QED BY <1>3, <1>4 DEF RowInv

LEMMA RowsInit == Init => RowInv
<1> SUFFICES ASSUME Init PROVE RowInv
  OBVIOUS
<1>1. disk.rows = <<>>
  BY DEF Init, SchemaInit, NoFile, EmptyFile, Migrated
<1>2. \A c : ~Written(c)
  BY <1>1, Nothing DEF Written
<1>3. FileRows
  BY <1>1, <1>2, Nothing DEF FileRows
<1>4. ASSUME NEW c \in Caller PROVE CallRows(c)
  BY <1>2 DEF Init, CallRows
<1>5. ASSUME NEW p \in Process PROVE TxnRows(p)
  BY DEF Init, SchemaInit, TxnRows, Migrating
<1> QED BY <1>3, <1>4, <1>5 DEF RowInv

\* A row more of the operation: as many of its rows as the transaction is longer
\* than the file.
LEMMA RowsOfWrite ==
  ASSUME Inv, QueueInv, RowInv, NEW p \in Process, ExecuteWrite(p)
  PROVE  RowInv'
<1> DEFINE d == current[p]
           n == Len(disk.rows)
           m == Len(txn.rows)
<1>1. /\ QueueTypes /\ TxnRows(p) /\ TxnInv(p) /\ stage[p] = "write"
      /\ disk' = disk /\ at' = at /\ current' = current /\ call' = call
      /\ txn' = [txn EXCEPT !.rows = Append(@, d)]
  BY DEF QueueInv, RowInv, Inv, ExecuteWrite
<1>2. /\ at[p] = "opened" /\ writer = p /\ Whole(txn, disk.version)
      /\ Extends(txn.rows, d) /\ m <= n + Writes /\ m # n + Writes
  BY <1>1, Zenon DEF TxnInv, TxnRows
<1>3. d \in Caller /\ Home[d] = p /\ call[d] = "queued"
  BY <1>1, AtHand
<1>4. /\ disk.rows \in Seq(Caller) /\ n \in Nat /\ Writes \in Nat \ {0}
      /\ txn.rows \in Seq(Caller) /\ m \in Nat
  BY <1>2, ServiceBounds DEF RowInv, FileRows, Extends
<1>5. txn'.rows = Append(txn.rows, d)
  <2>1. txn = [version |-> txn.version, ledger |-> txn.ledger, complete |-> txn.complete,
               partial |-> txn.partial, rows |-> txn.rows]
    BY <1>2 DEF Whole, IsFile
  <2> QED BY <1>1, <2>1
<1>6. /\ txn'.rows \in Seq(Caller) /\ Len(txn'.rows) = m + 1
      /\ DOMAIN txn'.rows = 1 .. m + 1
      /\ \A i \in 1 .. m : txn'.rows[i] = txn.rows[i]
      /\ txn'.rows[m + 1] = d
  BY <1>3, <1>4, <1>5
<1>7. /\ n <= m /\ \A i \in 1 .. n : txn'.rows[i] = disk.rows[i]
      /\ \A i \in n + 1 .. m + 1 : txn'.rows[i] = d
  <2>1. /\ n <= m /\ \A i \in 1 .. n : txn.rows[i] = disk.rows[i]
        /\ \A i \in n + 1 .. m : txn.rows[i] = d
    BY <1>2, Zenon DEF Extends
  <2>2. \A i \in 1 .. n : i \in 1 .. m
    BY <1>4, <2>1
  <2>3. \A i \in n + 1 .. m + 1 : i = m + 1 \/ (i \in n + 1 .. m /\ i \in 1 .. m)
    <3> HIDE DEF n, m
    <3> QED BY <1>4, <2>1
  <2> QED BY <1>6, <2>1, <2>2, <2>3, Zenon
<1>8. /\ stage'[p] = IF m + 1 = n + Writes THEN "commit" ELSE "write"
      /\ \A q \in Process \ {p} : stage'[q] = stage[q]
  <2>1. stage' = [stage EXCEPT ![p] = IF m + 1 = n + Writes THEN "commit" ELSE "write"]
    BY <1>6, Zenon DEF ExecuteWrite, Stage
  <2> QED BY <1>1, <2>1, Zenon DEF QueueTypes
<1>9. TxnRows(p)'
  <2>1. n <= m + 1 /\ m + 1 <= n + Writes
    <3>1. n <= m /\ m <= n + Writes /\ m # n + Writes
      BY <1>2, <1>7, Zenon
    <3> HIDE DEF n, m
    <3> QED BY <1>4, <3>1
  <2>2. Extends(txn.rows, current[p])'
    BY <1>1, <1>6, <1>7, <2>1 DEF Extends
  <2> QED BY <1>1, <1>2, <1>6, <1>8, <2>1, <2>2 DEF TxnRows, Migrating
<1>10. ASSUME NEW c \in Caller, Home[c] = p PROVE CallRows(c)'
  <2>1. CallRows(c) /\ (Written(c)' <=> Written(c))
    BY <1>1 DEF RowInv, Written
  <2> QED BY <1>1, <1>10, <2>1 DEF CallRows
<1> QED BY <1>1, <1>2, <1>8, <1>9, <1>10, RowCompose

LEMMA RowsNext == Inv /\ QueueInv /\ RowInv /\ [Next]_vars => RowInv'
<1> SUFFICES ASSUME Inv, QueueInv, RowInv, [Next]_vars PROVE RowInv'
  OBVIOUS
<1>1. CASE UNCHANGED vars
  BY <1>1, RowsStay DEF vars, schemaVars
<1>2. CASE Link /\ UNCHANGED serviceVars
  BY <1>2, RowsStay DEF Link
<1>3. ASSUME NEW p \in Process, ProcessStep(p) PROVE RowInv'
  <2>1. CASE (OpenStep(p) \/ Retry(p)) /\ UNCHANGED serviceVars
    BY <2>1, RowsOfOpens
  <2>2. CASE Die(p)
    BY <2>2, RowsOfDeath
  <2>3. CASE \/ Managed(p) \/ Aclose(p) \/ CancelServe(p) \/ EndOfStream(p)
             \/ RunOperation(p) \/ CloseConnection(p)
    BY <2>3, RowsOfTurns
  <2>4. CASE Receive(p) \/ RejectBuffered(p) \/ RefuseReceived(p) \/ OperationBusy(p)
    BY <2>4, RowsOfServing
  <2>5. CASE AnswerOperation(p) \/ OperationFails(p)
    BY <2>5, RowsOfAnswers
  <2>6. CASE ExecuteWrite(p)
    BY <2>6, RowsOfWrite
  <2>7. CASE CommitOperation(p)
    BY <2>7, RowsOfCommit
  <2> QED BY <1>3, <2>1, <2>2, <2>3, <2>4, <2>5, <2>6, <2>7 DEF ProcessStep, ServeStep
<1>4. ASSUME NEW c \in Caller, Execute(c) PROVE RowInv'
  BY <1>4, RowsOfExecute
<1> QED BY <1>1, <1>2, <1>3, <1>4 DEF Next

LEMMA RowInvariance == Spec => []RowInv
BY InvHolds, QueueInvariance, RowsInit, RowsNext, PTL DEF Spec

\* What a caller of execute is told is what the journal holds, whatever statement,
\* rollback or process fails: an operation answered "ok" is there whole and once,
\* one that was refused or failed left nothing, none is there in part or split by
\* another's rows (_run_operation, _rollback_after_failure, _serve).
THEOREM AnswersAreTrue == Spec => []AnswersMatchJournal
<1>1. RowInv => AnswersMatchJournal
  <2> SUFFICES ASSUME RowInv, NEW c \in Caller
               PROVE  /\ \/ RowsOf(c) = {}
                         \/ \E lo \in 0 .. Len(disk.rows) : RowsOf(c) = lo + 1 .. lo + Writes
                      /\ call[c] = "ok" => RowsOf(c) # {}
                      /\ call[c] \in {"new", "failed", "closed"} => RowsOf(c) = {}
    BY Zenon DEF AnswersMatchJournal
  <2>1. RowsOf(c) # {} <=> Written(c)
    BY DEF RowsOf, Written, In
  <2>2. ASSUME Written(c)
        PROVE  \E lo \in 0 .. Len(disk.rows) : RowsOf(c) = lo + 1 .. lo + Writes
    <3> DEFINE n == Len(disk.rows)
    <3>1. PICK lo \in 0 .. n : Block(c, disk.rows, lo)
      BY <2>2 DEF RowInv, FileRows
    <3>2. n \in Nat /\ DOMAIN disk.rows = 1 .. n /\ Writes \in Nat \ {0}
      BY ServiceBounds DEF RowInv, FileRows
    <3>3. lo + Writes <= n /\ \A i \in 1 .. n : disk.rows[i] = c <=> lo < i /\ i <= lo + Writes
      BY <3>1, <3>2, Zenon DEF Block
    <3> HIDE DEF n
    <3>4. /\ \A i \in 1 .. n : lo < i /\ i <= lo + Writes <=> i \in lo + 1 .. lo + Writes
          /\ \A i \in lo + 1 .. lo + Writes : i \in 1 .. n
      BY <3>2, <3>3
    <3>5. RowsOf(c) = lo + 1 .. lo + Writes
      BY <3>2, <3>3, <3>4 DEF RowsOf
    <3> QED BY <3>5, Zenon DEF n
  <2>3. CallRows(c)
    BY Zenon DEF RowInv
  <2> QED BY <2>1, <2>2, <2>3, Zenon DEF CallRows
<1> QED BY <1>1, RowInvariance, PTL
=============================================================================
