------------------------------ MODULE Reports ------------------------------
(***************************************************************************)
(* Report files, their registry and their inspection: regeneration         *)
(* (runtime/reporting.py), the atomic file writer (reporting/writer.py),   *)
(* the artifact registry of the journal (journal/artifacts.py) and the     *)
(* read-only inspection of a run directory (runtime/inspection.py).        *)
(*                                                                         *)
(* No lock orders the processes: a command that ends its run, an offline   *)
(* `report` and an `inspect` share the directory, and the journal gains    *)
(* records while they are at work.  Rendering is deterministic, so the     *)
(* bytes of a file are what it shows of the records; a file is [content,   *)
(* by], its bytes and its inode.                                           *)
(***************************************************************************)
EXTENDS Integers, Sequences, FiniteSets

CONSTANTS
  Writers,          \* processes that regenerate the reports
  ReportPaths,      \* the files of a report set, in writing order (seven in the code)
  SanitizedPaths    \* the ones inspection shows (five in the code)

ASSUME ReportPathsAssumption == \A p \in SanitizedPaths : \E i \in DOMAIN ReportPaths : ReportPaths[i] = p

VARIABLES
  recorded,     \* the records in the journal: evaluations and the state of the run
  files,        \* the file at every path
  temps,        \* temporary files in the directory
  registry,     \* the artifacts table: the digest of every path
  registrar,    \* the writer inside the registry transaction, or "none"
  writer,       \* what every writer is doing
  inspector     \* what the inspecting process is doing

reportVars == <<recorded, files, temps, registry, registrar, writer, inspector>>

Paths == {ReportPaths[i] : i \in DOMAIN ReportPaths}
Summary == "result-summary.json"

\* The summary alone shows the verdict of a run that has ended, and whether it names
\* the JUnit and HTML files, which the runner's own summary does not.
Content(path, records, complete) ==
  [rows |-> records.rows,
   ended |-> path = Summary /\ records.run = "ended",
   complete |-> complete \/ path # Summary]
NoContent == [rows |-> 0, ended |-> FALSE, complete |-> FALSE]
\* One verdict or time may be as long as another.
Size(content) == <<content.rows, content.complete>>

NoFile == [content |-> NoContent, by |-> "none"]
NoFiles == [p \in Paths |-> NoFile]
Contents(set) == [p \in Paths |-> set[p].content]
NoRegistry == Contents(NoFiles)

Running == [rows |-> 1, run |-> "running"]

IdleWriter ==
  [pc |-> "idle", again |-> FALSE, records |-> Running, next |-> 1, before |-> NoFile,
   prepared |-> NoFiles]
IdleInspector ==
  [pc |-> "idle", records |-> Running, registry |-> NoRegistry, shown |-> NoRegistry,
   final |-> Running]

ReportsInit ==
  /\ recorded = Running
  /\ files = NoFiles
  /\ temps = {}
  /\ registry = NoRegistry
  /\ registrar = "none"
  /\ writer = [w \in Writers |-> IdleWriter]
  /\ inspector = IdleInspector

-----------------------------------------------------------------------------
(* Regeneration. *)

Target(w) == ReportPaths[writer[w].next]
Become(w, pc) == writer' = [writer EXCEPT ![w].pc = pc]
Finish(w, pc) == writer' = [writer EXCEPT ![w] = [IdleWriter EXCEPT !.pc = pc]]

\* The journal gains the evaluations of the assertions.
RecordEvaluations ==
  /\ recorded' = [recorded EXCEPT !.rows = @ + 1]
  /\ UNCHANGED <<files, temps, registry, registrar, writer, inspector>>

\* The run ends, or is paused when it is ambiguous; a run that was not resumed then
\* has the runner's own JSON files installed by w.
FinalizeOrPause(verdict, w, resumed) ==
  /\ recorded' = [recorded EXCEPT !.run = IF verdict = "ambiguous" THEN "paused" ELSE "ended"]
  /\ writer' = IF resumed THEN writer ELSE [writer EXCEPT ![w].pc = "install"]
  /\ UNCHANGED <<files, temps, registry, registrar, inspector>>

\* The runner replaces whatever is there, and registers nothing.  Its summary shows
\* the verdict even of a run that is only paused.
InstallJsonReports(w) ==
  LET last == writer[w].next = Len(ReportPaths)
  IN
  /\ writer[w].pc = "install"
  /\ files' = IF Target(w) \notin SanitizedPaths THEN files
              ELSE [files EXCEPT ![Target(w)] =
                     [content |-> Content(Target(w), [recorded EXCEPT !.run = "ended"], FALSE),
                      by |-> "runner"]]
  /\ writer' = [writer EXCEPT ![w].pc = IF last THEN "installed" ELSE "install",
                              ![w].next = IF last THEN 1 ELSE @ + 1]
  /\ UNCHANGED <<recorded, temps, registry, registrar, inspector>>

\* One read transaction gives all records; every file is rendered from them.
LoadReportSnapshot(w) ==
  /\ writer[w].pc \in {"idle", "installed"}
  /\ writer' = [writer EXCEPT ![w].pc = "stage", ![w].records = recorded]
  /\ UNCHANGED <<recorded, files, temps, registry, registrar, inspector>>

\* A process regenerates a second time, over its own files.
RegenerateAgain(w) ==
  /\ writer[w].pc = "done"
  /\ writer' = [writer EXCEPT ![w] = [IdleWriter EXCEPT !.again = TRUE]]
  /\ UNCHANGED <<recorded, files, temps, registry, registrar, inspector>>

Rendered(w) == Content(Target(w), writer[w].records, TRUE)
Installed(w) == [content |-> Rendered(w), by |-> IF writer[w].again THEN "again" ELSE w]

\* The identity of the target is taken, and the content written and synced under
\* a temporary name.
StageFile(w) ==
  /\ writer[w].pc = "stage"
  /\ temps' = temps \cup {<<w, Target(w)>>}
  /\ writer' = [writer EXCEPT ![w].pc = "check", ![w].before = files[Target(w)]]
  /\ UNCHANGED <<recorded, files, registry, registrar, inspector>>

\* A changed target ends the writer, and with it its temporary file.
CheckTarget(w) ==
  /\ writer[w].pc = "check"
  /\ IF files[Target(w)] = writer[w].before
       THEN Become(w, "replace") /\ UNCHANGED temps
       ELSE Finish(w, "refused") /\ temps' = temps \ {<<w, Target(w)>>}
  /\ UNCHANGED <<recorded, files, registry, registrar, inspector>>

\* The rename, over whatever came to the target behind the check.
ReplaceTarget(w) ==
  /\ writer[w].pc = "replace"
  /\ files' = [files EXCEPT ![Target(w)] = Installed(w)]
  /\ temps' = temps \ {<<w, Target(w)>>}
  /\ Become(w, "installed-file")
  /\ UNCHANGED <<recorded, registry, registrar, inspector>>

\* The installed file is looked at once more, for its length only; the last one is
\* followed by the registration of all files.
VerifyInstalledFile(w) ==
  LET last == writer[w].next = Len(ReportPaths)
  IN
  /\ writer[w].pc = "installed-file"
  /\ IF Size(files[Target(w)].content) = Size(Rendered(w))
       THEN writer' = [writer EXCEPT ![w].pc = IF last THEN "prepare" ELSE "stage",
                                     ![w].next = IF last THEN 1 ELSE @ + 1]
       ELSE Finish(w, "refused")
  /\ UNCHANGED <<recorded, files, temps, registry, registrar, inspector>>

\* The registry takes the files as they are on disk, whoever wrote them.
PrepareArtifacts(w) ==
  /\ writer[w].pc = "prepare"
  /\ writer' = [writer EXCEPT ![w].pc = "register", ![w].prepared = files]
  /\ UNCHANGED <<recorded, files, temps, registry, registrar, inspector>>

\* Mutant of VerifyPrepared: the retained snapshots are not compared again.
VerifyNothing(w) ==
  /\ writer[w].pc = "register"
  /\ registrar = "none"
  /\ Become(w, "commit") /\ registrar' = w
  /\ UNCHANGED <<recorded, files, temps, registry, inspector>>

\* Inside the transaction, which excludes every other registration, each prepared
\* file must still be the one at its path.
VerifyPrepared(w) ==
  /\ writer[w].pc = "register"
  /\ registrar = "none"
  /\ IF files = writer[w].prepared
       THEN Become(w, "commit") /\ registrar' = w
       ELSE Finish(w, "refused") /\ UNCHANGED registrar
  /\ UNCHANGED <<recorded, files, temps, registry, inspector>>

\* The rows of the run are replaced: path, length and digest of every file.
ReplaceArtifactRegistry(w) ==
  /\ writer[w].pc = "commit"
  /\ registry' = Contents(writer[w].prepared)
  /\ registrar' = "none"
  /\ Become(w, "confirm")
  /\ UNCHANGED <<recorded, files, temps, inspector>>

\* The prepared files are verified once more behind the commit.
ConfirmRegistry(w) ==
  /\ writer[w].pc = "confirm"
  /\ Finish(w, IF files = writer[w].prepared THEN "done" ELSE "refused")
  /\ UNCHANGED <<recorded, files, temps, registry, registrar, inspector>>

\* A write fails: the temporary file is unlinked and the set stays as it is.
ReportWriteFails(w) ==
  /\ writer[w].pc = "check"
  /\ Finish(w, "broken")
  /\ temps' = temps \ {<<w, Target(w)>>}
  /\ UNCHANGED <<recorded, files, registry, registrar, inspector>>

\* The process dies; its temporary file stays, its transaction is rolled back.
WriterDies(w) ==
  /\ writer[w].pc \notin {"idle", "done", "refused", "broken"}
  /\ Finish(w, "broken")
  /\ registrar' = IF registrar = w THEN "none" ELSE registrar
  /\ UNCHANGED <<recorded, files, temps, registry, inspector>>

WriterSettled(w) == writer[w].pc \in {"idle", "done", "refused", "broken"}

-----------------------------------------------------------------------------
(* Inspection. *)

\* The identity of the database is noted, and a copy of it is read.
SnapshotJournal ==
  /\ inspector.pc = "idle"
  /\ inspector' =
       IF \E p \in SanitizedPaths : registry[p] = NoContent
         THEN [IdleInspector EXCEPT !.pc = "refused"]
         ELSE [IdleInspector EXCEPT !.pc = "reading", !.records = recorded, !.registry = registry]
  /\ UNCHANGED <<recorded, files, temps, registry, registrar, writer>>

\* A file whose length or digest is not the registered one ends the inspection.
ReadRegisteredFile(p) ==
  /\ inspector.pc = "reading"
  /\ p \in SanitizedPaths
  /\ inspector.shown[p] = NoContent
  /\ IF files[p].content = inspector.registry[p]
       THEN inspector' = [inspector EXCEPT !.shown[p] = files[p].content]
       ELSE inspector' = [IdleInspector EXCEPT !.pc = "refused"]
  /\ UNCHANGED <<recorded, files, temps, registry, registrar, writer>>

\* Every commit changes the file, whose journal mode keeps no separate log.  (One that
\* writes the same rows again does too; the model lets that one pass.)
JournalUnchanged == recorded = inspector.records /\ registry = inspector.registry

\* Counts, record identities and evidence links of the reports against those of the
\* journal; the verdict is not compared.
ReportsCohere == \A p \in SanitizedPaths : inspector.shown[p].rows = inspector.records.rows

ValidateReportCoherence ==
  /\ inspector.pc = "reading"
  /\ \A p \in SanitizedPaths : inspector.shown[p] # NoContent
  /\ inspector' =
       IF JournalUnchanged /\ ReportsCohere
         THEN [IdleInspector EXCEPT !.pc = "accepted", !.shown = inspector.shown, !.final = recorded]
         ELSE [IdleInspector EXCEPT !.pc = "refused"]
  /\ UNCHANGED <<recorded, files, temps, registry, registrar, writer>>

-----------------------------------------------------------------------------
(* Properties. *)

\* Once every writer has ended and none was cut short, the digest the registry has
\* for a path is that of the file there, however their replacements, their
\* registrations and the records they render were interleaved: the last writer to
\* touch a file registers all of them, and _PreparedArtifact.verify refuses a
\* registration that another writer overtook.  (The files need not be of one version
\* of the records, nor of the last one: nothing orders the writers.)
RegistryMatchesFiles ==
  (\A w \in Writers : WriterSettled(w) /\ writer[w].pc # "broken") => registry = Contents(files)

\* An inspection that is accepted shows the records that are in the journal at that
\* moment, whatever was recorded or regenerated while it was reading.
InspectionIsCoherent ==
  inspector.pc = "accepted" =>
    \A p \in SanitizedPaths : inspector.shown[p].rows = inspector.final.rows

\* Only a writer that died leaves a temporary file.
TemporariesAreOwned == \A t \in temps : writer[t[1]].pc \in {"check", "replace", "broken"}
=============================================================================
