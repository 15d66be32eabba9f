------------------------------ MODULE AuditArchive ------------------------------
(***************************************************************************)
(* The periodic work on the audit log, while the worker thread writes rows.*)
(* AuditLogger.rotate_if_needed copies the oldest rows into an encrypted   *)
(* archive and moves the mark behind them, by two statements of their own; *)
(* rows are never deleted.  Then AuditExportScheduler.run_if_due writes an *)
(* export, records it in the settings and deletes exports that are too old.*)
(*                                                                         *)
(* A row is the day its timestamp says; the clock may be set back.         *)
(***************************************************************************)
EXTENDS Integers, Sequences, FiniteSetsExt

CONSTANTS
  MaxRows,     \* bound: rows of the log
  Stamps,      \* what the clock may show
  MaxEntries,  \* config.max_entries
  MaxAge,      \* config.max_age_days
  NoRotation,  \* no rotation under way
  Period,      \* days between two scheduled exports
  Retention,   \* export_retention_days
  Never        \* no export recorded, none under way

ASSUME ArchiveAssumption ==
  /\ Stamps \subseteq Int /\ MaxEntries \in Nat /\ MaxAge \in Nat /\ Retention \in Nat
  /\ NoRotation \notin [step : {"insert", "mark"}, from : Nat, upto : Nat]

VARIABLES
  log,        \* the rows, by sequence number
  wall,       \* the clock
  archives,   \* the rows of audit_archives: [start, end, rows]
  mark,       \* last_archived_sequence
  rotation,   \* rotate_if_needed: [step, from, upto, start, end], or NoRotation
  killed,     \* history: a rotation was cut off between the two statements
  exports,    \* the files audit-*.enc: [named, written]
  lastExport, \* the setting audit_last_scheduled_export, or Never
  exporting,  \* run_if_due under way: [step, now], or Never
  setBack     \* history: the clock was set back during an export

rotationVars == <<archives, mark, rotation, killed>>
exportVars == <<exports, lastExport, exporting, setBack>>
archiveVars == <<log, wall, rotationVars, exportVars>>

ArchiveInit ==
  /\ log = << >> /\ wall \in Stamps
  /\ archives = {} /\ mark = 0
  /\ rotation = NoRotation /\ killed = FALSE
  /\ exports = {} /\ lastExport = Never /\ exporting = Never /\ setBack = FALSE

AppendRow ==
  /\ Len(log) < MaxRows
  /\ log' = Append(log, wall)
  /\ UNCHANGED <<wall, rotationVars, exportVars>>

SetClock ==
  /\ wall' \in Stamps \ {wall}
  /\ setBack' = (setBack \/ (wall' < wall /\ exporting # Never))
  /\ UNCHANGED <<log, rotationVars, exports, lastExport, exporting>>

--------------------------------------------------------------------------------

\* By number: what is more than max_entries; by age: the last row that is too old.
EntryCutoff == IF Len(log) > MaxEntries THEN Len(log) - MaxEntries ELSE 0
AgeSequence == Max({0} \cup {n \in DOMAIN log : log[n] + MaxAge < wall})
EndSequence == Max({EntryCutoff, AgeSequence})

\* The mark, the number of rows and the age are read.
RotateReads ==
  /\ rotation = NoRotation /\ exporting = Never
  /\ EndSequence > mark
  /\ rotation' = [step |-> "insert", from |-> mark, upto |-> EndSequence]
  /\ UNCHANGED <<log, wall, archives, mark, killed, exportVars>>

\* A slip: the row at the mark is taken again.
SelectedFromMark == {n \in DOMAIN log : rotation.from <= n /\ n <= rotation.upto}

Selected == {n \in DOMAIN log : rotation.from < n /\ n <= rotation.upto}
Archive == [start |-> Min(Selected), end |-> Max(Selected), rows |-> Selected]

Archiving(step) == rotation # NoRotation /\ rotation.step = step

\* INSERT OR IGNORE: a second archive with the same bounds is passed over.
InsertArchive ==
  /\ Archiving("insert")
  /\ archives' = IF \E a \in archives : a.start = Archive.start /\ a.end = Archive.end
                 THEN archives ELSE archives \cup {Archive}
  /\ rotation' = [rotation EXCEPT !.step = "mark"]
  /\ UNCHANGED <<log, wall, mark, killed, exportVars>>

MoveMark ==
  /\ Archiving("mark")
  /\ mark' = Archive.end
  /\ rotation' = NoRotation
  /\ UNCHANGED <<log, wall, archives, killed, exportVars>>

\* A statement raises, or the program is killed; the next check begins anew.
RotateFails ==
  /\ rotation # NoRotation
  /\ killed' = (killed \/ Archiving("mark"))
  /\ rotation' = NoRotation
  /\ UNCHANGED <<log, wall, archives, mark, exportVars>>

--------------------------------------------------------------------------------
\* run_if_due, on the same thread after the rotation

ExportDue ==
  /\ rotation = NoRotation /\ exporting = Never
  /\ lastExport # Never => wall - lastExport >= Period
  /\ exporting' = [step |-> "write", now |-> wall]
  /\ UNCHANGED <<log, wall, rotationVars, exports, lastExport, setBack>>

Exporting(step) == exporting # Never /\ exporting.step = step

\* The file has the name of the moment the export began; the export is an event of the log.
WithExport == {f \in exports : f.named # exporting.now} \cup {[named |-> exporting.now, written |-> wall]}
WriteExport ==
  /\ Exporting("write") /\ Len(log) < MaxRows
  /\ exports' = WithExport
  /\ log' = Append(log, wall)
  /\ exporting' = [exporting EXCEPT !.step = "record"]
  /\ UNCHANGED <<wall, rotationVars, lastExport, setBack>>

RecordExport ==
  /\ Exporting("record")
  /\ lastExport' = exporting.now
  /\ exporting' = [exporting EXCEPT !.step = "delete"]
  /\ UNCHANGED <<log, wall, rotationVars, exports, setBack>>

Expired == {f \in exports : f.written < exporting.now - Retention}

DeleteExpired ==
  /\ Exporting("delete")
  /\ exports' = exports \ Expired
  /\ exporting' = Never
  /\ UNCHANGED <<log, wall, rotationVars, lastExport, setBack>>

\* The file, its event, the setting or a deletion fails, or the program is killed.
ExportFails ==
  /\ exporting # Never
  /\ exporting' = Never
  /\ \/ UNCHANGED exports
     \/ Exporting("write") /\ exports' = WithExport
     \/ Exporting("delete") /\ \E d \in SUBSET Expired : exports' = exports \ d
  /\ UNCHANGED <<log, wall, rotationVars, lastExport, setBack>>

ArchiveNext ==
  \/ AppendRow \/ SetClock \/ RotateReads \/ InsertArchive \/ MoveMark \/ RotateFails
  \/ ExportDue \/ WriteExport \/ RecordExport \/ DeleteExpired \/ ExportFails

ArchiveSpec == ArchiveInit /\ [][ArchiveNext]_archiveVars

--------------------------------------------------------------------------------

\* Every row up to the mark is in an archive with the bounds the archive names, wherever a
\* rotation is cut off; two archives share a row only if one was cut off between its two
\* statements; and the export the settings name is on the disk, unless the clock was set back
\* while one was made.
ArchiveCovers ==
  /\ \A n \in 1..mark : \E a \in archives : n \in a.rows
  /\ \A a \in archives : a.rows = a.start..a.end /\ a.rows \subseteq DOMAIN log
  /\ killed \/ \A a, b \in archives : a # b => a.rows \cap b.rows = {}
  /\ lastExport # Never /\ ~setBack => lastExport \in {f.named : f \in exports}
================================================================================
