-------------------------------- MODULE Importer --------------------------------
(***************************************************************************)
(* VaultImporter: a file is read, checked and compared with the vault, then*)
(* applied entry by entry, either in one transaction or, in partial mode,  *)
(* each entry in one of its own, followed by a checkpoint from which a     *)
(* later attempt resumes.                                                  *)
(*                                                                         *)
(* Every statement may fail, a handler of an event may raise after an entry*)
(* was written, the deadline or panic mode may interrupt the import between*)
(* entries, and the program may be killed.                                 *)
(***************************************************************************)
EXTENDS Naturals, Sequences, FiniteSets

CONSTANTS
  Identities,  \* normalized title, user name and URL: what makes two entries the same
  Contents,    \* the rest of an entry
  Files,       \* the files there are: [format, secret, entries]
  Secrets,     \* passwords and private keys the user may give
  EntryIds,    \* bound: 1..n, the entries the vault has room for
  MaxTries,    \* bound: attempts under one checkpoint
  Nothing

VARIABLES
  vault,       \* the entries by id: [who, what], or Nothing
  unsaved,     \* the same as the open transaction sees it, or Nothing
  checkpoint,  \* the row of import_checkpoints: [source, next], or Nothing
  phase,       \* where import_data is
  job,         \* its arguments and locals
  applied,     \* history: how often each entry of the file was applied under this checkpoint
  torn,        \* history: how often the record of that was lost
  tries        \* history: attempts under this checkpoint; 0 when the last one is done with

importVars == <<vault, unsaved, checkpoint, phase, job, applied, torn, tries>>

Conflicts == {"update", "skip", "duplicate"}
Entries == [who : Identities, what : Contents]
Ids(v) == {e \in EntryIds : v[e] # Nothing}
Have(v) == {v[e].who : e \in Ids(v)}
NoCounts == [created |-> 0, updated |-> 0, skipped |-> 0]
NoneKnown == [w \in Identities |-> Nothing]
NoJob == [source |-> <<>>, mode |-> "merge", conflict |-> "skip", partial |-> FALSE, start |-> 0,
          at |-> 0, counts |-> NoCounts, outcome |-> "created", plan |-> NoCounts, known |-> NoneKnown]
Zeros(source) == [n \in DOMAIN source |-> 0]

ImportTypeOK ==
  /\ vault \in [EntryIds -> Entries \cup {Nothing}]
  /\ unsaved = Nothing \/ unsaved \in [EntryIds -> Entries \cup {Nothing}]
  /\ checkpoint = Nothing \/ checkpoint.next \in 0..Len(checkpoint.source)
  /\ phase \in {"idle", "apply", "announce", "checkpoint", "clear", "record", "failed"}
  /\ job.at \in 0..Len(job.source) /\ tries \in 0..MaxTries

ImportInit ==
  /\ vault \in [EntryIds -> Entries \cup {Nothing}]
  /\ Ids(vault) \in {{}, {1}, {1, 2}}
  /\ unsaved = Nothing /\ checkpoint = Nothing
  /\ phase = "idle" /\ job = NoJob
  /\ applied = <<>> /\ torn = <<>> /\ tries = 0

--------------------------------------------------------------------------------
\* preview: what a file says.

\* _read_source and _scan_file_signature: a size limit, and no executable file.
Admitted(file) == file.format \notin {"too_big", "executable"}

\* detect_format, unless the user selects the format.
Detected(file) == file.format # "unknown"

\* _parse_sandboxed: a process of its own parses the content, and is ended after a while.
Parsed(file) == file.format # "endless"

\* _decode_envelope: an encrypted file needs its password or private key.
DecodeEnvelope(file, secret) == file.format = "encrypted_json" => secret = file.secret

\* _sanitize_entries: one entry without a title or password rejects the whole file.
Errors(file) == {n \in DOMAIN file.entries : file.entries[n].what \notin Contents}

Accepted(file, secret) ==
  Admitted(file) /\ Detected(file) /\ DecodeEnvelope(file, secret) /\ Parsed(file) /\ Errors(file) = {}

\* What is left of a file that is accepted is a list of entries; "nothing" is none of the
\* values it stands beside.
ASSUME ImportAssumption ==
  /\ \A file \in Files : Errors(file) = {} => file.entries \in Seq(Entries)
  /\ IsFiniteSet(EntryIds)
  /\ Nothing \notin EntryIds /\ Nothing \notin Entries
  /\ Nothing \notin [source : Seq(Entries), next : Nat]

Readable == {file \in Files : \E secret \in Secrets : Accepted(file, secret)}

\* A slip: what an earlier entry of the file brings is not considered.
PlanVaultOnly(source, v, conflict) ==
  LET new == {n \in DOMAIN source : conflict = "duplicate" \/ source[n].who \notin Have(v)}
      old == Cardinality(DOMAIN source \ new)
  IN [created |-> Cardinality(new),
      updated |-> IF conflict = "update" THEN old ELSE 0,
      skipped |-> IF conflict = "skip" THEN old ELSE 0]

\* _plan_counts: what the import would do, entry by entry.
PlanCounts(source, v, conflict) ==
  LET new == {n \in DOMAIN source :
                \/ conflict = "duplicate"
                \/ source[n].who \notin Have(v) \cup {source[k].who : k \in 1..n - 1}}
      old == Cardinality(DOMAIN source \ new)
  IN [created |-> Cardinality(new),
      updated |-> IF conflict = "update" THEN old ELSE 0,
      skipped |-> IF conflict = "skip" THEN old ELSE 0]

--------------------------------------------------------------------------------
\* import_data

\* One entry for each identity, whichever of them the listing of the vault has last.
KnownIn(v) == {known \in [Identities -> EntryIds \cup {Nothing}] :
                 \A w \in Identities :
                   LET same == {e \in Ids(v) : v[e].who = w}
                   IN IF same = {} THEN known[w] = Nothing ELSE known[w] \in same}

\* _checkpoint_index: a caller who resumes gives the name of the checkpoint, which must be
\* of the same file.
CheckpointIndex == IF checkpoint = Nothing THEN 0 ELSE checkpoint.next
CheckpointFits(source) == checkpoint # Nothing => checkpoint.source = source

Start(file, mode, conflict, partial) ==
  /\ phase = "idle"
  /\ mode = "replace" => ~partial
  /\ tries > 0 => partial /\ tries < MaxTries
  /\ Cardinality(EntryIds \ Ids(vault)) >= Len(file.entries)
  /\ LET source == file.entries
         same == tries > 0 /\ source = job.source
     IN /\ CheckpointFits(source)
        /\ tries' = IF partial THEN (IF same THEN tries ELSE 0) + 1 ELSE 0
        /\ applied' = IF same THEN applied ELSE Zeros(source)
        /\ torn' = IF same THEN torn ELSE Zeros(source)
        /\ \E known \in KnownIn(vault) :
             job' = [source |-> source, mode |-> mode, conflict |-> conflict, partial |-> partial,
                     start |-> CheckpointIndex, at |-> CheckpointIndex,
                     counts |-> NoCounts, outcome |-> "created",
                     plan |-> PlanCounts(source, vault, conflict),
                     known |-> IF mode = "replace" THEN NoneKnown ELSE known]
  /\ phase' = "apply"
  /\ unsaved' = IF partial THEN Nothing
                ELSE IF mode = "replace" THEN [e \in EntryIds |-> Nothing] ELSE vault
  /\ UNCHANGED <<vault, checkpoint>>

\* create_entry gives a new entry an id nobody has.
FreeId(v) == CHOOSE e \in EntryIds : e \notin Ids(v)

\* A slip: an entry that was just created is not known.
ApplyForgets(v, entry) ==
  LET seen == job.known[entry.who]
      outcome == IF seen = Nothing \/ job.conflict = "duplicate" THEN "created"
                 ELSE IF job.conflict = "skip" THEN "skipped" ELSE "updated"
  IN [outcome |-> outcome, known |-> job.known,
      vault |-> IF outcome = "skipped" THEN v
                ELSE [v EXCEPT ![IF outcome = "created" THEN FreeId(v) ELSE seen] = entry]]

\* _apply_one: what it answers, and the vault v and the known entries after it.
ApplyOne(v, entry) ==
  LET seen == job.known[entry.who]
      outcome == IF seen = Nothing \/ job.conflict = "duplicate" THEN "created"
                 ELSE IF job.conflict = "skip" THEN "skipped" ELSE "updated"
  IN [outcome |-> outcome,
      vault |-> IF outcome = "skipped" THEN v
                ELSE [v EXCEPT ![IF outcome = "created" THEN FreeId(v) ELSE seen] = entry],
      known |-> IF outcome = "created" /\ job.conflict # "duplicate"
                THEN [job.known EXCEPT ![entry.who] = FreeId(v)] ELSE job.known]

Counted(j) == [j EXCEPT !.at = @ + 1, !.counts[j.outcome] = @ + 1]

\* The entry is written, in partial mode for good.
Apply ==
  /\ phase = "apply" /\ job.at < Len(job.source)
  /\ LET done == ApplyOne(IF job.partial THEN vault ELSE unsaved, job.source[job.at + 1])
         after == [job EXCEPT !.known = done.known, !.outcome = done.outcome]
     IN IF job.partial
        THEN /\ vault' = done.vault /\ job' = after /\ phase' = "announce"
             /\ UNCHANGED unsaved
        ELSE /\ unsaved' = done.vault
             /\ job' = Counted(after)
             /\ UNCHANGED <<vault, phase>>
  /\ applied' = [applied EXCEPT ![job.at + 1] = @ + 1]
  /\ UNCHANGED <<checkpoint, torn, tries>>

\* A handler of the entry's event may raise: the entry is there, but not counted.
Announce ==
  /\ phase = "announce"
  /\ \/ phase' = "checkpoint" /\ job' = Counted(job) /\ UNCHANGED torn
     \/ /\ job.outcome # "skipped"
        /\ phase' = "failed" /\ torn' = [torn EXCEPT ![job.at + 1] = @ + 1]
        /\ UNCHANGED job
  /\ UNCHANGED <<vault, unsaved, checkpoint, applied, tries>>

\* A slip: the entry that failed counts as done.
ProgressPastFailure == job.start + 1 + job.counts.created + job.counts.updated + job.counts.skipped
Progress == job.start + job.counts.created + job.counts.updated + job.counts.skipped

SaveCheckpoint(next) == checkpoint' = [source |-> job.source, next |-> next]

Checkpoint ==
  /\ phase = "checkpoint"
  /\ SaveCheckpoint(job.at) /\ phase' = "apply"
  /\ UNCHANGED <<vault, unsaved, job, applied, torn, tries>>

\* All entries are applied: the transaction commits.
Commit ==
  /\ phase = "apply" /\ job.at = Len(job.source)
  /\ vault' = IF job.partial THEN vault ELSE unsaved
  /\ unsaved' = Nothing
  /\ phase' = "clear"
  /\ UNCHANGED <<checkpoint, job, applied, torn, tries>>

ClearCheckpoint ==
  /\ phase = "clear"
  /\ checkpoint' = Nothing /\ phase' = "record"
  /\ UNCHANGED <<vault, unsaved, job, applied, torn, tries>>

\* What is left of an import nobody resumes.
Forget == job' = NoJob /\ applied' = <<>> /\ torn' = <<>> /\ tries' = 0

\* add_history and the audit, outside the try; afterwards the import is done with.
Record ==
  /\ phase = "record"
  /\ phase' = "idle" /\ Forget
  /\ UNCHANGED <<vault, unsaved, checkpoint>>

\* Entries that are applied, but neither in the checkpoint nor about to be.
Unrecorded ==
  (CheckpointIndex + 1)..(IF phase = "announce" THEN job.at + 1 ELSE job.at)
Tear(entries) == torn' = [n \in DOMAIN torn |-> torn[n] + IF n \in entries THEN 1 ELSE 0]

\* A statement or the commit raises, the deadline has passed, or panic interrupts.
Fail ==
  /\ phase \in {"apply", "checkpoint", "clear"}
  /\ phase' = "failed"
  /\ unsaved' = Nothing
  /\ UNCHANGED <<vault, checkpoint, job, applied, torn, tries>>

\* The except branch: in partial mode the progress is saved, if that does not raise again.
Failed ==
  /\ phase = "failed"
  /\ phase' = "idle"
  /\ IF job.partial
     THEN /\ \/ SaveCheckpoint(Progress) /\ UNCHANGED torn
             \/ Tear(Unrecorded) /\ UNCHANGED checkpoint
          /\ UNCHANGED <<job, applied, tries>>
     ELSE Forget /\ UNCHANGED checkpoint
  /\ UNCHANGED <<vault, unsaved>>

\* The history cannot be written, or the program is killed at any point.
RecordFails ==
  /\ phase = "record"
  /\ phase' = "idle"
  /\ IF job.partial THEN Tear(DOMAIN torn) /\ UNCHANGED <<job, applied, tries>> ELSE Forget
  /\ UNCHANGED <<vault, unsaved, checkpoint>>

ImportCrash ==
  /\ phase \notin {"idle", "record"}
  /\ phase' = "idle" /\ unsaved' = Nothing
  /\ IF job.partial THEN Tear(Unrecorded) /\ UNCHANGED <<job, applied, tries>> ELSE Forget
  /\ UNCHANGED <<vault, checkpoint>>

\* The user imports something else, under another checkpoint.
GiveUp ==
  /\ phase = "idle" /\ tries > 0
  /\ Forget /\ checkpoint' = Nothing
  /\ UNCHANGED <<vault, unsaved, phase>>

\* Between imports the user deletes entries.
Delete ==
  /\ phase = "idle" /\ tries = 0 /\ Ids(vault) = EntryIds
  /\ vault' = [e \in EntryIds |-> Nothing]
  /\ UNCHANGED <<unsaved, checkpoint, phase, job, applied, torn, tries>>

ImportNext ==
  \/ \E file \in Readable, mode \in {"merge", "replace"}, conflict \in Conflicts, partial \in BOOLEAN :
       Start(file, mode, conflict, partial)
  \/ GiveUp \/ Delete
  \/ Apply \/ Announce \/ Checkpoint \/ Commit \/ ClearCheckpoint \/ Record
  \/ Fail \/ Failed \/ RecordFails \/ ImportCrash

ImportSpec == ImportInit /\ [][ImportNext]_importVars

--------------------------------------------------------------------------------

Number(v, who, what) == Cardinality({e \in Ids(v) : v[e] = [who |-> who, what |-> what]})
Single(v, who, what) == \A x \in Contents : Number(v, who, x) = IF x = what THEN 1 ELSE 0

\* What an import promises of the entries w of the vault v, without saying how.
Promised(v, new, w) ==
  LET source == job.source
      mine == {n \in DOMAIN source : source[n].who = w}
      first == source[CHOOSE n \in mine : \A k \in mine : n <= k].what
      last == source[CHOOSE n \in mine : \A k \in mine : n >= k].what
      Before(x) == IF job.mode = "replace" THEN 0 ELSE Number(v, w, x)
      none == \A x \in Contents : Before(x) = 0
  IN IF job.conflict = "duplicate"
     THEN \A x \in Contents : Number(new, w, x) = Before(x) + Cardinality({n \in mine : source[n].what = x})
     ELSE IF mine = {} \/ (~none /\ job.conflict = "skip")
     THEN \A x \in Contents : Number(new, w, x) = Before(x)
     ELSE IF none THEN Single(new, w, IF job.conflict = "skip" THEN first ELSE last)
     ELSE \E old \in Contents :
            /\ Before(old) > 0
            /\ \A x \in Contents : Number(new, w, x) + (IF x = old THEN 1 ELSE 0)
                                    = Before(x) + (IF x = last THEN 1 ELSE 0)

\* Unless it is partial, an import changes the vault once and completely: nothing of it is
\* there before, nothing is missing after, whatever fails in between.
ImportWhole ==
  [][~job.partial /\ phase # "idle" =>
       vault' = vault \/ \A w \in Identities : Promised(vault, vault', w)]_importVars

\* Under one checkpoint, however often the import fails, is killed and resumed, no entry
\* before the checkpoint is missing, and none is applied twice unless the record of it was
\* lost; when it is done none is missing.
ImportedOnce ==
  /\ \A n \in DOMAIN applied : job.partial => applied[n] <= 1 + torn[n]
  /\ checkpoint # Nothing => \A n \in 1..checkpoint.next : applied[n] >= 1
  /\ phase = "record" => \A n \in DOMAIN applied : applied[n] >= 1

\* A merge that was not resumed ends with the numbers the preview showed.
ResultAsPlanned ==
  phase = "record" /\ job.mode = "merge" /\ job.start = 0 => job.counts = job.plan
================================================================================
