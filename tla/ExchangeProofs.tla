----------------------------- MODULE ExchangeProofs -----------------------------
(***************************************************************************)
(* Theorems about what enters and leaves the vault, Importer, Exporter,    *)
(* Sharing and QRCode: for any vault, files and entries, any contacts, keys*)
(* and packages, any time a share or an envelope is valid for.             *)
(***************************************************************************)
EXTENDS Importer, Exporter, Sharing, QRCode, FiniteSetTheorems, WellFoundedInduction, TLAPS

--------------------------------------------------------------------------------
(* Importer.  Where an import stands, what it has applied under its checkpoint *)
(* and that the vault has room for the rest.                                   *)

\* The types of what an import works on.
Outcomes == {"created", "updated", "skipped"}
CountType == [created : Nat, updated : Nat, skipped : Nat]
VaultType == [EntryIds -> Entries \cup {Nothing}]
JobType ==
  [source : Seq(Entries), mode : {"merge", "replace"}, conflict : Conflicts, partial : BOOLEAN,
   start : Nat, at : Nat, counts : CountType, outcome : Outcomes, plan : CountType,
   known : [Identities -> EntryIds \cup {Nothing}]]

\* The vault as the import sees it, the entries applied and recorded so far, and room for n more.
Current == IF job.partial THEN vault ELSE unsaved
Applied ==
  IF phase = "idle" THEN CheckpointIndex ELSE IF phase = "announce" THEN job.at + 1 ELSE job.at
Room(v, n) == Cardinality(EntryIds \ Ids(v)) >= n

\* Every variable keeps its type; the open transaction matters while entries are applied.
ImportTypes ==
  /\ vault \in VaultType
  /\ phase = "apply" /\ ~job.partial => unsaved \in VaultType
  /\ job \in JobType /\ tries \in Nat
  /\ phase \in {"idle", "apply", "announce", "checkpoint", "clear", "record", "failed"}
  /\ applied \in [DOMAIN job.source -> Nat] /\ torn \in [DOMAIN job.source -> Nat]
  /\ checkpoint # Nothing => checkpoint \in [source : Seq(Entries), next : Nat]

\* Where an import stands, by its phase, its checkpoint and its counts.
Position ==
  /\ job.partial <=> tries > 0
  /\ checkpoint # Nothing =>
       tries > 0 /\ checkpoint.source = job.source /\ checkpoint.next <= Len(job.source)
  /\ phase # "idle" =>
       job.at = Progress /\ CheckpointIndex <= job.at /\ job.at <= Len(job.source)
  /\ phase \in {"announce", "checkpoint"} => job.partial
  /\ phase = "announce" => job.at < Len(job.source)
  /\ phase \in {"clear", "record"} => job.at = Len(job.source)
  /\ phase = "record" => checkpoint = Nothing

\* An entry is applied once, and once more for each time the record of it was lost.
Histories ==
  \A n \in DOMAIN job.source :
    /\ applied[n] <= torn[n] + (IF n <= Applied THEN 1 ELSE 0)
    /\ n <= Applied => applied[n] >= 1

\* Entries that are still to come find free ids.
HasRoom ==
  phase \in {"apply", "announce", "checkpoint"} => Room(Current, Len(job.source) - Applied)

ImportInv == ImportTypes /\ Position /\ Histories /\ HasRoom

\* A part of a list of n entries is finite, so it can be counted.
LEMMA PartIsFinite ==
  ASSUME NEW n \in Nat, NEW S, S \subseteq 1..n
  PROVE  IsFiniteSet(S) /\ Cardinality(S) \in Nat
  <1>1. IsFiniteSet(1..n)
    BY FS_Interval
  <1>2. IsFiniteSet(S)
    BY <1>1, FS_Subset
  <1> QED BY <1>2, FS_CardinalityType

\* The ids are finite, and so are the free ones.
LEMMA FreeIsFinite ==
  ASSUME NEW v
  PROVE  IsFiniteSet(EntryIds \ Ids(v)) /\ Cardinality(EntryIds \ Ids(v)) \in Nat
  BY ImportAssumption, FS_Subset, FS_CardinalityType

\* Whatever is planned is counted in natural numbers.
LEMMA PlanType ==
  ASSUME NEW source \in Seq(Entries), NEW v, NEW conflict
  PROVE  PlanCounts(source, v, conflict) \in CountType
  <1> DEFINE new == {n \in DOMAIN source :
                       \/ conflict = "duplicate"
                       \/ source[n].who \notin Have(v) \cup {source[k].who : k \in 1..n - 1}}
  <1>1. DOMAIN source = 1..Len(source) /\ Len(source) \in Nat
    OBVIOUS
  <1>2. Cardinality(new) \in Nat /\ Cardinality(DOMAIN source \ new) \in Nat
    BY <1>1, PartIsFinite
  <1> HIDE DEF new
  <1>3. PlanCounts(source, v, conflict) =
          [created |-> Cardinality(new),
           updated |-> IF conflict = "update" THEN Cardinality(DOMAIN source \ new) ELSE 0,
           skipped |-> IF conflict = "skip" THEN Cardinality(DOMAIN source \ new) ELSE 0]
    BY DEF PlanCounts, new
  <1> QED BY <1>2, <1>3 DEF CountType

\* One more entry counted is one more step of progress.
LEMMA OneMore ==
  ASSUME NEW s \in Nat, NEW a \in Nat, NEW b \in Nat, NEW c \in Nat,
         NEW x \in Nat, NEW y \in Nat, NEW z \in Nat, x + y + z = a + b + c + 1
  PROVE  s + x + y + z = s + a + b + c + 1
  OBVIOUS

\* How far the counts say that an import is.
Done(j) == j.start + j.counts.created + j.counts.updated + j.counts.skipped

\* An entry that is counted moves the import one place on.
LEMMA CountedFacts ==
  ASSUME NEW j \in JobType
  PROVE  /\ Counted(j) \in JobType
         /\ Counted(j).at = j.at + 1
         /\ Counted(j).source = j.source /\ Counted(j).mode = j.mode
         /\ Counted(j).conflict = j.conflict /\ Counted(j).partial = j.partial
         /\ Counted(j).start = j.start /\ Counted(j).plan = j.plan /\ Counted(j).known = j.known
         /\ Counted(j).counts \in CountType
         /\ \A o \in Outcomes : Counted(j).counts[o] = j.counts[o] + (IF o = j.outcome THEN 1 ELSE 0)
         /\ Done(Counted(j)) = Done(j) + 1
  <1>1. j.counts \in CountType /\ j.outcome \in Outcomes /\ j.at \in Nat /\ j.start \in Nat
    BY DEF JobType
  <1> DEFINE more == [j.counts EXCEPT ![j.outcome] = j.counts[j.outcome] + 1]
  <1>2. Counted(j) = [j EXCEPT !.at = j.at + 1, !.counts = more]
    BY DEF Counted, JobType
  <1>3. /\ more \in CountType
        /\ \A o \in Outcomes : more[o] = j.counts[o] + (IF o = j.outcome THEN 1 ELSE 0)
        /\ more.created + more.updated + more.skipped =
             j.counts.created + j.counts.updated + j.counts.skipped + 1
    <2>1. CASE j.outcome = "created"
      BY <1>1, <2>1 DEF CountType, Outcomes
    <2>2. CASE j.outcome = "updated"
      BY <1>1, <2>2 DEF CountType, Outcomes
    <2>3. CASE j.outcome = "skipped"
      BY <1>1, <2>3 DEF CountType, Outcomes
    <2> QED BY <1>1, <2>1, <2>2, <2>3 DEF Outcomes
  <1> HIDE DEF more
  <1>4. /\ Counted(j).at = j.at + 1 /\ Counted(j).counts = more
        /\ Counted(j).source = j.source /\ Counted(j).mode = j.mode
        /\ Counted(j).conflict = j.conflict /\ Counted(j).partial = j.partial
        /\ Counted(j).start = j.start /\ Counted(j).plan = j.plan /\ Counted(j).known = j.known
    BY <1>2 DEF JobType
  <1>5. Counted(j) \in JobType
    <2>1. ASSUME NEW c \in CountType, NEW a \in Nat
          PROVE  [j EXCEPT !.at = a, !.counts = c] \in JobType
      BY DEF JobType
    <2>2. j.at + 1 \in Nat
      BY <1>1
    <2>3. [j EXCEPT !.at = j.at + 1, !.counts = more] \in JobType
      BY <1>3, <2>1, <2>2
    <2> QED BY <1>2, <2>3
  <1>6. Done(Counted(j)) = Done(j) + 1
    <2>1. /\ j.counts.created \in Nat /\ j.counts.updated \in Nat /\ j.counts.skipped \in Nat
          /\ more.created \in Nat /\ more.updated \in Nat /\ more.skipped \in Nat
      BY <1>1, <1>3 DEF CountType
    <2>2. j.start + more.created + more.updated + more.skipped =
            j.start + j.counts.created + j.counts.updated + j.counts.skipped + 1
      BY <1>1, <1>3, <2>1, OneMore
    <2> QED BY <1>4, <2>2 DEF Done
  <1> QED BY <1>2, <1>3, <1>4, <1>5, <1>6

\* What _apply_one may answer: an entry is created under a new id and known from then on, or
\* left out, or put in the place of the entry that is known.
LEMMA ApplyOneCases ==
  ASSUME job \in JobType, NEW v \in VaultType, NEW entry \in Entries, EntryIds \ Ids(v) # {}
  PROVE  LET done == ApplyOne(v, entry)
             seen == job.known[entry.who]
         IN /\ done.outcome \in Outcomes
            /\ done.outcome = "created" <=> seen = Nothing \/ job.conflict = "duplicate"
            /\ done.outcome = "created" =>
                 \E e \in EntryIds \ Ids(v) :
                   /\ done.vault = [v EXCEPT ![e] = entry]
                   /\ done.known = IF job.conflict = "duplicate" THEN job.known
                                   ELSE [job.known EXCEPT ![entry.who] = e]
            /\ done.outcome = "skipped" =>
                 job.conflict = "skip" /\ done.vault = v /\ done.known = job.known
            /\ done.outcome = "updated" =>
                 /\ job.conflict = "update" /\ seen \in EntryIds
                 /\ done.vault = [v EXCEPT ![seen] = entry] /\ done.known = job.known
  <1> DEFINE seen == job.known[entry.who]
  <1> DEFINE outcome == IF seen = Nothing \/ job.conflict = "duplicate" THEN "created"
                        ELSE IF job.conflict = "skip" THEN "skipped" ELSE "updated"
  <1>1. FreeId(v) \in EntryIds \ Ids(v)
    BY DEF FreeId
  <1>2. /\ ApplyOne(v, entry).outcome = outcome
        /\ ApplyOne(v, entry).vault = IF outcome = "skipped" THEN v
             ELSE [v EXCEPT ![IF outcome = "created" THEN FreeId(v) ELSE seen] = entry]
        /\ ApplyOne(v, entry).known = IF outcome = "created" /\ job.conflict # "duplicate"
             THEN [job.known EXCEPT ![entry.who] = FreeId(v)] ELSE job.known
    BY DEF ApplyOne
  <1>3. job.conflict \in {"update", "skip", "duplicate"} /\ seen \in EntryIds \cup {Nothing}
    BY DEF JobType, Conflicts, Entries
  <1> HIDE DEF seen
  <1>4. outcome = "created" <=> seen = Nothing \/ job.conflict = "duplicate"
    OBVIOUS
  <1>5. CASE outcome = "created"
    BY <1>1, <1>2, <1>3, <1>5 DEF Outcomes, seen
  <1>6. CASE outcome = "skipped"
    BY <1>2, <1>3, <1>6 DEF Outcomes, seen
  <1>7. CASE outcome = "updated"
    BY <1>2, <1>3, <1>7 DEF Outcomes, seen
  <1> QED BY <1>5, <1>6, <1>7

\* An entry that is written takes at most one of the free ids.
LEMMA PutFacts ==
  ASSUME NEW v \in VaultType, NEW e \in EntryIds, NEW entry \in Entries,
         NEW n \in Nat, Room(v, n + 1)
  PROVE  [v EXCEPT ![e] = entry] \in VaultType /\ Room([v EXCEPT ![e] = entry], n)
  <1> DEFINE free == EntryIds \ Ids(v)
             left == EntryIds \ Ids([v EXCEPT ![e] = entry])
  <1>1. [v EXCEPT ![e] = entry] \in VaultType
    BY DEF VaultType
  <1>2. left = free \ {e}
    BY ImportAssumption DEF VaultType, Ids
  <1>3. IsFiniteSet(free) /\ Cardinality(free) \in Nat /\ Cardinality(free) >= n + 1
    BY FreeIsFinite DEF Room
  <1> HIDE DEF free, left
  <1>4. Cardinality(free \ {e}) = IF e \in free THEN Cardinality(free) - 1 ELSE Cardinality(free)
    BY <1>3, FS_RemoveElement
  <1>5. Cardinality(left) >= n
    BY <1>2, <1>3, <1>4
  <1> QED BY <1>1, <1>5 DEF Room, left

\* So _apply_one keeps the types, and room for all entries but one.
LEMMA ApplyOneFacts ==
  ASSUME job \in JobType, NEW v \in VaultType, NEW entry \in Entries,
         NEW n \in Nat, Room(v, n + 1)
  PROVE  LET done == ApplyOne(v, entry)
         IN /\ EntryIds \ Ids(v) # {}
            /\ done.outcome \in Outcomes /\ done.vault \in VaultType
            /\ done.known \in [Identities -> EntryIds \cup {Nothing}]
            /\ Room(done.vault, n)
  <1>1. Cardinality(EntryIds \ Ids(v)) \in Nat /\ Cardinality(EntryIds \ Ids(v)) >= n + 1
    BY FreeIsFinite DEF Room
  <1>2. EntryIds \ Ids(v) # {}
    BY <1>1, FS_EmptySet
  <1>3. job.known \in [Identities -> EntryIds \cup {Nothing}] /\ entry.who \in Identities
    BY DEF JobType, Entries
  <1>4. CASE ApplyOne(v, entry).outcome = "created"
    <2>1. PICK e \in EntryIds \ Ids(v) :
            /\ ApplyOne(v, entry).vault = [v EXCEPT ![e] = entry]
            /\ ApplyOne(v, entry).known = IF job.conflict = "duplicate" THEN job.known
                                          ELSE [job.known EXCEPT ![entry.who] = e]
      BY <1>2, <1>4, ApplyOneCases
    <2>2. ApplyOne(v, entry).vault \in VaultType /\ Room(ApplyOne(v, entry).vault, n)
      BY <2>1, PutFacts
    <2>3. ApplyOne(v, entry).known \in [Identities -> EntryIds \cup {Nothing}]
      BY <1>3, <2>1
    <2> QED BY <1>2, <1>4, <2>2, <2>3 DEF Outcomes
  <1>5. CASE ApplyOne(v, entry).outcome = "skipped"
    <2>1. ApplyOne(v, entry).vault = v /\ ApplyOne(v, entry).known = job.known
      BY <1>2, <1>5, ApplyOneCases
    <2>2. Room(v, n)
      BY <1>1 DEF Room
    <2> QED BY <1>2, <1>3, <1>5, <2>1, <2>2 DEF Outcomes
  <1>6. CASE ApplyOne(v, entry).outcome = "updated"
    <2>1. PICK e \in EntryIds :
            /\ ApplyOne(v, entry).vault = [v EXCEPT ![e] = entry]
            /\ ApplyOne(v, entry).known = job.known
      BY <1>2, <1>6, ApplyOneCases
    <2>2. ApplyOne(v, entry).vault \in VaultType /\ Room(ApplyOne(v, entry).vault, n)
      BY <2>1, PutFacts
    <2> QED BY <1>2, <1>3, <1>6, <2>1, <2>2 DEF Outcomes
  <1>7. ApplyOne(v, entry).outcome \in Outcomes
    BY <1>2, ApplyOneCases
  <1> QED BY <1>4, <1>5, <1>6, <1>7 DEF Outcomes

\* At the beginning nothing is under way.
LEMMA ImportInitInv == ImportInit => ImportInv
  <1> SUFFICES ASSUME ImportInit PROVE ImportInv
    OBVIOUS
  <1>1. /\ job = NoJob /\ applied = <<>> /\ torn = <<>> /\ tries = 0
        /\ phase = "idle" /\ checkpoint = Nothing /\ vault \in VaultType
    BY DEF ImportInit, VaultType
  <1>2. NoJob \in JobType /\ NoJob.source = <<>> /\ ~NoJob.partial
    BY DEF NoJob, JobType, NoCounts, CountType, NoneKnown, Conflicts, Outcomes
  <1> HIDE DEF NoJob
  <1>3. DOMAIN NoJob.source = {} /\ applied \in [{} -> Nat] /\ torn \in [{} -> Nat]
    BY <1>1, <1>2
  <1> QED BY <1>1, <1>2, <1>3 DEF ImportInv, ImportTypes, Position, Histories, HasRoom

\* When nobody resumes an import, all is as it was at the beginning.
LEMMA ForgetInv ==
  ASSUME ImportInv, Forget, phase' = "idle", checkpoint' = Nothing, vault' \in VaultType
  PROVE  ImportInv'
  <1>1. NoJob \in JobType /\ NoJob.source = <<>> /\ ~NoJob.partial
    BY DEF NoJob, JobType, NoCounts, CountType, NoneKnown, Conflicts, Outcomes
  <1> HIDE DEF NoJob
  <1>2. job' = NoJob /\ applied' = <<>> /\ torn' = <<>> /\ tries' = 0
    BY DEF Forget
  <1>3. DOMAIN NoJob.source = {} /\ applied' \in [{} -> Nat] /\ torn' \in [{} -> Nat]
    BY <1>1, <1>2
  <1> QED BY <1>1, <1>2, <1>3 DEF ImportInv, ImportTypes, Position, Histories, HasRoom

\* A new attempt, of the file under the checkpoint or of another one.
LEMMA StartInv ==
  ASSUME ImportInv, NEW file \in Readable, NEW mode \in {"merge", "replace"},
         NEW conflict \in Conflicts, NEW partial \in BOOLEAN, Start(file, mode, conflict, partial)
  PROVE  ImportInv'
  <1> DEFINE source == file.entries
             same == tries > 0 /\ source = job.source
  <1>0. source \in Seq(Entries) /\ Len(source) \in Nat /\ DOMAIN source = 1..Len(source)
    BY ImportAssumption DEF Readable, Accepted
  <1> HIDE DEF source
  <1>1. PICK known \in KnownIn(vault) :
          job' = [source |-> source, mode |-> mode, conflict |-> conflict, partial |-> partial,
                  start |-> CheckpointIndex, at |-> CheckpointIndex,
                  counts |-> NoCounts, outcome |-> "created",
                  plan |-> PlanCounts(source, vault, conflict),
                  known |-> IF mode = "replace" THEN NoneKnown ELSE known]
    BY DEF Start, source
  <1>2. /\ phase = "idle" /\ phase' = "apply" /\ vault' = vault /\ checkpoint' = checkpoint
        /\ tries > 0 => partial
        /\ CheckpointFits(source)
        /\ Cardinality(EntryIds \ Ids(vault)) >= Len(source)
        /\ tries' = IF partial THEN (IF same THEN tries ELSE 0) + 1 ELSE 0
        /\ applied' = IF same THEN applied ELSE Zeros(source)
        /\ torn' = IF same THEN torn ELSE Zeros(source)
        /\ unsaved' = IF partial THEN Nothing
                      ELSE IF mode = "replace" THEN [e \in EntryIds |-> Nothing] ELSE vault
    BY DEF Start, source
  <1>3. /\ CheckpointIndex \in 0..Len(source) /\ CheckpointIndex' = CheckpointIndex
        /\ ~same => checkpoint = Nothing
        /\ checkpoint # Nothing => partial /\ checkpoint.source = source
    BY <1>0, <1>2 DEF ImportInv, ImportTypes, Position, CheckpointIndex, CheckpointFits
  <1>4. PlanCounts(source, vault, conflict) \in CountType
    BY <1>0, PlanType
  <1>5. (IF mode = "replace" THEN NoneKnown ELSE known) \in [Identities -> EntryIds \cup {Nothing}]
    BY DEF KnownIn, NoneKnown
  <1>6. job' \in JobType /\ job'.source = source /\ job'.partial = partial /\ job'.at = CheckpointIndex
    BY <1>0, <1>1, <1>3, <1>4, <1>5 DEF JobType, NoCounts, CountType, Outcomes
  <1>7. Progress' = CheckpointIndex
    BY <1>1, <1>3 DEF Progress, NoCounts
  <1>8. Zeros(source) \in [DOMAIN source -> Nat] /\ \A n \in DOMAIN source : Zeros(source)[n] = 0
    BY DEF Zeros
  <1>9. ImportTypes'
    <2>1. applied' \in [DOMAIN source -> Nat] /\ torn' \in [DOMAIN source -> Nat]
      BY <1>2, <1>8 DEF ImportInv, ImportTypes
    <2>2. unsaved' \in VaultType \/ partial
      BY <1>2 DEF ImportInv, ImportTypes, VaultType
    <2>3. tries' \in Nat
      BY <1>2 DEF ImportInv, ImportTypes
    <2> QED BY <1>2, <1>6, <2>1, <2>2, <2>3 DEF ImportInv, ImportTypes
  <1>10. Position'
    BY <1>0, <1>2, <1>3, <1>6, <1>7 DEF ImportInv, ImportTypes, Position
  <1>11. Histories'
    <2>1. Applied' = CheckpointIndex /\ Applied = CheckpointIndex
      BY <1>2, <1>6 DEF Applied
    <2>2. CASE same
      BY <1>2, <1>6, <2>1, <2>2 DEF ImportInv, Histories
    <2>3. CASE ~same
      <3>1. CheckpointIndex = 0
        BY <1>3, <2>3 DEF CheckpointIndex
      <3> QED BY <1>0, <1>2, <1>6, <1>8, <2>1, <2>3, <3>1 DEF Histories
    <2> QED BY <2>2, <2>3
  <1>12. HasRoom'
    <2>1. Applied' = CheckpointIndex
      BY <1>2, <1>6 DEF Applied
    <2>2. Cardinality(EntryIds \ Ids(Current')) >= Len(source)
      <3>1. CASE partial \/ mode # "replace"
        BY <1>2, <1>6, <3>1 DEF Current
      <3>2. CASE ~partial /\ mode = "replace"
        <4>1. EntryIds \ Ids(Current') = EntryIds
          BY <1>2, <1>6, <3>2 DEF Current, Ids
        <4>2. Cardinality(EntryIds \ Ids(vault)) <= Cardinality(EntryIds)
          BY ImportAssumption, FS_Subset
        <4>3. Cardinality(EntryIds) \in Nat /\ Cardinality(EntryIds \ Ids(vault)) \in Nat
          BY ImportAssumption, FS_CardinalityType, FreeIsFinite
        <4>4. Cardinality(EntryIds) >= Len(source)
          BY <1>0, <1>2, <4>2, <4>3
        <4> QED BY <4>1, <4>4
      <3> QED BY <3>1, <3>2
    <2>3. Cardinality(EntryIds \ Ids(Current')) \in Nat
      BY FreeIsFinite
    <2> QED BY <1>0, <1>3, <1>6, <2>1, <2>2, <2>3 DEF HasRoom, Room
  <1> QED BY <1>9, <1>10, <1>11, <1>12 DEF ImportInv

\* _apply_one of the next entry, in partial mode into the vault itself.
LEMMA ApplyInv == ASSUME ImportInv, Apply PROVE ImportInv'
  <1> DEFINE v == IF job.partial THEN vault ELSE unsaved
             m == job.at + 1
             done == ApplyOne(v, job.source[m])
             after == [job EXCEPT !.known = done.known, !.outcome = done.outcome]
  <1>1. /\ phase = "apply" /\ job.at < Len(job.source)
        /\ IF job.partial
           THEN vault' = done.vault /\ job' = after /\ phase' = "announce" /\ unsaved' = unsaved
           ELSE unsaved' = done.vault /\ job' = Counted(after) /\ vault' = vault /\ phase' = phase
        /\ applied' = [applied EXCEPT ![m] = applied[m] + 1]
        /\ checkpoint' = checkpoint /\ torn' = torn /\ tries' = tries
    BY DEF Apply
  <1>2. /\ job \in JobType /\ job.at \in Nat /\ Len(job.source) \in Nat
        /\ DOMAIN job.source = 1..Len(job.source)
        /\ m \in DOMAIN job.source /\ job.source[m] \in Entries
    BY <1>1 DEF ImportInv, ImportTypes, JobType
  <1>3. v \in VaultType /\ v = Current
    BY <1>1 DEF ImportInv, ImportTypes, Current
  <1> DEFINE n == Len(job.source) - m
  <1>4. n \in Nat /\ Room(v, n + 1)
    <2>1. n \in Nat /\ n + 1 = Len(job.source) - job.at
      BY <1>1, <1>2
    <2>2. Room(v, Len(job.source) - job.at)
      BY <1>1, <1>3 DEF ImportInv, HasRoom, Applied
    <2> QED BY <2>1, <2>2
  <1> HIDE DEF v, m, done
  <1>5. /\ done.outcome \in Outcomes /\ done.vault \in VaultType
        /\ done.known \in [Identities -> EntryIds \cup {Nothing}]
        /\ Room(done.vault, n)
    BY <1>2, <1>3, <1>4, ApplyOneFacts DEF done
  <1>6. /\ after \in JobType /\ after.source = job.source /\ after.partial = job.partial
        /\ after.at = job.at /\ after.counts = job.counts /\ after.start = job.start
    BY <1>2, <1>5 DEF JobType
  <1> HIDE DEF after
  <1>7. /\ Counted(after) \in JobType /\ Counted(after).at = m
        /\ Counted(after).source = job.source /\ Counted(after).partial = job.partial
        /\ Counted(after).start = job.start /\ Done(Counted(after)) = Done(job) + 1
    <2>1. Done(after) = Done(job)
      BY <1>6 DEF Done
    <2> QED BY <1>6, <2>1, CountedFacts DEF m
  <1>8. /\ job' \in JobType /\ job'.source = job.source /\ job'.partial = job.partial
        /\ job'.start = job.start
        /\ IF job.partial THEN job'.at = job.at /\ Progress' = Progress
           ELSE job'.at = m /\ Progress' = Progress + 1
        /\ CheckpointIndex' = CheckpointIndex
    <2>1. CheckpointIndex' = CheckpointIndex
      BY <1>1 DEF CheckpointIndex
    <2>2. CASE job.partial
      BY <1>1, <1>6, <2>1, <2>2 DEF Progress
    <2>3. CASE ~job.partial
      <3>1. job' = Counted(after)
        BY <1>1, <2>3
      <3>2. Progress' = Progress + 1
        BY <1>7, <3>1 DEF Progress, Done
      <3> QED BY <1>7, <2>1, <2>3, <3>1, <3>2
    <2> QED BY <2>2, <2>3
  <1>9. Applied' = m
    BY <1>1, <1>8 DEF Applied, m
  <1>10. ImportTypes'
    <2>1. applied' \in [DOMAIN job'.source -> Nat] /\ torn' \in [DOMAIN job'.source -> Nat]
      <3>1. applied \in [DOMAIN job.source -> Nat] /\ torn \in [DOMAIN job.source -> Nat]
        BY DEF ImportInv, ImportTypes
      <3>2. [applied EXCEPT ![m] = applied[m] + 1] \in [DOMAIN job.source -> Nat]
        BY <1>2, <3>1
      <3> QED BY <1>1, <1>8, <3>1, <3>2
    <2> QED BY <1>1, <1>5, <1>8, <2>1 DEF ImportInv, ImportTypes
  <1>11. Position'
    BY <1>1, <1>2, <1>8 DEF ImportInv, ImportTypes, Position, CheckpointIndex, m
  <1>12. Histories'
    <2>1. Applied = job.at
      BY <1>1 DEF Applied
    <2> QED BY <1>1, <1>2, <1>8, <1>9, <2>1 DEF ImportInv, ImportTypes, Histories, m
  <1>13. HasRoom'
    <2>1. Current' = done.vault
      BY <1>1, <1>8 DEF Current
    <2> QED BY <1>5, <1>8, <1>9, <2>1 DEF HasRoom, m
  <1> QED BY <1>10, <1>11, <1>12, <1>13 DEF ImportInv

\* The event of the entry, after which it is counted or the import has failed.
LEMMA AnnounceInv == ASSUME ImportInv, Announce PROVE ImportInv'
  <1>1. /\ phase = "announce" /\ job.partial /\ job.at < Len(job.source)
        /\ UNCHANGED <<vault, unsaved, checkpoint, applied, tries>>
    BY DEF Announce, ImportInv, Position
  <1>2. /\ job \in JobType /\ job.at \in Nat /\ Len(job.source) \in Nat
        /\ DOMAIN job.source = 1..Len(job.source)
        /\ job.start \in Nat /\ job.counts \in CountType
    BY <1>1 DEF ImportInv, ImportTypes, JobType
  <1>3. ASSUME phase' = "checkpoint", job' = Counted(job), torn' = torn PROVE ImportInv'
    <2>1. /\ job' \in JobType /\ job'.at = job.at + 1 /\ job'.source = job.source
          /\ job'.partial /\ Done(job') = Done(job) + 1
      BY <1>1, <1>2, <1>3, CountedFacts
    <2>2. Progress' = Progress + 1 /\ CheckpointIndex' = CheckpointIndex
      <3>1. Progress' = Progress + 1
        BY <2>1 DEF Progress, Done
      <3> QED BY <1>1, <3>1 DEF CheckpointIndex
    <2>3. Applied' = Applied /\ Current' = Current
      BY <1>1, <1>3, <2>1 DEF Applied, Current
    <2>4. ImportTypes'
      BY <1>1, <1>3, <2>1 DEF ImportInv, ImportTypes
    <2>5. Position'
      BY <1>1, <1>2, <1>3, <2>1, <2>2 DEF ImportInv, ImportTypes, Position, CheckpointIndex
    <2>6. Histories' /\ HasRoom'
      BY <1>1, <1>3, <2>1, <2>3 DEF ImportInv, Histories, HasRoom
    <2> QED BY <2>4, <2>5, <2>6 DEF ImportInv
  <1>4. ASSUME phase' = "failed", torn' = [torn EXCEPT ![job.at + 1] = @ + 1], job' = job
        PROVE  ImportInv'
    <2>1. Progress' = Progress /\ CheckpointIndex' = CheckpointIndex /\ Applied' = job.at
      BY <1>1, <1>4 DEF Progress, CheckpointIndex, Applied
    <2>2. ImportTypes'
      <3>1. torn' \in [DOMAIN job'.source -> Nat]
        <4>1. torn \in [DOMAIN job.source -> Nat] /\ job.at + 1 \in DOMAIN job.source
          BY <1>1, <1>2 DEF ImportInv, ImportTypes
        <4> QED BY <1>4, <4>1
      <3> QED BY <1>1, <1>4, <3>1 DEF ImportInv, ImportTypes
    <2>3. Position' /\ HasRoom'
      BY <1>1, <1>2, <1>4, <2>1 DEF ImportInv, Position, HasRoom
    <2>4. Histories'
      <3>1. Applied = job.at + 1
        BY <1>1 DEF Applied
      <3> QED BY <1>1, <1>2, <1>4, <2>1, <3>1 DEF ImportInv, ImportTypes, Histories
    <2> QED BY <2>2, <2>3, <2>4 DEF ImportInv
  <1> QED BY <1>3, <1>4 DEF Announce

\* A step that changes neither job nor histories nor the vault in the end keeps what is said of
\* them, as long as the new phase claims no more than the old one.
LEMMA QuietStep ==
  ASSUME ImportInv,
         UNCHANGED <<vault, job, applied, torn, tries>>,
         Applied' = Applied, phase' \in {"idle", "apply", "clear", "failed"},
         phase' = "apply" => HasRoom' /\ unsaved' = unsaved /\ phase \in {"apply", "checkpoint"},
         Position', checkpoint' # Nothing => checkpoint' \in [source : Seq(Entries), next : Nat]
  PROVE  ImportInv'
  <1>1. ImportTypes'
    BY DEF ImportInv, ImportTypes, Position
  <1>2. Histories'
    BY DEF ImportInv, Histories
  <1>3. HasRoom'
    BY DEF HasRoom
  <1> QED BY <1>1, <1>2, <1>3 DEF ImportInv

\* The steps after the entries, and the ends of an import in error.
LEMMA RestInv ==
  ASSUME ImportInv,
         \/ Checkpoint \/ Commit \/ ClearCheckpoint \/ Record
         \/ Fail \/ Failed \/ RecordFails \/ ImportCrash \/ GiveUp \/ Delete
  PROVE  ImportInv'
  <1>0. /\ job \in JobType /\ job.at \in Nat /\ Len(job.source) \in Nat
        /\ job.source \in Seq(Entries) /\ DOMAIN job.source = 1..Len(job.source)
        /\ CheckpointIndex \in Nat
    BY DEF ImportInv, ImportTypes, JobType, CheckpointIndex
  <1>1. CASE Checkpoint
    <2>1. /\ phase = "checkpoint" /\ phase' = "apply"
          /\ checkpoint' = [source |-> job.source, next |-> job.at]
          /\ UNCHANGED <<vault, unsaved, job, applied, torn, tries>>
      BY <1>1 DEF Checkpoint, SaveCheckpoint
    <2>2. checkpoint' \in [source : Seq(Entries), next : Nat] /\ checkpoint' # Nothing
      BY <1>0, <2>1, ImportAssumption
    <2>3. CheckpointIndex' = job.at /\ Progress' = Progress
      BY <2>1, <2>2 DEF CheckpointIndex, Progress
    <2>4. Position'
      BY <1>0, <2>1, <2>2, <2>3 DEF ImportInv, Position
    <2>5. Applied' = Applied /\ HasRoom'
      BY <2>1 DEF ImportInv, HasRoom, Applied, Current
    <2> QED BY <2>1, <2>2, <2>4, <2>5, QuietStep
  <1>2. CASE Commit
    <2>1. /\ phase = "apply" /\ job.at = Len(job.source) /\ phase' = "clear"
          /\ vault' = IF job.partial THEN vault ELSE unsaved
          /\ UNCHANGED <<checkpoint, job, applied, torn, tries>>
      BY <1>2 DEF Commit
    <2>2. Position' /\ Applied' = Applied
      BY <2>1 DEF ImportInv, Position, Applied, Progress, CheckpointIndex
    <2>3. ImportTypes'
      BY <2>1 DEF ImportInv, ImportTypes
    <2> QED BY <2>1, <2>2, <2>3 DEF ImportInv, Histories, HasRoom
  <1>3. CASE ClearCheckpoint
    <2>1. /\ phase = "clear" /\ phase' = "record" /\ checkpoint' = Nothing
          /\ UNCHANGED <<vault, unsaved, job, applied, torn, tries>>
      BY <1>3 DEF ClearCheckpoint
    <2>2. Position' /\ Applied' = Applied
      BY <1>0, <2>1 DEF ImportInv, Position, Applied, Progress, CheckpointIndex
    <2>3. ImportTypes'
      BY <2>1 DEF ImportInv, ImportTypes
    <2> QED BY <2>1, <2>2, <2>3 DEF ImportInv, Histories, HasRoom
  <1>4. CASE Record
    BY <1>4, ForgetInv DEF Record, ImportInv, ImportTypes, Position
  <1>5. CASE Fail
    <2>1. /\ phase \in {"apply", "checkpoint", "clear"} /\ phase' = "failed"
          /\ UNCHANGED <<vault, checkpoint, job, applied, torn, tries>>
      BY <1>5 DEF Fail
    <2>2. Position' /\ Applied' = Applied
      BY <2>1 DEF ImportInv, Position, Applied, Progress, CheckpointIndex
    <2> QED BY <2>1, <2>2, QuietStep DEF ImportInv, ImportTypes
  \* The entries whose record is torn away are those after the checkpoint.
  <1>6. ASSUME phase \notin {"idle", "record"}, job.partial, phase' = "idle", Tear(Unrecorded),
               UNCHANGED <<vault, checkpoint, job, applied, tries>>
        PROVE  ImportInv'
    <2>1. /\ Applied = (IF phase = "announce" THEN job.at + 1 ELSE job.at)
          /\ Applied' = CheckpointIndex /\ CheckpointIndex <= Applied
      BY <1>0, <1>6 DEF Applied, CheckpointIndex, ImportInv, Position
    <2>2. torn' = [n \in DOMAIN torn |-> torn[n] + IF n \in (CheckpointIndex + 1)..Applied THEN 1 ELSE 0]
      BY <1>6, <2>1 DEF Tear, Unrecorded
    <2>3. torn \in [DOMAIN job.source -> Nat] /\ applied \in [DOMAIN job.source -> Nat]
      BY DEF ImportInv, ImportTypes
    <2>4. torn' \in [DOMAIN job.source -> Nat]
      BY <2>2, <2>3
    <2>5. ImportTypes' /\ HasRoom'
      BY <1>6, <2>3, <2>4 DEF ImportInv, ImportTypes, HasRoom
    <2>6. Position'
      BY <1>6 DEF ImportInv, Position, CheckpointIndex
    <2>7. Histories'
      <3>1. ASSUME NEW n \in DOMAIN job.source
            PROVE  /\ applied[n] <= torn'[n] + (IF n <= CheckpointIndex THEN 1 ELSE 0)
                   /\ n <= CheckpointIndex => applied[n] >= 1
        <4>1. /\ applied[n] <= torn[n] + (IF n <= Applied THEN 1 ELSE 0)
              /\ n <= Applied => applied[n] >= 1
          BY <3>1 DEF ImportInv, Histories
        <4>2. torn'[n] = torn[n] + (IF n \in (CheckpointIndex + 1)..Applied THEN 1 ELSE 0)
          BY <2>2, <2>3
        <4>3. n \in Nat /\ torn[n] \in Nat /\ applied[n] \in Nat /\ Applied \in Nat
          BY <1>0, <2>1, <2>3
        <4> QED BY <1>0, <2>1, <4>1, <4>2, <4>3
      <3> QED BY <1>6, <2>1, <3>1 DEF Histories
    <2> QED BY <2>5, <2>6, <2>7 DEF ImportInv
  <1>7. CASE Failed
    <2>1. /\ phase = "failed" /\ phase' = "idle" /\ UNCHANGED <<vault, unsaved>>
          /\ IF job.partial
             THEN /\ \/ SaveCheckpoint(Progress) /\ UNCHANGED torn
                     \/ Tear(Unrecorded) /\ UNCHANGED checkpoint
                  /\ UNCHANGED <<job, applied, tries>>
             ELSE Forget /\ UNCHANGED checkpoint
      BY <1>7 DEF Failed
    <2>2. CASE ~job.partial
      BY <2>1, <2>2, ForgetInv DEF ImportInv, ImportTypes, Position
    <2>3. CASE job.partial /\ Tear(Unrecorded) /\ checkpoint' = checkpoint
      BY <1>6, <2>1, <2>3
    <2>4. CASE job.partial /\ SaveCheckpoint(Progress) /\ torn' = torn
      <3>1. checkpoint' = [source |-> job.source, next |-> job.at]
        BY <2>1, <2>4 DEF SaveCheckpoint, ImportInv, Position
      <3>2. checkpoint' \in [source : Seq(Entries), next : Nat] /\ checkpoint' # Nothing
        BY <1>0, <3>1, ImportAssumption
      <3>3. CheckpointIndex' = job.at
        BY <3>1, <3>2 DEF CheckpointIndex
      <3>4. Position' /\ Applied' = Applied
        BY <1>0, <2>1, <2>4, <3>1, <3>2, <3>3 DEF ImportInv, Position, Applied
      <3> QED BY <2>1, <2>4, <3>2, <3>4, QuietStep
    <2> QED BY <2>1, <2>2, <2>3, <2>4
  <1>8. CASE RecordFails
    <2>1. /\ phase = "record" /\ phase' = "idle" /\ UNCHANGED <<vault, unsaved, checkpoint>>
          /\ IF job.partial THEN Tear(DOMAIN torn) /\ UNCHANGED <<job, applied, tries>> ELSE Forget
          /\ checkpoint = Nothing
      BY <1>8 DEF RecordFails, ImportInv, Position
    <2>2. CASE ~job.partial
      BY <2>1, <2>2, ForgetInv DEF ImportInv, ImportTypes
    <2>3. CASE job.partial
      <3>1. /\ torn \in [DOMAIN job.source -> Nat] /\ applied \in [DOMAIN job.source -> Nat]
            /\ torn' = [n \in DOMAIN torn |-> torn[n] + IF n \in DOMAIN torn THEN 1 ELSE 0]
        BY <2>1, <2>3 DEF ImportInv, ImportTypes, Tear
      <3>2. torn' \in [DOMAIN job.source -> Nat] /\ \A n \in DOMAIN job.source : torn'[n] = torn[n] + 1
        BY <3>1
      <3>3. ImportTypes' /\ HasRoom'
        BY <2>1, <2>3, <3>1, <3>2 DEF ImportInv, ImportTypes, HasRoom
      <3>4. Position'
        BY <2>1, <2>3 DEF ImportInv, Position, CheckpointIndex
      <3>5. Applied' = 0
        BY <2>1 DEF Applied, CheckpointIndex
      <3>6. Histories'
        <4>1. ASSUME NEW n \in DOMAIN job.source
              PROVE  applied[n] <= torn'[n] + (IF n <= 0 THEN 1 ELSE 0) /\ ~(n <= 0)
          BY <1>0, <3>1, <3>2, <4>1 DEF ImportInv, Histories
        <4> QED BY <2>1, <2>3, <3>5, <4>1 DEF Histories
      <3> QED BY <3>3, <3>4, <3>6 DEF ImportInv
    <2> QED BY <2>2, <2>3
  <1>9. CASE ImportCrash
    <2>1. CASE job.partial
      BY <1>6, <1>9, <2>1 DEF ImportCrash
    <2>2. CASE ~job.partial
      BY <1>9, <2>2, ForgetInv DEF ImportCrash, ImportInv, ImportTypes, Position
    <2> QED BY <2>1, <2>2
  <1>10. CASE GiveUp
    BY <1>10, ForgetInv DEF GiveUp, ImportInv, ImportTypes
  <1>11. CASE Delete
    <2>1. vault' \in VaultType
      BY <1>11 DEF Delete, VaultType
    <2> QED BY <1>11, <2>1
        DEF Delete, ImportInv, ImportTypes, Position, Histories, HasRoom, Applied, CheckpointIndex
  <1> QED BY <1>1, <1>2, <1>3, <1>4, <1>5, <1>7, <1>8, <1>9, <1>10, <1>11

\* Every step of an import keeps the invariant.
LEMMA ImportStep == ImportInv /\ [ImportNext]_importVars => ImportInv'
  <1>1. ASSUME ImportInv, UNCHANGED importVars PROVE ImportInv'
    BY <1>1 DEF importVars, ImportInv, ImportTypes, Position, Histories, HasRoom, Applied, Current,
      CheckpointIndex, Progress
  <1> QED BY <1>1, StartInv, ApplyInv, AnnounceInv, RestInv DEF ImportNext

\* The invariant of an import holds always.
THEOREM ImportInvariance == ImportSpec => []ImportInv
  BY ImportInitInv, ImportStep, PTL DEF ImportSpec

\* However often an import fails, is killed and resumed: nothing before the checkpoint is
\* missing, nothing is applied twice unless the record of it was lost, and when it is done
\* nothing is missing; for files of any length, any vault and any number of attempts.
THEOREM ImportedOnceEach == ImportSpec => []ImportedOnce
  <1>1. ImportInv => ImportedOnce
    <2> SUFFICES ASSUME ImportInv PROVE ImportedOnce
      OBVIOUS
    <2>0. /\ DOMAIN job.source = 1..Len(job.source) /\ Len(job.source) \in Nat /\ job.at \in Nat
          /\ applied \in [DOMAIN job.source -> Nat] /\ torn \in [DOMAIN job.source -> Nat]
          /\ CheckpointIndex \in Nat
      BY DEF ImportInv, ImportTypes, JobType, CheckpointIndex
    <2>1. ASSUME NEW n \in DOMAIN applied PROVE applied[n] <= 1 + torn[n]
      BY <2>0 DEF ImportInv, Histories
    <2>2. ASSUME checkpoint # Nothing, NEW n \in 1..checkpoint.next PROVE applied[n] >= 1
      <3>1. n \in DOMAIN job.source /\ n <= CheckpointIndex
        BY <2>0, <2>2 DEF ImportInv, Position, CheckpointIndex
      <3>2. CheckpointIndex <= Applied /\ Applied \in Nat
        BY <2>0 DEF ImportInv, Position, Applied
      <3> QED BY <2>0, <3>1, <3>2 DEF ImportInv, Histories
    <2>3. ASSUME phase = "record", NEW n \in DOMAIN applied PROVE applied[n] >= 1
      BY <2>0, <2>3 DEF ImportInv, Position, Histories, Applied
    <2> QED BY <2>1, <2>2, <2>3 DEF ImportedOnce
  <1> QED BY <1>1, ImportInvariance, PTL

--------------------------------------------------------------------------------
(* What a merge counts is what its preview said.  H stands for the identities *)
(* the vault had when the import began.                                        *)

\* The entries of a file that are new to a vault with the identities H, and to the file itself.
NewIn(source, H, conflict) ==
  {n \in DOMAIN source :
     conflict = "duplicate" \/ source[n].who \notin H \cup {source[k].who : k \in 1..n - 1}}

\* What the first k entries come to.
Tally(new, k, conflict) ==
  [created |-> Cardinality(new \cap 1..k),
   updated |-> IF conflict = "update" THEN Cardinality((1..k) \ new) ELSE 0,
   skipped |-> IF conflict = "skip" THEN Cardinality((1..k) \ new) ELSE 0]

\* What becomes of the n-th entry.
OutcomeOf(n, new, conflict) ==
  IF n \in new THEN "created" ELSE IF conflict = "skip" THEN "skipped" ELSE "updated"

\* The known identities are those of the vault and of the entries applied so far.
KnownSoFar(H) ==
  \A w \in Identities :
    job.known[w] # Nothing <=> w \in H \cup {job.source[k].who : k \in 1..Applied}

\* The plan is the tally of the whole file, the counts are that of the entries counted so far.
PlanFrom(H) ==
  LET new == NewIn(job.source, H, job.conflict)
  IN /\ job.plan = Tally(new, Len(job.source), job.conflict)
     /\ job.counts = Tally(new, job.at, job.conflict)
     /\ phase = "announce" => job.outcome = OutcomeOf(job.at + 1, new, job.conflict)
     /\ phase \in {"apply", "announce", "checkpoint"} /\ job.conflict # "duplicate" => KnownSoFar(H)

PlanInv ==
  phase # "idle" /\ job.mode = "merge" /\ job.start = 0 => \E H \in SUBSET Identities : PlanFrom(H)

\* _plan_counts is the tally of the whole file.
LEMMA PlanIsTally ==
  ASSUME NEW source \in Seq(Entries), NEW v, NEW conflict
  PROVE  PlanCounts(source, v, conflict) = Tally(NewIn(source, Have(v), conflict), Len(source), conflict)
  <1> DEFINE new == NewIn(source, Have(v), conflict)
  <1>1. DOMAIN source = 1..Len(source) /\ new \subseteq DOMAIN source
    BY DEF NewIn
  <1>2. new \cap 1..Len(source) = new
    BY <1>1
  <1>3. PlanCounts(source, v, conflict) =
          [created |-> Cardinality(new),
           updated |-> IF conflict = "update" THEN Cardinality(DOMAIN source \ new) ELSE 0,
           skipped |-> IF conflict = "skip" THEN Cardinality(DOMAIN source \ new) ELSE 0]
    BY DEF PlanCounts, NewIn
  <1> HIDE DEF new
  <1> QED BY <1>1, <1>2, <1>3 DEF Tally, new

\* The tally of the first k entries by the numbers of new and of old ones.
LEMMA TallyFacts ==
  ASSUME NEW new, NEW k \in Nat, NEW conflict
  PROVE  /\ Tally(new, k, conflict) \in CountType
         /\ Tally(new, k, conflict).created = Cardinality(new \cap 1..k)
         /\ Tally(new, k, conflict).updated =
              IF conflict = "update" THEN Cardinality((1..k) \ new) ELSE 0
         /\ Tally(new, k, conflict).skipped =
              IF conflict = "skip" THEN Cardinality((1..k) \ new) ELSE 0
  <1> DEFINE a == Cardinality(new \cap 1..k)
             b == Cardinality((1..k) \ new)
  <1>1. a \in Nat /\ b \in Nat
    BY PartIsFinite
  <1>2. Tally(new, k, conflict) = [created |-> a, updated |-> IF conflict = "update" THEN b ELSE 0,
                                   skipped |-> IF conflict = "skip" THEN b ELSE 0]
    BY DEF Tally
  <1> HIDE DEF a, b
  <1>3. Tally(new, k, conflict) \in CountType
    BY <1>1, <1>2 DEF CountType
  <1> QED BY <1>2, <1>3 DEF a, b

\* One more of an outcome.
OneOf(counts, outcome) == [counts EXCEPT ![outcome] = @ + 1]

\* One entry more adds one to the count of what becomes of it, and to no other.
LEMMA TallyStep ==
  ASSUME NEW new, NEW k \in Nat, NEW m \in Nat, m = k + 1, NEW conflict \in Conflicts,
         conflict = "duplicate" => m \in new
  PROVE  Tally(new, m, conflict) = OneOf(Tally(new, k, conflict), OutcomeOf(m, new, conflict))
  <1> DEFINE o == OutcomeOf(m, new, conflict)
             one == Tally(new, k, conflict)
             two == Tally(new, m, conflict)
             in(n) == new \cap 1..n
             out(n) == (1..n) \ new
  <1>1. ASSUME NEW n \in Nat
        PROVE  IsFiniteSet(in(n)) /\ IsFiniteSet(out(n)) /\ Cardinality(in(n)) \in Nat /\ Cardinality(out(n)) \in Nat
    BY PartIsFinite
  <1>2. 1..m = (1..k) \cup {m} /\ m \notin 1..k
    OBVIOUS
  <1>0. one \in CountType /\ two \in CountType
    BY TallyFacts
  <1>3. /\ one.created = Cardinality(in(k)) /\ two.created = Cardinality(in(m))
        /\ one.updated = IF conflict = "update" THEN Cardinality(out(k)) ELSE 0
        /\ two.updated = IF conflict = "update" THEN Cardinality(out(m)) ELSE 0
        /\ one.skipped = IF conflict = "skip" THEN Cardinality(out(k)) ELSE 0
        /\ two.skipped = IF conflict = "skip" THEN Cardinality(out(m)) ELSE 0
    BY TallyFacts
  <1>4. CASE m \in new
    <2>1. in(m) = in(k) \cup {m} /\ m \notin in(k) /\ out(m) = out(k)
      BY <1>2, <1>4
    <2>2. o = "created"
      BY <1>4 DEF OutcomeOf
    <2> HIDE DEF in, out, o, one, two
    <2>3. Cardinality(in(m)) = Cardinality(in(k)) + 1
      BY <1>1, <2>1, FS_AddElement
    <2>4. two.created = one.created + 1 /\ two.updated = one.updated /\ two.skipped = one.skipped
      BY <1>1, <1>3, <2>1, <2>3
    <2>5. two = OneOf(one, o)
      BY <1>0, <2>2, <2>4 DEF OneOf, CountType
    <2> QED BY <2>5 DEF o, one, two
  <1>5. CASE m \notin new
    <2>1. out(m) = out(k) \cup {m} /\ m \notin out(k) /\ in(m) = in(k)
      BY <1>2, <1>5
    <2>2. o = (IF conflict = "skip" THEN "skipped" ELSE "updated") /\ conflict \in {"update", "skip"}
      BY <1>5 DEF OutcomeOf, Conflicts
    <2> HIDE DEF in, out, o, one, two
    <2>3. Cardinality(out(m)) = Cardinality(out(k)) + 1
      BY <1>1, <2>1, FS_AddElement
    <2>4. two.created = one.created
      BY <1>1, <1>3, <2>1
    <2>5. CASE conflict = "skip"
      <3>1. o = "skipped" /\ two.updated = one.updated /\ two.skipped = one.skipped + 1
        BY <1>1, <1>3, <2>2, <2>3, <2>5
      <3>2. two = OneOf(one, o)
        BY <1>0, <2>4, <3>1 DEF OneOf, CountType
      <3> QED BY <3>2 DEF o, one, two
    <2>6. CASE conflict = "update"
      <3>1. o = "updated" /\ two.skipped = one.skipped /\ two.updated = one.updated + 1
        BY <1>1, <1>3, <2>2, <2>3, <2>6
      <3>2. two = OneOf(one, o)
        BY <1>0, <2>4, <3>1 DEF OneOf, CountType
      <3> QED BY <3>2 DEF o, one, two
    <2> QED BY <2>2, <2>5, <2>6
  <1> QED BY <1>4, <1>5

\* Counted as it was announced, an entry brings the counts to the next tally.
LEMMA CountedTally ==
  ASSUME NEW j \in JobType, NEW new, j.conflict = "duplicate" => j.at + 1 \in new,
         j.counts = Tally(new, j.at, j.conflict), j.outcome = OutcomeOf(j.at + 1, new, j.conflict)
  PROVE  Counted(j).counts = Tally(new, j.at + 1, j.conflict)
  <1>1. j.at \in Nat /\ j.at + 1 \in Nat /\ j.conflict \in Conflicts
    BY DEF JobType
  <1>2. PICK k \in Nat, m \in Nat, conflict \in Conflicts :
          k = j.at /\ m = j.at + 1 /\ conflict = j.conflict
    BY <1>1
  <1>3. Tally(new, m, conflict) = OneOf(Tally(new, k, conflict), OutcomeOf(m, new, conflict))
    BY <1>2, TallyStep
  <1>4. Counted(j).counts = OneOf(j.counts, j.outcome)
    BY DEF Counted, OneOf, JobType
  <1> QED BY <1>2, <1>3, <1>4

\* A new import begins with nothing counted, and with the plan for the vault as it is.
LEMMA StartPlan ==
  ASSUME ImportInv, NEW file \in Readable, NEW mode \in {"merge", "replace"},
         NEW conflict \in Conflicts, NEW partial \in BOOLEAN, Start(file, mode, conflict, partial)
  PROVE  PlanInv'
  <1> DEFINE source == file.entries
  <1>3. PICK H \in SUBSET Identities : H = Have(vault)
    BY DEF Have, Ids, ImportInv, ImportTypes, VaultType, Entries
  <1> DEFINE new == NewIn(source, H, conflict)
  <1>0. source \in Seq(Entries)
    BY ImportAssumption DEF Readable, Accepted
  <1> HIDE DEF source
  <1>1. PICK known \in KnownIn(vault) :
          job' = [source |-> source, mode |-> mode, conflict |-> conflict, partial |-> partial,
                  start |-> CheckpointIndex, at |-> CheckpointIndex,
                  counts |-> NoCounts, outcome |-> "created",
                  plan |-> PlanCounts(source, vault, conflict),
                  known |-> IF mode = "replace" THEN NoneKnown ELSE known]
    BY DEF Start, source
  <1>2. phase' = "apply"
    BY DEF Start
  <1> SUFFICES ASSUME job'.mode = "merge", job'.start = 0 PROVE \E K \in SUBSET Identities : PlanFrom(K)'
    BY DEF PlanInv
  <1>4. job'.plan = Tally(new, Len(source), conflict)
    BY <1>0, <1>1, <1>3, PlanIsTally
  <1>5. job'.counts = Tally(new, 0, conflict)
    <2>1. new \cap 1..0 = {} /\ (1..0) \ new = {} /\ Cardinality({}) = 0
      BY FS_EmptySet
    <2> QED BY <1>1, <2>1 DEF Tally, NoCounts
  <1>6. job'.source = source /\ job'.conflict = conflict /\ job'.at = 0 /\ job'.known = known /\ Applied' = 0
    BY <1>1, <1>2 DEF Applied
  <1>7. \A w \in Identities : known[w] # Nothing <=> w \in H
    BY <1>3, ImportAssumption DEF KnownIn, Have, Ids
  <1>8. KnownSoFar(H)'
    BY <1>6, <1>7 DEF KnownSoFar
  <1>9. PlanFrom(H)'
    BY <1>1, <1>2, <1>4, <1>5, <1>6, <1>8 DEF PlanFrom
  <1> QED BY <1>9

\* What becomes of an entry is what the plan says of it.
LEMMA ApplyPlan == ASSUME ImportInv, PlanInv, Apply PROVE PlanInv'
  <1> DEFINE v == IF job.partial THEN vault ELSE unsaved
             m == job.at + 1
             entry == job.source[m]
             done == ApplyOne(v, entry)
             after == [job EXCEPT !.known = done.known, !.outcome = done.outcome]
  <1>1. /\ phase = "apply" /\ job.at < Len(job.source)
        /\ IF job.partial THEN job' = after /\ phase' = "announce"
           ELSE job' = Counted(after) /\ phase' = "apply"
    BY DEF Apply
  <1>2. /\ job \in JobType /\ job.at \in Nat /\ m \in Nat /\ m - 1 = job.at
        /\ m \in DOMAIN job.source /\ entry \in Entries
        /\ DOMAIN job.source = 1..Len(job.source)
    BY <1>1 DEF ImportInv, ImportTypes, JobType
  <1>3. v \in VaultType /\ v = Current
    BY <1>1 DEF ImportInv, ImportTypes, Current
  <1> DEFINE n == Len(job.source) - m
  <1>4. n \in Nat /\ Room(v, n + 1)
    <2>1. n \in Nat /\ n + 1 = Len(job.source) - job.at
      BY <1>1, <1>2
    <2>2. Room(v, Len(job.source) - job.at)
      BY <1>1, <1>3 DEF ImportInv, HasRoom, Applied
    <2> QED BY <2>1, <2>2
  <1> HIDE DEF v, m, entry, done
  <1>5. /\ EntryIds \ Ids(v) # {} /\ done.outcome \in Outcomes
        /\ done.known \in [Identities -> EntryIds \cup {Nothing}]
    BY <1>2, <1>3, <1>4, ApplyOneFacts DEF done
  <1> DEFINE seen == job.known[entry.who]
  <1>6. /\ done.outcome = "created" <=> seen = Nothing \/ job.conflict = "duplicate"
        /\ done.outcome = "created" =>
             \E e \in EntryIds \ Ids(v) :
               done.known = IF job.conflict = "duplicate" THEN job.known
                            ELSE [job.known EXCEPT ![entry.who] = e]
        /\ done.outcome = "skipped" => job.conflict = "skip" /\ done.known = job.known
        /\ done.outcome = "updated" => job.conflict = "update" /\ done.known = job.known
    <2> DEFINE d == ApplyOne(v, entry)
    <2> HIDE DEF seen
    <2>1. d.outcome = "created" <=> seen = Nothing \/ job.conflict = "duplicate"
      <3>1. job \in JobType /\ v \in VaultType /\ entry \in Entries /\ EntryIds \ Ids(v) # {}
        BY <1>2, <1>3, <1>5
      <3> QED BY <3>1, ApplyOneCases DEF seen
    <2>2. d.outcome = "created" =>
            \E e \in EntryIds \ Ids(v) :
              d.known = IF job.conflict = "duplicate" THEN job.known
                        ELSE [job.known EXCEPT ![entry.who] = e]
      BY <1>2, <1>3, <1>5, ApplyOneCases
    <2>3. d.outcome = "skipped" => job.conflict = "skip" /\ d.known = job.known
      BY <1>2, <1>3, <1>5, ApplyOneCases
    <2>4. d.outcome = "updated" => job.conflict = "update" /\ d.known = job.known
      BY <1>2, <1>3, <1>5, ApplyOneCases
    <2> QED BY <2>1, <2>2, <2>3, <2>4 DEF done
  <1>7. /\ after \in JobType /\ after.source = job.source /\ after.conflict = job.conflict
        /\ after.at = job.at /\ after.counts = job.counts /\ after.start = job.start
        /\ after.mode = job.mode /\ after.plan = job.plan
        /\ after.outcome = done.outcome /\ after.known = done.known
    BY <1>2, <1>5 DEF JobType
  <1> HIDE DEF after
  <1>8. /\ Counted(after).source = job.source /\ Counted(after).conflict = job.conflict
        /\ Counted(after).start = job.start /\ Counted(after).mode = job.mode
        /\ Counted(after).plan = job.plan /\ Counted(after).at = m
        /\ Counted(after).known = done.known
    BY <1>7, CountedFacts DEF m
  <1>9. /\ job'.source = job.source /\ job'.conflict = job.conflict /\ job'.start = job.start
        /\ job'.mode = job.mode /\ job'.plan = job.plan /\ job'.known = done.known
        /\ phase' \in {"apply", "announce"} /\ Applied' = m /\ Applied = job.at
    BY <1>1, <1>7, <1>8 DEF Applied, m
  <1> SUFFICES ASSUME job.mode = "merge", job.start = 0 PROVE \E H \in SUBSET Identities : PlanFrom(H)'
    BY <1>9 DEF PlanInv
  <1>10. PICK H \in SUBSET Identities : PlanFrom(H)
    BY <1>1 DEF PlanInv
  <1> DEFINE new == NewIn(job.source, H, job.conflict)
             Before(k) == H \cup {job.source[i].who : i \in 1..k}
  <1>11. done.outcome = OutcomeOf(m, new, job.conflict)
    <2>1. m \in new <=> job.conflict = "duplicate" \/ entry.who \notin Before(job.at)
      BY <1>2 DEF NewIn, entry
    <2>2. job.conflict # "duplicate" => (seen = Nothing <=> entry.who \notin Before(job.at))
      BY <1>1, <1>2, <1>9, <1>10 DEF PlanFrom, KnownSoFar, Entries
    <2> QED BY <1>5, <1>6, <2>1, <2>2 DEF OutcomeOf, Outcomes
  <1>12. job.conflict # "duplicate" => KnownSoFar(H)'
    <2> SUFFICES ASSUME job.conflict # "duplicate", NEW w \in Identities
                 PROVE  done.known[w] # Nothing <=> w \in Before(m)
      BY <1>9 DEF KnownSoFar
    <2>1. job.known[w] # Nothing <=> w \in Before(job.at)
      BY <1>1, <1>9, <1>10 DEF PlanFrom, KnownSoFar
    <2>2. Before(m) = Before(job.at) \cup {entry.who}
      <3>1. 1..m = (1..job.at) \cup {m}
        BY <1>2
      <3> QED BY <3>1 DEF entry
    <2>3. job.known \in [Identities -> EntryIds \cup {Nothing}]
      BY <1>2 DEF JobType
    <2>4. CASE done.outcome = "created"
      <3>1. PICK e \in EntryIds : done.known = [job.known EXCEPT ![entry.who] = e]
        BY <1>6, <2>4
      <3> QED BY <2>1, <2>2, <2>3, <3>1, ImportAssumption
    <2>5. CASE done.outcome # "created"
      <3>1. done.known = job.known /\ seen # Nothing
        BY <1>5, <1>6, <2>5 DEF Outcomes
      <3> QED BY <2>1, <2>2, <3>1
    <2> QED BY <2>4, <2>5
  <1>13. job.plan = Tally(new, Len(job.source), job.conflict) /\ job.counts = Tally(new, job.at, job.conflict)
    BY <1>10 DEF PlanFrom
  <1>14. job.conflict = "duplicate" => m \in new
    BY <1>2 DEF NewIn
  <1> HIDE DEF new
  <1>15. CASE job.partial
    <2>1. job'.at = job.at /\ job'.counts = job.counts /\ job'.outcome = done.outcome
      BY <1>1, <1>7, <1>15
    <2>2. PlanFrom(H)'
      BY <1>9, <1>11, <1>12, <1>13, <2>1 DEF PlanFrom, new, m
    <2> QED BY <2>2
  <1>16. CASE ~job.partial
    <2>1. job' = Counted(after) /\ phase' = "apply"
      BY <1>1, <1>16
    <2>2. job'.counts = Tally(new, m, job.conflict)
      BY <1>7, <1>11, <1>13, <1>14, <2>1, CountedTally DEF m
    <2>3. PlanFrom(H)'
      BY <1>8, <1>9, <1>12, <1>13, <2>1, <2>2 DEF PlanFrom, new
    <2> QED BY <2>3
  <1> QED BY <1>15, <1>16

\* An entry is counted after its event as the plan has it.
LEMMA AnnouncePlan == ASSUME ImportInv, PlanInv, Announce PROVE PlanInv'
  <1>1. phase = "announce" /\ job \in JobType /\ job.at \in Nat /\ job.at < Len(job.source)
        /\ DOMAIN job.source = 1..Len(job.source) /\ Len(job.source) \in Nat
    BY DEF Announce, ImportInv, ImportTypes, Position, JobType
  <1>2. CASE phase' = "failed" /\ job' = job
    BY <1>1, <1>2 DEF PlanInv, PlanFrom, KnownSoFar
  <1>3. CASE phase' = "checkpoint" /\ job' = Counted(job)
    <2>1. /\ job'.source = job.source /\ job'.conflict = job.conflict /\ job'.start = job.start
          /\ job'.mode = job.mode /\ job'.plan = job.plan /\ job'.known = job.known
          /\ job'.at = job.at + 1
      BY <1>1, <1>3, CountedFacts
    <2> SUFFICES ASSUME job.mode = "merge", job.start = 0 PROVE \E H \in SUBSET Identities : PlanFrom(H)'
      BY <2>1 DEF PlanInv
    <2>2. PICK H \in SUBSET Identities : PlanFrom(H)
      BY <1>1 DEF PlanInv
    <2> DEFINE new == NewIn(job.source, H, job.conflict)
    <2>3. job.conflict = "duplicate" => job.at + 1 \in new
      BY <1>1 DEF NewIn
    <2>4. /\ job.plan = Tally(new, Len(job.source), job.conflict)
          /\ job.counts = Tally(new, job.at, job.conflict)
          /\ job.outcome = OutcomeOf(job.at + 1, new, job.conflict)
          /\ job.conflict # "duplicate" => KnownSoFar(H)
      BY <1>1, <2>2 DEF PlanFrom
    <2> HIDE DEF new
    <2>5. job'.counts = Tally(new, job.at + 1, job.conflict)
      BY <1>1, <1>3, <2>3, <2>4, CountedTally
    <2>6. Applied' = Applied
      BY <1>1, <1>3, <2>1 DEF Applied
    <2>7. job'.conflict # "duplicate" => KnownSoFar(H)'
      BY <2>1, <2>4, <2>6 DEF KnownSoFar
    <2>8. PlanFrom(H)'
      BY <1>3, <2>1, <2>4, <2>5, <2>7 DEF PlanFrom, new
    <2> QED BY <2>8
  <1> QED BY <1>2, <1>3 DEF Announce

\* Every step of an import keeps to its plan.
LEMMA PlanStep == ImportInv /\ PlanInv /\ [ImportNext]_importVars => PlanInv'
  <1> SUFFICES ASSUME ImportInv, PlanInv, [ImportNext]_importVars PROVE PlanInv'
    OBVIOUS
  <1>1. CASE job' = job /\ \/ phase' \in {"idle", "clear", "record", "failed"} /\ phase # "idle"
                           \/ phase' = "apply" /\ phase = "checkpoint"
                           \/ phase' = phase /\ phase = "idle"
    BY <1>1 DEF PlanInv, PlanFrom, KnownSoFar, Applied
  <1>2. CASE phase' = "idle"
    BY <1>2 DEF PlanInv
  <1>3. CASE UNCHANGED importVars
    BY <1>3 DEF importVars, PlanInv, PlanFrom, KnownSoFar, Applied, CheckpointIndex
  <1>4. CASE Checkpoint \/ Commit \/ ClearCheckpoint \/ Fail
    BY <1>1, <1>4 DEF Checkpoint, Commit, ClearCheckpoint, Fail
  <1>5. CASE Record \/ Failed \/ RecordFails \/ ImportCrash \/ GiveUp \/ Delete
    BY <1>2, <1>5 DEF Record, Failed, RecordFails, ImportCrash, GiveUp, Delete
  <1> QED BY <1>3, <1>4, <1>5, StartPlan, ApplyPlan, AnnouncePlan DEF ImportNext

\* A merge that was not resumed ends with the numbers its preview showed, for every file, every
\* vault and every way of handling conflicts.
THEOREM MergeAsPlanned == ImportSpec => []ResultAsPlanned
  <1>1. ImportInit => PlanInv
    BY DEF ImportInit, PlanInv
  <1>2. ImportInv /\ PlanInv => ResultAsPlanned
    BY DEF ImportInv, Position, PlanInv, PlanFrom, ResultAsPlanned
  <1> QED BY <1>1, <1>2, PlanStep, ImportInvariance, PTL DEF ImportSpec

--------------------------------------------------------------------------------
(* An import that is not partial changes the vault once and completely.  What *)
(* the open transaction holds is described by the ids of equal entries.        *)

\* The entries of a vault with the same identity and content.
At(v, w, x) == {e \in Ids(v) : v[e] = [who |-> w, what |-> x]}
Absent(b, w) == \A x \in Contents : At(b, w, x) = {}
Among(b, w, e) == \E x \in Contents : e \in At(b, w, x)
Untouched(b, v, w) == \A x \in Contents : At(v, w, x) = At(b, w, x)
Replaced(b, v, w, e, what) ==
  \A x \in Contents : At(v, w, x) = (At(b, w, x) \ {e}) \cup (IF x = what THEN {e} ELSE {})

\* The entries of a file, up to the k-th, with the identity w, and the one that stays: the first
\* when conflicts are skipped, the last when they update.
Mine(source, w, k) == {n \in 1..k : source[n].who = w}
Stays(n, M, conflict) == \A k \in M : IF conflict = "skip" THEN n <= k ELSE n >= k

\* What has become of the identity w of the vault b in the vault v, when e is the entry that is
\* known for it: nothing was there and nothing came, or nothing changed, or one entry of the
\* file is there, in the place of one that was there or of none.
SettledFor(b, v, e, source, k, conflict, w) ==
  LET M == Mine(source, w, k)
  IN \/ e = Nothing /\ M = {} /\ Absent(b, w) /\ Absent(v, w)
     \/ e # Nothing /\ (M = {} \/ conflict = "skip") /\ Among(b, w, e) /\ Untouched(b, v, w)
     \/ /\ e # Nothing
        /\ Absent(b, w) \/ (conflict = "update" /\ Among(b, w, e))
        /\ \E n \in M : Stays(n, M, conflict) /\ Replaced(b, v, w, e, source[n].what)

\* With "duplicate" every entry of the file is there once more.
Doubled(b, v, source, k, w) ==
  \A x \in Contents :
    Number(v, w, x) = Number(b, w, x)
                        + Cardinality({n \in 1..k : source[n] = [who |-> w, what |-> x]})

\* The vault an import begins with.
Base == IF job.mode = "replace" THEN [e \in EntryIds |-> Nothing] ELSE vault

\* What the open transaction of an import that is not partial holds so far.
WholeInv ==
  phase = "apply" /\ ~job.partial =>
    \A w \in Identities :
      IF job.conflict = "duplicate"
      THEN Doubled(Base, unsaved, job.source, job.at, w)
      ELSE SettledFor(Base, unsaved, job.known[w], job.source, job.at, job.conflict, w)

\* What writing one entry does to the entries of every identity and content.
LEMMA AtPut ==
  ASSUME NEW v \in VaultType, NEW e \in EntryIds, NEW entry \in Entries, NEW w, NEW x
  PROVE  At([v EXCEPT ![e] = entry], w, x) =
           (At(v, w, x) \ {e}) \cup (IF entry = [who |-> w, what |-> x] THEN {e} ELSE {})
  <1> DEFINE u == [v EXCEPT ![e] = entry]
  <1>1. entry # Nothing
    BY ImportAssumption
  <1>2. \A f \in EntryIds : u[f] = IF f = e THEN entry ELSE v[f]
    BY DEF VaultType
  <1> HIDE DEF u
  <1>3. At(u, w, x) = (At(v, w, x) \ {e}) \cup (IF entry = [who |-> w, what |-> x] THEN {e} ELSE {})
    BY <1>1, <1>2 DEF At, Ids
  <1> QED BY <1>3 DEF u

\* An entry is one of its own identity and content, and of no other.
LEMMA EntryIs ==
  ASSUME NEW entry \in Entries, NEW w, NEW x
  PROVE  /\ entry.who \in Identities /\ entry.what \in Contents
         /\ entry = [who |-> w, what |-> x] <=> entry.who = w /\ entry.what = x
  BY DEF Entries

\* The vault has an entry of an identity if some content of it is there.
LEMMA AmongFacts ==
  ASSUME NEW v \in VaultType, NEW w \in Identities
  PROVE  /\ \A e \in EntryIds : Among(v, w, e) <=> e \in Ids(v) /\ v[e].who = w
         /\ Absent(v, w) <=> {e \in Ids(v) : v[e].who = w} = {}
  <1>1. \A e \in Ids(v) : v[e] \in Entries /\ e \in EntryIds
    BY DEF Ids, VaultType
  <1>2. ASSUME NEW e \in Ids(v), NEW x PROVE e \in At(v, w, x) <=> v[e].who = w /\ v[e].what = x
    BY <1>1, EntryIs DEF At
  <1>3. ASSUME NEW e \in Ids(v), v[e].who = w PROVE v[e].what \in Contents /\ e \in At(v, w, v[e].what)
    BY <1>1, <1>2, <1>3, EntryIs
  <1> QED BY <1>1, <1>2, <1>3 DEF At, Absent, Among

\* The entry that is known is one of its identity.
LEMMA KnownIsOne ==
  ASSUME NEW b, NEW v, NEW e, NEW source, NEW k, NEW conflict, NEW w,
         SettledFor(b, v, e, source, k, conflict, w), e # Nothing,
         \A n \in 1..k : source[n] \in Entries
  PROVE  Among(v, w, e)
  <1>1. CASE Among(b, w, e) /\ Untouched(b, v, w)
    BY <1>1 DEF Among, Untouched
  <1>2. CASE \E n \in Mine(source, w, k) : Replaced(b, v, w, e, source[n].what)
    <2>1. PICK n \in Mine(source, w, k) : Replaced(b, v, w, e, source[n].what)
      BY <1>2
    <2>2. source[n].what \in Contents
      BY <2>1, EntryIs DEF Mine
    <2> QED BY <2>1, <2>2 DEF Among, Replaced
  <1> QED BY <1>1, <1>2 DEF SettledFor

\* The next entry of a file belongs to its own identity only.
LEMMA MineNext ==
  ASSUME NEW source, NEW k \in Nat, NEW w
  PROVE  /\ source[k + 1].who = w => Mine(source, w, k + 1) = Mine(source, w, k) \cup {k + 1}
         /\ source[k + 1].who # w => Mine(source, w, k + 1) = Mine(source, w, k)
  <1>1. 1..k + 1 = (1..k) \cup {k + 1}
    OBVIOUS
  <1> QED BY <1>1 DEF Mine

\* Writing an entry changes nothing for another identity, if its place was free or its own.
LEMMA SettledElsewhere ==
  ASSUME NEW b, NEW v \in VaultType, NEW id \in EntryIds, NEW e, NEW source, NEW k \in Nat, NEW conflict,
         NEW w \in Identities, source[k + 1] \in Entries, source[k + 1].who # w,
         SettledFor(b, v, e, source, k, conflict, w),
         id \notin Ids(v) \/ v[id].who # w
  PROVE  SettledFor(b, [v EXCEPT ![id] = source[k + 1]], e, source, k + 1, conflict, w)
  <1> DEFINE u == [v EXCEPT ![id] = source[k + 1]]
  <1>1. Mine(source, w, k + 1) = Mine(source, w, k)
    BY MineNext
  <1>2. ASSUME NEW x PROVE At(u, w, x) = At(v, w, x)
    <2>1. source[k + 1] # [who |-> w, what |-> x]
      BY EntryIs
    <2>2. id \notin At(v, w, x)
      BY DEF At
    <2>3. At(u, w, x) = (At(v, w, x) \ {id}) \cup (IF source[k + 1] = [who |-> w, what |-> x] THEN {id} ELSE {})
      BY AtPut
    <2> QED BY <2>1, <2>2, <2>3
  <1> HIDE DEF u
  <1>3. Absent(u, w) <=> Absent(v, w)
    BY <1>2 DEF Absent
  <1>4. Untouched(b, u, w) <=> Untouched(b, v, w)
    BY <1>2 DEF Untouched
  <1>5. ASSUME NEW y PROVE Replaced(b, u, w, e, y) <=> Replaced(b, v, w, e, y)
    BY <1>2 DEF Replaced
  <1>6. SettledFor(b, u, e, source, k + 1, conflict, w)
    BY <1>1, <1>3, <1>4, <1>5 DEF SettledFor
  <1> QED BY <1>6 DEF u

\* An entry that is skipped changes nothing at all.
LEMMA SettledSkip ==
  ASSUME NEW b, NEW v, NEW e, NEW source, NEW k \in Nat, NEW w,
         SettledFor(b, v, e, source, k, "skip", w), e # Nothing \/ source[k + 1].who # w
  PROVE  SettledFor(b, v, e, source, k + 1, "skip", w)
  <1> DEFINE M == Mine(source, w, k)
             N == Mine(source, w, k + 1)
  <1>1. N = M \/ N = M \cup {k + 1}
    BY MineNext
  <1>2. \A n \in M : n \in Nat /\ n <= k
    BY DEF Mine
  <1>3. e = Nothing => N = M
    <2> SUFFICES ASSUME source[k + 1].who # w PROVE N = M
      OBVIOUS
    <2> QED BY MineNext
  <1> HIDE DEF M, N
  <1>4. ASSUME NEW n \in M, Stays(n, M, "skip") PROVE n \in N /\ Stays(n, N, "skip")
    BY <1>1, <1>2, <1>4 DEF Stays
  <1>5. CASE e = Nothing
    BY <1>3, <1>5 DEF SettledFor, M, N
  <1>6. CASE e # Nothing /\ Among(b, w, e) /\ Untouched(b, v, w)
    BY <1>6 DEF SettledFor
  <1>7. CASE e # Nothing /\ Absent(b, w) /\ \E n \in M : Stays(n, M, "skip") /\ Replaced(b, v, w, e, source[n].what)
    BY <1>4, <1>7 DEF SettledFor, N
  <1> QED BY <1>5, <1>6, <1>7 DEF SettledFor, M

\* An entry that is created or put in the place of another one is the one that stays.
LEMMA SettledPut ==
  ASSUME NEW b, NEW v \in VaultType, NEW e, NEW id \in EntryIds, NEW source, NEW k \in Nat,
         NEW conflict, NEW w \in Identities,
         source[k + 1] \in Entries, source[k + 1].who = w,
         SettledFor(b, v, e, source, k, conflict, w),
         \/ e = Nothing
         \/ e = id /\ conflict = "update"
  PROVE  SettledFor(b, [v EXCEPT ![id] = source[k + 1]], id, source, k + 1, conflict, w)
  <1> DEFINE u == [v EXCEPT ![id] = source[k + 1]]
             M == Mine(source, w, k)
             N == Mine(source, w, k + 1)
             y == source[k + 1].what
  <1>1. N = M \cup {k + 1}
    BY MineNext
  <1>2. \A n \in M : n \in Nat /\ n <= k
    BY DEF Mine
  <1>3. ASSUME NEW x PROVE At(u, w, x) = (At(v, w, x) \ {id}) \cup (IF x = y THEN {id} ELSE {})
    <2>1. source[k + 1] = [who |-> w, what |-> x] <=> x = y
      BY EntryIs
    <2> QED BY <2>1, AtPut
  <1>4. e = Nothing => M = {}
    BY DEF SettledFor
  <1> HIDE DEF M, N, u, y
  <1>5. k + 1 \in N /\ Stays(k + 1, N, conflict)
    <2>1. \A n \in N : n <= k + 1
      BY <1>1, <1>2
    <2>2. e = Nothing => N = {k + 1}
      BY <1>1, <1>4
    <2> QED BY <1>1, <2>1, <2>2 DEF Stays
  <1>6. Replaced(b, u, w, id, y)
    <2>1. CASE e = Nothing
      <3>1. Absent(b, w) /\ Absent(v, w)
        BY <2>1 DEF SettledFor
      <3> QED BY <1>3, <3>1 DEF Absent, Replaced
    <2>2. CASE e = id /\ Untouched(b, v, w)
      BY <1>3, <2>2 DEF Untouched, Replaced
    <2>3. CASE e = id /\ \E z : Replaced(b, v, w, e, z)
      BY <1>3, <2>3 DEF Replaced
    <2> QED BY <2>1, <2>2, <2>3 DEF SettledFor
  <1>7. Absent(b, w) \/ (conflict = "update" /\ Among(b, w, id))
    BY DEF SettledFor
  <1>8. id # Nothing
    BY ImportAssumption
  <1> QED BY <1>5, <1>6, <1>7, <1>8 DEF SettledFor, N, u, y

\* Entries that are equal are finitely many, and counted by Number.
LEMMA AtIsFinite ==
  ASSUME NEW v, NEW w, NEW x
  PROVE  /\ IsFiniteSet(At(v, w, x)) /\ Number(v, w, x) \in Nat
         /\ Number(v, w, x) = Cardinality(At(v, w, x))
         /\ Number(v, w, x) = 0 <=> At(v, w, x) = {}
  <1>1. At(v, w, x) \subseteq EntryIds
    BY DEF At, Ids
  <1>2. IsFiniteSet(At(v, w, x))
    BY <1>1, ImportAssumption, FS_Subset
  <1>3. Number(v, w, x) = Cardinality(At(v, w, x))
    BY DEF At, Number
  <1> QED BY <1>2, <1>3, FS_CardinalityType, FS_EmptySet

\* A duplicate is one entry more of its identity and content.
LEMMA DoubledPut ==
  ASSUME NEW b, NEW v \in VaultType, NEW id \in EntryIds, id \notin Ids(v),
         NEW source, NEW k \in Nat, NEW w, source[k + 1] \in Entries,
         Doubled(b, v, source, k, w)
  PROVE  Doubled(b, [v EXCEPT ![id] = source[k + 1]], source, k + 1, w)
  <1> DEFINE u == [v EXCEPT ![id] = source[k + 1]]
             Same(x, n) == {i \in 1..n : source[i] = [who |-> w, what |-> x]}
  <1>1. ASSUME NEW x \in Contents
        PROVE  Number(u, w, x) = Number(b, w, x) + Cardinality(Same(x, k + 1))
    <2>1. IsFiniteSet(At(v, w, x)) /\ id \notin At(v, w, x)
      BY AtIsFinite DEF At
    <2>2. At(u, w, x) = (At(v, w, x) \ {id})
                          \cup (IF source[k + 1] = [who |-> w, what |-> x] THEN {id} ELSE {})
      BY AtPut
    <2>3. k + 1 \in Nat /\ 1..k + 1 = (1..k) \cup {k + 1} /\ k + 1 \notin 1..k
      OBVIOUS
    <2>4. IsFiniteSet(Same(x, k)) /\ Cardinality(Same(x, k)) \in Nat
      BY PartIsFinite
    <2>5. /\ Number(v, w, x) = Number(b, w, x) + Cardinality(Same(x, k))
          /\ Number(v, w, x) = Cardinality(At(v, w, x)) /\ Number(u, w, x) = Cardinality(At(u, w, x))
          /\ Number(v, w, x) \in Nat /\ Number(b, w, x) \in Nat
      BY AtIsFinite DEF Doubled
    <2>6. CASE source[k + 1] = [who |-> w, what |-> x]
      <3>1. Same(x, k + 1) = Same(x, k) \cup {k + 1} /\ k + 1 \notin Same(x, k)
        BY <2>3, <2>6
      <3>2. At(u, w, x) = At(v, w, x) \cup {id}
        BY <2>1, <2>2, <2>6
      <3> HIDE DEF Same, u
      <3>3. Cardinality(At(u, w, x)) = Cardinality(At(v, w, x)) + 1
        BY <2>1, <3>2, FS_AddElement
      <3>4. Cardinality(Same(x, k + 1)) = Cardinality(Same(x, k)) + 1
        BY <2>4, <3>1, FS_AddElement
      <3> QED BY <2>4, <2>5, <3>3, <3>4
    <2>7. CASE source[k + 1] # [who |-> w, what |-> x]
      <3>1. Same(x, k + 1) = Same(x, k)
        BY <2>3, <2>7
      <3>2. At(u, w, x) = At(v, w, x)
        BY <2>1, <2>2, <2>7
      <3> QED BY <2>5, <3>1, <3>2
    <2> QED BY <2>6, <2>7
  <1> QED BY <1>1 DEF Doubled

\* What the transaction finds when it begins.
LEMMA WholeStart ==
  ASSUME ImportInv, NEW file \in Readable, NEW mode \in {"merge", "replace"},
         NEW conflict \in Conflicts, NEW partial \in BOOLEAN, Start(file, mode, conflict, partial)
  PROVE  WholeInv'
  <1> DEFINE source == file.entries
  <1>0. source \in Seq(Entries)
    BY ImportAssumption DEF Readable, Accepted
  <1> HIDE DEF source
  <1>1. PICK known \in KnownIn(vault) :
          job' = [source |-> source, mode |-> mode, conflict |-> conflict, partial |-> partial,
                  start |-> CheckpointIndex, at |-> CheckpointIndex,
                  counts |-> NoCounts, outcome |-> "created",
                  plan |-> PlanCounts(source, vault, conflict),
                  known |-> IF mode = "replace" THEN NoneKnown ELSE known]
    BY DEF Start, source
  <1>2. /\ phase = "idle" /\ vault' = vault
        /\ tries > 0 => partial
        /\ unsaved' = IF partial THEN Nothing
                      ELSE IF mode = "replace" THEN [e \in EntryIds |-> Nothing] ELSE vault
    BY DEF Start
  <1> SUFFICES ASSUME ~partial, NEW w \in Identities
               PROVE  IF conflict = "duplicate"
                      THEN Doubled(Base', unsaved', source, job'.at, w)
                      ELSE SettledFor(Base', unsaved', job'.known[w], source, job'.at, conflict, w)
    BY <1>1 DEF WholeInv
  <1>3. tries = 0 /\ CheckpointIndex = 0
    BY <1>2 DEF ImportInv, ImportTypes, Position, CheckpointIndex
  <1>4. unsaved' = Base' /\ Base' \in VaultType /\ job'.at = 0
    BY <1>1, <1>2, <1>3 DEF Base, ImportInv, ImportTypes, VaultType
  <1> DEFINE b == Base'
  <1> HIDE DEF b
  <1>5. b \in VaultType /\ unsaved' = b
    BY <1>4 DEF b
  <1>6. Doubled(b, b, source, 0, w)
    <2>1. ASSUME NEW x PROVE {n \in 1..0 : source[n] = [who |-> w, what |-> x]} = {}
      OBVIOUS
    <2>2. Cardinality({}) = 0 /\ \A x : Number(b, w, x) \in Nat
      BY FS_EmptySet, AtIsFinite
    <2> QED BY <2>1, <2>2 DEF Doubled
  <1>7. Untouched(b, b, w) /\ Mine(source, w, 0) = {}
    BY DEF Untouched, Mine
  <1>8. LET same == {e \in Ids(b) : b[e].who = w}
        IN IF same = {} THEN job'.known[w] = Nothing ELSE job'.known[w] \in same
    <2>1. CASE mode = "replace"
      <3>1. Ids(b) = {} /\ job'.known[w] = Nothing
        BY <1>1, <2>1 DEF b, Base, Ids, NoneKnown
      <3> QED BY <3>1
    <2>2. CASE mode # "replace"
      <3>1. b = vault /\ job'.known = known
        BY <1>1, <1>2, <2>2 DEF b, Base
      <3> QED BY <3>1 DEF KnownIn
    <2> QED BY <2>1, <2>2
  <1>9. SettledFor(b, b, job'.known[w], source, 0, conflict, w)
    <2>1. CASE Absent(b, w)
      <3>1. job'.known[w] = Nothing
        BY <1>5, <1>8, <2>1, AmongFacts
      <3> QED BY <1>7, <2>1, <3>1 DEF SettledFor
    <2>2. CASE ~Absent(b, w)
      <3>1. job'.known[w] \in Ids(b) /\ b[job'.known[w]].who = w
        BY <1>5, <1>8, <2>2, AmongFacts
      <3>2. job'.known[w] \in EntryIds /\ job'.known[w] # Nothing
        BY <3>1, ImportAssumption DEF Ids
      <3>3. Among(b, w, job'.known[w])
        BY <1>5, <3>1, <3>2, AmongFacts
      <3> QED BY <1>7, <3>2, <3>3 DEF SettledFor
    <2> QED BY <2>1, <2>2
  <1> QED BY <1>4, <1>6, <1>9 DEF b

\* _apply_one puts the next entry where it belongs.
LEMMA WholeApply == ASSUME ImportInv, WholeInv, Apply PROVE WholeInv'
  <1> SUFFICES ASSUME ~job.partial PROVE WholeInv'
    BY DEF Apply, WholeInv
  <1> DEFINE k == job.at
             source == job.source
             entry == source[k + 1]
             done == ApplyOne(unsaved, entry)
             after == [job EXCEPT !.known = done.known, !.outcome = done.outcome]
             n == Len(job.source) - (k + 1)
  <1>1. /\ phase = "apply" /\ k < Len(source) /\ unsaved' = done.vault /\ vault' = vault
        /\ job' = Counted(after)
    BY DEF Apply
  <1>2. /\ job \in JobType /\ k \in Nat /\ k + 1 \in DOMAIN source
        /\ entry \in Entries /\ entry.who \in Identities
        /\ \A i \in 1..k : source[i] \in Entries
        /\ Len(source) \in Nat /\ unsaved \in VaultType
    <2>1. job \in JobType /\ unsaved \in VaultType
      BY <1>1 DEF ImportInv, ImportTypes
    <2>2. k \in Nat /\ source \in Seq(Entries)
      BY <2>1 DEF JobType
    <2>3. Len(source) \in Nat /\ DOMAIN source = 1..Len(source) /\ \A i \in 1..Len(source) : source[i] \in Entries
      BY <2>2
    <2>4. k + 1 \in DOMAIN source /\ (\A i \in 1..k : source[i] \in Entries)
      BY <1>1, <2>2, <2>3
    <2> QED BY <2>1, <2>2, <2>3, <2>4, EntryIs
  <1>3. n \in Nat /\ Room(unsaved, n + 1)
    <2>1. n \in Nat /\ n + 1 = Len(source) - k
      BY <1>1, <1>2
    <2>2. Room(unsaved, Len(source) - k)
      BY <1>1 DEF ImportInv, HasRoom, Applied, Current
    <2> QED BY <2>1, <2>2
  <1> HIDE DEF k, source, entry, done
  <1>4. /\ EntryIds \ Ids(unsaved) # {} /\ done.outcome \in Outcomes
        /\ done.known \in [Identities -> EntryIds \cup {Nothing}]
    BY <1>2, <1>3, ApplyOneFacts DEF done
  <1>5. /\ job'.known = done.known /\ job'.at = k + 1 /\ job'.source = source
        /\ job'.conflict = job.conflict /\ job'.mode = job.mode /\ job'.partial = job.partial
    <2>1. /\ after \in JobType /\ after.source = job.source /\ after.conflict = job.conflict
          /\ after.partial = job.partial /\ after.at = job.at
          /\ after.mode = job.mode /\ after.known = done.known
      BY <1>2, <1>4 DEF JobType
    <2> HIDE DEF after
    <2> QED BY <1>1, <2>1, CountedFacts DEF k, source
  <1>6. Base' = Base
    BY <1>1, <1>5 DEF Base
  <1> DEFINE seen == job.known[entry.who]
  <1>7. done.outcome = "created" <=> seen = Nothing \/ job.conflict = "duplicate"
    <2>1. job \in JobType /\ unsaved \in VaultType /\ entry \in Entries
      BY <1>2
    <2> HIDE DEF seen
    <2>2. ApplyOne(unsaved, entry).outcome = "created" <=> seen = Nothing \/ job.conflict = "duplicate"
      <3>1. EntryIds \ Ids(unsaved) # {}
        BY <1>4
      <3> QED BY <2>1, <3>1, ApplyOneCases DEF seen
    <2> QED BY <2>2 DEF done
  <1>8. done.outcome = "created" =>
          \E e \in EntryIds \ Ids(unsaved) :
            /\ done.vault = [unsaved EXCEPT ![e] = entry]
            /\ done.known = IF job.conflict = "duplicate" THEN job.known
                            ELSE [job.known EXCEPT ![entry.who] = e]
    BY <1>2, <1>4, ApplyOneCases DEF done
  <1>9. done.outcome = "skipped" =>
          job.conflict = "skip" /\ done.vault = unsaved /\ done.known = job.known
    BY <1>2, <1>4, ApplyOneCases DEF done
  <1>10. done.outcome = "updated" =>
           /\ job.conflict = "update" /\ seen \in EntryIds
           /\ done.vault = [unsaved EXCEPT ![seen] = entry] /\ done.known = job.known
    BY <1>2, <1>4, ApplyOneCases DEF done
  <1>11. \A w \in Identities :
           IF job.conflict = "duplicate"
           THEN Doubled(Base, unsaved, source, k, w)
           ELSE SettledFor(Base, unsaved, job.known[w], source, k, job.conflict, w)
    BY <1>1 DEF WholeInv, source, k
  <1> SUFFICES ASSUME NEW w \in Identities
               PROVE  IF job.conflict = "duplicate"
                      THEN Doubled(Base, done.vault, source, k + 1, w)
                      ELSE SettledFor(Base, done.vault, done.known[w], source, k + 1, job.conflict, w)
    BY <1>1, <1>5, <1>6 DEF WholeInv
  <1>12. PICK b \in VaultType, v \in VaultType, i \in Nat : b = Base /\ v = unsaved /\ i = k
    <2>1. Base \in VaultType
      BY DEF Base, ImportInv, ImportTypes, VaultType
    <2> QED BY <1>2, <2>1
  <1>13. job.known \in [Identities -> EntryIds \cup {Nothing}]
    BY <1>2 DEF JobType
  <1>14. CASE job.conflict = "duplicate"
    <2>1. PICK e \in EntryIds \ Ids(v) : done.vault = [v EXCEPT ![e] = source[i + 1]]
      BY <1>7, <1>8, <1>12, <1>14 DEF entry
    <2>2. Doubled(b, [v EXCEPT ![e] = source[i + 1]], source, i + 1, w)
      BY <1>2, <1>11, <1>12, <1>14, <2>1, DoubledPut DEF entry
    <2> QED BY <1>12, <1>14, <2>1, <2>2
  <1>15. ASSUME job.conflict # "duplicate", NEW e \in EntryIds, done.vault = [v EXCEPT ![e] = source[i + 1]],
                e \notin Ids(v) \/ v[e].who = entry.who, done.known[entry.who] = e,
                w # entry.who => done.known[w] = job.known[w],
                seen = Nothing \/ (e = seen /\ job.conflict = "update")
         PROVE  SettledFor(Base, done.vault, done.known[w], source, k + 1, job.conflict, w)
    <2>0. source[i + 1] \in Entries /\ source[i + 1] = entry
      BY <1>2, <1>12 DEF entry
    <2>1. SettledFor(b, v, job.known[w], source, i, job.conflict, w)
      BY <1>11, <1>12, <1>15
    <2>2. CASE w # entry.who
      <3>1. e \notin Ids(v) \/ v[e].who # w
        BY <1>15, <2>2
      <3>2. SettledFor(b, [v EXCEPT ![e] = source[i + 1]], job.known[w], source, i + 1, job.conflict, w)
        BY <2>0, <2>1, <2>2, <3>1, SettledElsewhere
      <3> QED BY <1>12, <1>15, <2>2, <3>2
    <2>3. CASE w = entry.who
      <3>1. SettledFor(b, [v EXCEPT ![e] = source[i + 1]], e, source, i + 1, job.conflict, w)
        <4>1. \/ job.known[w] = Nothing
              \/ job.known[w] = e /\ job.conflict = "update"
          BY <1>15, <2>3
        <4>2. source[i + 1] \in Entries /\ source[i + 1].who = w
          BY <2>0, <2>3
        <4> QED BY <2>1, <4>1, <4>2, SettledPut
      <3> QED BY <1>12, <1>15, <2>3, <3>1
    <2> QED BY <2>2, <2>3
  <1>16. CASE job.conflict # "duplicate" /\ done.outcome = "created"
    <2>1. PICK e \in EntryIds \ Ids(v) :
            /\ done.vault = [v EXCEPT ![e] = source[i + 1]]
            /\ done.known = [job.known EXCEPT ![entry.who] = e]
      BY <1>8, <1>12, <1>16 DEF entry
    <2>2. done.known[entry.who] = e /\ (w # entry.who => done.known[w] = job.known[w])
      BY <1>2, <1>13, <2>1
    <2> QED BY <1>7, <1>15, <1>16, <2>1, <2>2
  <1>17. CASE job.conflict # "duplicate" /\ done.outcome = "updated"
    <2>1. /\ seen \in EntryIds /\ job.conflict = "update" /\ done.known = job.known
          /\ done.vault = [v EXCEPT ![seen] = source[i + 1]]
      BY <1>10, <1>12, <1>17 DEF entry
    <2>2. SettledFor(b, v, seen, source, i, job.conflict, entry.who)
      BY <1>2, <1>11, <1>12, <1>17
    <2>3. seen # Nothing /\ (\A m \in 1..i : source[m] \in Entries)
      BY <1>2, <1>12, <2>1, ImportAssumption
    <2>4. Among(v, entry.who, seen)
      BY <2>2, <2>3, KnownIsOne
    <2>5. v[seen].who = entry.who
      BY <1>2, <2>1, <2>4, AmongFacts
    <2> QED BY <1>15, <1>17, <2>1, <2>5
  <1>18. CASE job.conflict # "duplicate" /\ done.outcome = "skipped"
    <2>1. job.conflict = "skip" /\ done.vault = v /\ done.known = job.known
      BY <1>9, <1>12, <1>18
    <2>2. SettledFor(b, v, job.known[w], source, i, "skip", w)
      BY <1>11, <1>12, <2>1
    <2>3. job.known[w] # Nothing \/ source[i + 1].who # w
      BY <1>7, <1>12, <1>18 DEF entry
    <2>4. SettledFor(b, v, job.known[w], source, i + 1, "skip", w)
      BY <2>2, <2>3, SettledSkip
    <2> QED BY <1>12, <2>1, <2>4
  <1> QED BY <1>4, <1>14, <1>16, <1>17, <1>18 DEF Outcomes

\* Every step keeps the transaction to the promise of the import.
LEMMA WholeStep == ImportInv /\ WholeInv /\ [ImportNext]_importVars => WholeInv'
  <1> SUFFICES ASSUME ImportInv, WholeInv, [ImportNext]_importVars PROVE WholeInv'
    OBVIOUS
  <1>1. CASE UNCHANGED importVars
    BY <1>1 DEF importVars, WholeInv, Base
  <1>2. CASE phase' # "apply"
    BY <1>2 DEF WholeInv
  <1>3. CASE Announce \/ Commit \/ ClearCheckpoint \/ Record \/ Fail \/ Failed \/ RecordFails \/ ImportCrash
             \/ GiveUp \/ Delete
    BY <1>2, <1>3 DEF Announce, Commit, ClearCheckpoint, Record, Fail, Failed, RecordFails, ImportCrash,
      GiveUp, Delete
  <1>4. CASE Checkpoint
    BY <1>4 DEF Checkpoint, WholeInv, ImportInv, Position
  <1> QED BY <1>1, <1>3, <1>4, WholeStart, WholeApply DEF ImportNext

\* One entry that takes the place of another, or of none, changes two numbers at most.
LEMMA ReplacedNumbers ==
  ASSUME NEW b, NEW v, NEW w, NEW e, NEW what \in Contents, Replaced(b, v, w, e, what)
  PROVE  /\ Absent(b, w) => Single(v, w, what)
         /\ Among(b, w, e) =>
              \E old \in Contents :
                /\ Number(b, w, old) > 0
                /\ \A x \in Contents : Number(v, w, x) + (IF x = old THEN 1 ELSE 0)
                                         = Number(b, w, x) + (IF x = what THEN 1 ELSE 0)
  <1>1. ASSUME Absent(b, w), NEW x \in Contents PROVE Number(v, w, x) = IF x = what THEN 1 ELSE 0
    <2>1. At(v, w, x) = IF x = what THEN {e} ELSE {}
      BY <1>1 DEF Absent, Replaced
    <2>2. Cardinality({e}) = 1 /\ Cardinality({}) = 0
      BY FS_Singleton, FS_EmptySet
    <2>3. Number(v, w, x) = Cardinality(At(v, w, x))
      BY AtIsFinite
    <2> QED BY <2>1, <2>2, <2>3
  <1>2. ASSUME NEW old \in Contents, e \in At(b, w, old)
        PROVE  /\ Number(b, w, old) > 0
               /\ \A x \in Contents : Number(v, w, x) + (IF x = old THEN 1 ELSE 0)
                                        = Number(b, w, x) + (IF x = what THEN 1 ELSE 0)
    <2>1. Number(b, w, old) > 0
      <3>1. Number(b, w, old) \in Nat /\ Number(b, w, old) # 0
        BY <1>2, AtIsFinite
      <3> QED BY <3>1
    <2>2. ASSUME NEW x \in Contents
          PROVE  Number(v, w, x) + (IF x = old THEN 1 ELSE 0) = Number(b, w, x) + (IF x = what THEN 1 ELSE 0)
      <3> DEFINE rest == At(b, w, x) \ {e}
      <3>1. e \in At(b, w, x) <=> x = old
        BY <1>2 DEF At
      <3>2. /\ IsFiniteSet(At(b, w, x)) /\ IsFiniteSet(rest) /\ e \notin rest
            /\ Number(b, w, x) = Cardinality(At(b, w, x)) /\ Number(v, w, x) = Cardinality(At(v, w, x))
            /\ Number(b, w, x) \in Nat /\ Number(v, w, x) \in Nat /\ Cardinality(rest) \in Nat
        BY AtIsFinite, FS_RemoveElement, FS_CardinalityType
      <3>3. Number(b, w, x) = Cardinality(rest) + (IF x = old THEN 1 ELSE 0)
        <4>1. CASE x = old
          BY <3>1, <3>2, <4>1, FS_RemoveElement
        <4>2. CASE x # old
          <5>1. rest = At(b, w, x)
            BY <3>1, <4>2
          <5> QED BY <3>2, <4>2, <5>1
        <4> QED BY <4>1, <4>2
      <3>4. At(v, w, x) = rest \cup (IF x = what THEN {e} ELSE {})
        BY DEF Replaced
      <3> HIDE DEF rest
      <3>5. Number(v, w, x) = Cardinality(rest) + (IF x = what THEN 1 ELSE 0)
        <4>1. CASE x = what
          <5>1. At(v, w, x) = rest \cup {e}
            BY <3>4, <4>1
          <5>2. Cardinality(rest \cup {e}) = Cardinality(rest) + 1
            BY <3>2, FS_AddElement
          <5> QED BY <3>2, <4>1, <5>1, <5>2
        <4>2. CASE x # what
          BY <3>2, <3>4, <4>2
        <4> QED BY <4>1, <4>2
      <3> QED BY <3>2, <3>3, <3>5
    <2> QED BY <2>1, <2>2
  <1> QED BY <1>1, <1>2 DEF Single, Among

\* When all entries are applied, the transaction holds what the import promises.
LEMMA WholePromise ==
  ASSUME ImportInv, WholeInv, phase = "apply", ~job.partial, job.at = Len(job.source), NEW w \in Identities
  PROVE  Promised(vault, unsaved, w)
  <1> DEFINE source == job.source
             mine == {n \in DOMAIN source : source[n].who = w}
             first == CHOOSE n \in mine : \A k \in mine : n <= k
             last == CHOOSE n \in mine : \A k \in mine : n >= k
             Before(x) == IF job.mode = "replace" THEN 0 ELSE Number(vault, w, x)
             none == \A x \in Contents : Before(x) = 0
  <1>1. /\ DOMAIN source = 1..job.at /\ job.at \in Nat /\ job.conflict \in Conflicts
        /\ \A n \in DOMAIN source : source[n] \in Entries
    BY DEF ImportInv, ImportTypes, JobType
  <1>2. mine = Mine(source, w, job.at) /\ \A n \in mine : n \in Nat
    BY <1>1 DEF Mine
  <1>3. ASSUME NEW x PROVE Before(x) = Number(Base, w, x)
    <2>1. CASE job.mode = "replace"
      <3>1. At(Base, w, x) = {}
        BY <2>1 DEF Base, At, Ids
      <3> QED BY <2>1, <3>1, AtIsFinite
    <2>2. CASE job.mode # "replace"
      BY <2>2 DEF Base
    <2> QED BY <2>1, <2>2
  <1> HIDE DEF Before
  <1>4. none <=> Absent(Base, w)
    BY <1>3, AtIsFinite DEF Absent
  <1>5. Promised(vault, unsaved, w) <=>
          IF job.conflict = "duplicate"
          THEN \A x \in Contents :
                 Number(unsaved, w, x) = Before(x) + Cardinality({n \in mine : source[n].what = x})
          ELSE IF mine = {} \/ (~none /\ job.conflict = "skip")
          THEN \A x \in Contents : Number(unsaved, w, x) = Before(x)
          ELSE IF none THEN Single(unsaved, w, IF job.conflict = "skip" THEN source[first].what ELSE source[last].what)
          ELSE \E old \in Contents :
                 /\ Before(old) > 0
                 /\ \A x \in Contents : Number(unsaved, w, x) + (IF x = old THEN 1 ELSE 0)
                                         = Before(x) + (IF x = source[last].what THEN 1 ELSE 0)
    BY DEF Promised, Before
  <1> HIDE DEF none, first, last, mine, source
  <1>6. CASE job.conflict = "duplicate"
    <2>1. Doubled(Base, unsaved, source, job.at, w)
      BY <1>6 DEF WholeInv, source
    <2>2. ASSUME NEW x
          PROVE  {n \in mine : source[n].what = x} = {n \in 1..job.at : source[n] = [who |-> w, what |-> x]}
      <3>1. ASSUME NEW n \in DOMAIN source
            PROVE  source[n] = [who |-> w, what |-> x] <=> source[n].who = w /\ source[n].what = x
        <4>1. PICK entry \in Entries : entry = source[n]
          BY <1>1
        <4>2. entry = [who |-> w, what |-> x] <=> entry.who = w /\ entry.what = x
          BY EntryIs
        <4> QED BY <4>1, <4>2
      <3> QED BY <1>1, <3>1 DEF mine
    <2> QED BY <1>3, <1>5, <1>6, <2>1, <2>2 DEF Doubled
  <1>7. CASE job.conflict # "duplicate"
    <2> DEFINE e == job.known[w]
    <2>1. SettledFor(Base, unsaved, e, source, job.at, job.conflict, w)
      BY <1>7 DEF WholeInv, source
    <2> HIDE DEF e
    <2>2. CASE mine = {} /\ Absent(Base, w) /\ Absent(unsaved, w)
      <3>1. ASSUME NEW x \in Contents PROVE Number(unsaved, w, x) = Before(x)
        BY <1>3, <2>2, AtIsFinite DEF Absent
      <3> QED BY <1>5, <1>7, <2>2, <3>1
    <2>3. CASE (mine = {} \/ job.conflict = "skip") /\ Among(Base, w, e) /\ Untouched(Base, unsaved, w)
      <3>1. ~Absent(Base, w)
        BY <2>3 DEF Absent, Among
      <3>2. ASSUME NEW x \in Contents PROVE Number(unsaved, w, x) = Before(x)
        BY <1>3, <2>3, AtIsFinite DEF Untouched
      <3> QED BY <1>4, <1>5, <1>7, <2>3, <3>1, <3>2
    <2>4. ASSUME \/ Absent(Base, w)
                 \/ job.conflict = "update" /\ Among(Base, w, e),
                 NEW n \in mine, Stays(n, mine, job.conflict), Replaced(Base, unsaved, w, e, source[n].what)
          PROVE  Promised(vault, unsaved, w)
      <3>1. IF job.conflict = "skip" THEN n = first ELSE n = last
        <4>1. CASE job.conflict = "skip"
          <5>1. \A k \in mine : n <= k
            BY <2>4, <4>1 DEF Stays
          <5>2. first \in mine /\ \A k \in mine : first <= k
            BY <5>1 DEF first
          <5> QED BY <1>2, <4>1, <5>1, <5>2
        <4>2. CASE job.conflict # "skip"
          <5>1. \A k \in mine : n >= k
            BY <2>4, <4>2 DEF Stays
          <5>2. last \in mine /\ \A k \in mine : last >= k
            BY <5>1 DEF last
          <5> QED BY <1>2, <4>2, <5>1, <5>2
        <4> QED BY <4>1, <4>2
      <3>2. source[n].what \in Contents
        BY <1>1, EntryIs DEF mine
      <3>3. CASE Absent(Base, w)
        <4>1. Single(unsaved, w, source[n].what)
          BY <2>4, <3>2, <3>3, ReplacedNumbers
        <4> QED BY <1>4, <1>5, <1>7, <2>4, <3>1, <3>3, <4>1
      <3>4. CASE ~Absent(Base, w)
        <4>1. \E old \in Contents :
                /\ Number(Base, w, old) > 0
                /\ \A x \in Contents : Number(unsaved, w, x) + (IF x = old THEN 1 ELSE 0)
                                         = Number(Base, w, x) + (IF x = source[n].what THEN 1 ELSE 0)
          BY <2>4, <3>2, <3>4, ReplacedNumbers
        <4>2. job.conflict = "update" /\ n = last /\ mine # {}
          BY <2>4, <3>1, <3>4
        <4> QED BY <1>3, <1>4, <1>5, <3>4, <4>1, <4>2
      <3> QED BY <3>3, <3>4
    <2> QED BY <1>2, <2>1, <2>2, <2>3, <2>4 DEF SettledFor
  <1> QED BY <1>6, <1>7

\* Unless it is partial, an import changes the vault once and completely, whatever fails, is
\* interrupted or is killed in between: for files and vaults of any size.
THEOREM ImportedWhole == ImportSpec => ImportWhole
  <1> DEFINE OnceAndWhole ==
        ~job.partial /\ phase # "idle" => vault' = vault \/ \A w \in Identities : Promised(vault, vault', w)
  <1>1. ImportInit => WholeInv
    BY DEF ImportInit, WholeInv
  <1>2. ImportInv /\ WholeInv /\ [ImportNext]_importVars => [OnceAndWhole]_importVars
    <2> SUFFICES ASSUME ImportInv, WholeInv, ImportNext, ~job.partial, phase # "idle", vault' # vault
                 PROVE  \A w \in Identities : Promised(vault, vault', w)
      BY DEF importVars
    <2>1. Commit
      BY DEF ImportNext, Start, GiveUp, Delete, Apply, Announce, Checkpoint, ClearCheckpoint, Record, Fail,
        Failed, RecordFails, ImportCrash
    <2>2. phase = "apply" /\ job.at = Len(job.source) /\ vault' = unsaved
      BY <2>1 DEF Commit
    <2> QED BY <2>2, WholePromise
  <1> QED BY <1>1, <1>2, WholeStep, ImportInvariance, PTL DEF ImportSpec, ImportWhole

--------------------------------------------------------------------------------
(* Exporter.  A package that is being written is in the history, and only a *)
(* complete file is about to take its place.                                *)

Writing == {"write", "replace", "discard"}

ExportInv ==
  /\ ExportWhole
  /\ stage = "make" => artifact \in recorded
  /\ stage \in Writing =>
       /\ artifact \in recorded
       /\ temporary \in [package : {artifact}, bytes : {"some", "all"}]
  /\ stage = "replace" => temporary.bytes = "all"

\* Every step of export_to_file, its failures and a kill keep the invariant.
LEMMA ExportStep ==
  ASSUME ExportInv, [ExportNext]_exportVars
  PROVE  ExportInv'
<1> USE DEF ExportInv, ExportWhole, Writing
<1>1. ASSUME NEW selection \in Chosen, NEW sure \in BOOLEAN, NEW key \in BOOLEAN,
             Export(selection, sure, key)
      PROVE  ExportInv'
  BY <1>1 DEF Export
<1>2. CASE Encode
  BY <1>2 DEF Encode
<1>3. CASE MakeTemporary
  BY <1>3 DEF MakeTemporary
<1>4. CASE WriteAll
  BY <1>4 DEF WriteAll
<1>5. CASE Replace
  BY <1>5 DEF Replace
<1>6. CASE Discard
  BY <1>6 DEF Discard
<1>7. CASE ExportCrash
  BY <1>7 DEF ExportCrash
<1>8. CASE UNCHANGED exportVars
  BY <1>8 DEF exportVars
<1>9. QED
  BY <1>1, <1>2, <1>3, <1>4, <1>5, <1>6, <1>7, <1>8 DEF ExportNext

\* At the destination there is what was there before or one complete package that the
\* history knows, wherever export_to_file fails or is killed: for any vault and selection.
THEOREM ExportComplete == ExportSpec => []ExportWhole
<1>1. ExportInit => ExportInv
  BY DEF ExportInit, ExportInv, ExportWhole, Writing
<1>2. ExportInv => ExportWhole
  BY DEF ExportInv
<1>3. QED
  BY <1>1, <1>2, ExportStep, PTL DEF ExportSpec

--------------------------------------------------------------------------------
(* Sharing.  A package that was never delivered was never accepted, and what *)
(* receive_share holds was delivered and has not been saved too often.       *)

\* The row mark_nonce_used leaves for a package.
Marked(p) == [nonce |-> p, expires |-> package[p].expires] \in nonces

PackagesSound ==
  /\ now \in Nat /\ nonces \subseteq [nonce : Packages, expires : Nat]
  /\ share \in [Packages -> Statuses \cup {None}]
  /\ package \in [Packages -> Deliveries \cup {None}]
  /\ handler \in Handlers \cup {None}
  /\ accepted \in [Packages -> Nat] /\ saved \in [Packages -> Nat]
  /\ late \subseteq Packages
  /\ \A p \in Packages :
       /\ accepted[p] <= 1 \/ p \in late
       /\ accepted[p] > 0 /\ now < package[p].expires => Marked(p)
       /\ saved[p] <= accepted[p]
       /\ share[p] = "imported" => saved[p] > 0
       /\ package[p] = None => accepted[p] = 0
       /\ p \notin Foreign /\ package[p] # None => share[p] # None
  /\ handler # None =>
       /\ package[handler.package] # None
       /\ handler.step = "save" => saved[handler.package] < accepted[handler.package]
       /\ handler.step = "status" => saved[handler.package] > 0

ContactsSound ==
  /\ contact \in [Contacts -> ContactRows \cup {None}]
  /\ activeKeys \in [Contacts -> SUBSET Keys] /\ confirmed \in [Contacts -> SUBSET Keys]
  /\ ContactKeySound

\* Each of the four changes of a contact.
LEMMA ContactStep ==
  ASSUME ContactsSound,
         NEW c \in Contacts,
         \/ \E k \in Keys : AddContact(c, k) \/ VerifyContact(c, k) \/ RotateContact(c, k)
         \/ RevokeContact(c)
  PROVE  ContactsSound'
<1> USE SharingAssumption DEF ContactsSound, ContactKeySound, ContactRows, Known
<1>1. ASSUME NEW k \in Keys, AddContact(c, k) PROVE ContactsSound'
  BY <1>1 DEF AddContact
<1>2. ASSUME NEW k \in Keys, VerifyContact(c, k) PROVE ContactsSound'
  <2> DEFINE told == contact[c].verified \/ k = contact[c].key
             row == [key |-> contact[c].key, verified |-> told, revoked |-> contact[c].revoked]
  <2>1. contact[c] \in ContactRows
    BY <1>2 DEF VerifyContact
  <2>2. told \in BOOLEAN
    BY DEF told
  <2>3. row \in ContactRows /\ (row.verified => told)
    BY <2>1, <2>2
  <2>4. contact' = [contact EXCEPT ![c] = row]
    <3>1. [contact[c] EXCEPT !.verified = told] = row
      BY <2>1
    <3>2. QED
      BY <1>2, <2>1, <3>1 DEF VerifyContact
  <2>5. told => contact[c].key \in confirmed[c] \cup {k}
    BY <1>2 DEF VerifyContact
  <2>6. /\ confirmed' = [confirmed EXCEPT ![c] = @ \cup {k}]
        /\ activeKeys' = activeKeys
    BY <1>2 DEF VerifyContact
  <2> HIDE DEF told
  <2>7. QED
    BY <1>2, <2>1, <2>2, <2>3, <2>4, <2>5, <2>6
<1>3. ASSUME NEW k \in Keys, RotateContact(c, k) PROVE ContactsSound'
  BY <1>3 DEF RotateContact
<1>4. CASE RevokeContact(c)
  BY <1>4 DEF RevokeContact
<1>5. QED
  BY <1>1, <1>2, <1>3, <1>4

\* Time passes.
LEMMA TickStep ==
  ASSUME PackagesSound, Tick, UNCHANGED <<share, package, receiveVars>>
  PROVE  PackagesSound'
  BY SharingAssumption DEF PackagesSound, Marked, Tick, Deliveries, receiveVars

\* A package of this vault gets its row, and is delivered or not.
LEMMA ShareEntryStep ==
  ASSUME PackagesSound, contact \in [Contacts -> ContactRows \cup {None}],
         NEW p \in Packages, NEW c \in Contacts, ShareEntry(p, c)
  PROVE  PackagesSound'
<1> USE SharingAssumption
<1>1. contact[c].key \in Keys
  BY DEF ShareEntry, Offered, Usable, Known, ContactRows
<1>2. /\ handler = None /\ handler' = None /\ p \notin Foreign /\ share[p] = None
      /\ share' = [share EXCEPT ![p] = "active"]
      /\ package' \in {package, [package EXCEPT ![p] = [key |-> contact[c].key, expires |-> now + Days]]}
      /\ UNCHANGED <<now, nonces, accepted, late, saved>>
  BY DEF ShareEntry, AddShare, Delivered, receiveVars
<1>3. package[p] = None /\ accepted[p] = 0
  BY <1>2 DEF PackagesSound
<1>4. [key |-> contact[c].key, expires |-> now + Days] \in Deliveries
  BY <1>1 DEF PackagesSound, Deliveries
<1>5. share' \in [Packages -> Statuses \cup {None}] /\ package' \in [Packages -> Deliveries \cup {None}]
  BY <1>2, <1>4 DEF PackagesSound, Statuses
<1>6. /\ \A q \in Packages \ {p} : share'[q] = share[q] /\ package'[q] = package[q]
      /\ share'[p] = "active"
  BY <1>2 DEF PackagesSound
<1>7. \A q \in Packages : accepted'[q] > 0 /\ now' < package'[q].expires => Marked(q)'
  BY <1>2, <1>3, <1>6 DEF PackagesSound, Marked
<1>8. QED
  BY <1>2, <1>3, <1>5, <1>6, <1>7 DEF PackagesSound, Statuses

\* Another vault makes a package, at any time.
LEMMA ForeignStep ==
  ASSUME PackagesSound, NEW p \in Packages, NEW k \in Keys, ForeignShare(p, k)
  PROVE  PackagesSound'
<1> USE SharingAssumption
<1>1. /\ p \in Foreign /\ package[p] = None /\ accepted[p] = 0
      /\ package' = [package EXCEPT ![p] = [key |-> k, expires |-> now + Days]]
      /\ UNCHANGED <<now, nonces, share, handler, accepted, late, saved>>
  BY DEF ForeignShare, receiveVars, PackagesSound
<1>2. package' \in [Packages -> Deliveries \cup {None}]
  BY <1>1 DEF PackagesSound, Deliveries
<1>3. \A q \in Packages \ {p} : package'[q] = package[q]
  BY <1>1 DEF PackagesSound
<1>4. handler # None => handler.package \in Packages \ {p}
  BY <1>1 DEF PackagesSound, Handlers
<1>5. \A q \in Packages : accepted'[q] > 0 /\ now' < package'[q].expires => Marked(q)'
  BY <1>1, <1>3 DEF PackagesSound, Marked
<1>6. QED
  BY <1>1, <1>2, <1>3, <1>4, <1>5 DEF PackagesSound

\* A share is revoked.
LEMMA RevokeShareStep ==
  ASSUME PackagesSound, NEW p \in Packages, RevokeShare(p)
  PROVE  PackagesSound'
  BY SharingAssumption DEF PackagesSound, Marked, RevokeShare, Statuses, receiveVars

\* What comes in: each step of receive_share, and its failures.
LEMMA ReceivingStep ==
  ASSUME PackagesSound,
         \/ \E q \in Packages : Receive(q)
         \/ \E k \in Keys : Decrypt(k)
         \/ Mark \/ SaveReceived \/ SetImported \/ ReceiveFails
  PROVE  PackagesSound'
<1> USE SharingAssumption DEF PackagesSound, Marked, Statuses, Handlers, Deliveries
<1>1. ASSUME NEW q \in Packages, Receive(q) PROVE PackagesSound'
  BY <1>1 DEF Receive, Handed, SetStatusIfLocal
<1>2. ASSUME NEW k \in Keys, Decrypt(k) PROVE PackagesSound'
  BY <1>2 DEF Decrypt, Goes
<1>3. CASE Mark
  <2> DEFINE h == handler.package
  <2>1. h \in Packages /\ handler # None /\ handler.step = "mark" /\ package[h] \in Deliveries
    BY <1>3 DEF Mark, Goes
  <2>2. CASE NonceUsed(h)
    <3>1. /\ nonces' = Kept /\ handler' = None
          /\ UNCHANGED <<now, share, package, accepted, late, saved>>
      BY <1>3, <2>2 DEF Mark, Goes
    <3>2. QED
      BY <3>1 DEF Kept
  <2>3. CASE ~NonceUsed(h)
    <3>1. /\ nonces' = Kept \cup {[nonce |-> h, expires |-> package[h].expires]}
          /\ accepted' = [accepted EXCEPT ![h] = @ + 1]
          /\ late' = IF now >= package[h].expires THEN late \cup {h} ELSE late
          /\ handler' = [handler EXCEPT !.step = "save"]
          /\ UNCHANGED <<now, share, package, saved>>
      BY <1>3, <2>1, <2>3 DEF Mark, Goes, MarkNonce
    <3>2. accepted[h] > 0 => now >= package[h].expires
      <4> DEFINE row == [nonce |-> h, expires |-> package[h].expires]
      <4>1. accepted[h] > 0 /\ now < row.expires => row \in Kept
        BY <2>1 DEF Kept
      <4>2. row \in Kept => NonceUsed(h)
        BY DEF NonceUsed
      <4>3. row.expires = package[h].expires /\ row.expires \in Nat
        BY <2>1
      <4>4. QED
        BY <2>3, <4>1, <4>2, <4>3
    <3>3. handler' \in Handlers /\ handler'.package = h /\ handler'.step = "save" /\ handler' # None
      BY <2>1, <3>1
    <3>4. nonces' \subseteq [nonce : Packages, expires : Nat]
      BY <2>1, <3>1 DEF Kept
    <3>5. \A p \in Packages : p = h \/ (Marked(p) /\ now < package[p].expires) => Marked(p)'
      BY <2>1, <3>1 DEF Kept
    <3>6. QED
      BY <2>1, <3>1, <3>2, <3>3, <3>4, <3>5
  <2>4. QED
    BY <2>2, <2>3
<1>4. CASE SaveReceived
  BY <1>4 DEF SaveReceived, Goes
<1>5. CASE SetImported
  BY <1>5 DEF SetImported, Goes, SetStatusIfLocal
<1>6. CASE ReceiveFails
  BY <1>6 DEF ReceiveFails
<1>7. QED
  BY <1>1, <1>2, <1>3, <1>4, <1>5, <1>6

\* Every step of the specification keeps both halves of the invariant.
LEMMA SharingStep ==
  ASSUME ContactsSound, PackagesSound, [SharingNext]_sharingVars
  PROVE  ContactsSound' /\ PackagesSound'
<1>1. ASSUME UNCHANGED contactVars
      PROVE  ContactsSound'
  BY <1>1 DEF contactVars, ContactsSound, ContactKeySound, Known
<1>2. ASSUME UNCHANGED <<now, nonces, share, package, receiveVars>>
      PROVE  PackagesSound'
  BY <1>2 DEF PackagesSound, Marked, receiveVars
<1>3. contact \in [Contacts -> ContactRows \cup {None}]
  BY DEF ContactsSound
<1>4. CASE ContactsNext
  <2>1. PICK c \in Contacts :
          \/ \E k \in Keys : AddContact(c, k) \/ VerifyContact(c, k) \/ RotateContact(c, k)
          \/ RevokeContact(c)
    BY <1>4 DEF ContactsNext
  <2>2. ContactsSound'
    BY <2>1, ContactStep
  <2>3. QED
    BY <1>2, <1>4, <2>2 DEF ContactsNext
<1>5. CASE Tick /\ UNCHANGED <<contactVars, share, package, receiveVars>>
  BY <1>1, <1>5, TickStep
<1>6. ASSUME NEW p \in Packages, NEW c \in Contacts, ShareEntry(p, c)
      PROVE  ContactsSound' /\ PackagesSound'
  BY <1>1, <1>3, <1>6, ShareEntryStep DEF ShareEntry
<1>7. ASSUME NEW p \in Packages, NEW k \in Keys, ForeignShare(p, k)
      PROVE  ContactsSound' /\ PackagesSound'
  BY <1>1, <1>7, ForeignStep DEF ForeignShare
<1>8. ASSUME NEW p \in Packages, RevokeShare(p)
      PROVE  ContactsSound' /\ PackagesSound'
  BY <1>1, <1>8, RevokeShareStep DEF RevokeShare
<1>9. CASE \/ \E q \in Packages : Receive(q)
           \/ \E k \in Keys : Decrypt(k)
           \/ Mark \/ SaveReceived \/ SetImported \/ ReceiveFails
  <2>1. UNCHANGED contactVars
    BY <1>9 DEF Receive, Decrypt, Mark, SaveReceived, SetImported, ReceiveFails
  <2>2. QED
    BY <1>1, <1>9, <2>1, ReceivingStep
<1>10. CASE UNCHANGED sharingVars
  BY <1>1, <1>2, <1>10 DEF sharingVars
<1>11. QED
  BY <1>4, <1>5, <1>6, <1>7, <1>8, <1>9, <1>10 DEF SharingNext

\* Before anything happens there is neither contact nor package.
LEMMA SharingStart ==
  ASSUME NoncesInit, SharingInit
  PROVE  ContactsSound /\ PackagesSound
<1>1. ContactsSound
  BY DEF SharingInit, ContactsSound, ContactKeySound, Known
<1>2. PackagesSound
  BY SharingAssumption DEF NoncesInit, SharingInit, PackagesSound, Marked, Statuses
<1>3. QED
  BY <1>1, <1>2

LEMMA SharingInvariant == SharingSpec => [](ContactsSound /\ PackagesSound)
  BY SharingStart, SharingStep, PTL DEF SharingSpec

\* A package is accepted once, unless it expired while it was being decrypted, saved at most
\* as often, and a share counts as imported only when it was saved: for any packages and any
\* time they are valid for, whatever fails.
THEOREM AcceptedOnce == SharingSpec => []NoReplay
<1>1. ASSUME PackagesSound, NEW p \in Packages, accepted[p] > 0, now < package[p].expires
      PROVE  NonceUsed(p)
  <2> DEFINE row == [nonce |-> p, expires |-> package[p].expires]
  <2>1. row \in nonces /\ row.expires > now
    BY <1>1, SharingAssumption DEF PackagesSound, Marked, Deliveries
  <2>2. QED
    BY <2>1 DEF NonceUsed, Kept
<1>2. PackagesSound => NoReplay
  BY <1>1 DEF PackagesSound, NoReplay
<1>3. QED
  BY <1>2, SharingInvariant, PTL

\* The two tables agree on the key of every contact, and a contact counts as verified only
\* if its present key was confirmed: for any contacts and keys.
THEOREM ContactsAgree == SharingSpec => []ContactKeySound
<1>1. ContactsSound => ContactKeySound
  BY DEF ContactsSound
<1>2. QED
  BY <1>1, SharingInvariant, PTL

\* Every variable of the exchange keeps its type: for any contacts, keys and packages.
THEOREM SharingTypeCorrect == SharingSpec => []SharingTypeOK
<1>1. ContactsSound /\ PackagesSound => SharingTypeOK
  BY DEF ContactsSound, PackagesSound, SharingTypeOK
<1>2. QED
  BY <1>1, SharingInvariant, PTL


--------------------------------------------------------------------------------
(* QRCode.  An envelope that was opened is remembered as long as it can be *)
(* opened.                                                                 *)

QRInv ==
  /\ now \in Nat
  /\ made \in [Envelopes -> Nat] /\ opened \in [Envelopes -> Nat]
  /\ \A e \in Envelopes \cap opening : made[e] > 0
  /\ \A e \in Envelopes :
       opened[e] >= 1 =>
         /\ made[e] > 0
         /\ \/ e \in overdue
            \/ made[e] <= now
            \/ opened[e] = 1 /\ [nonce |-> e, expires |-> made[e]] \in nonces
  /\ OpenedOnce

\* Every step of the exchange by QR codes keeps the invariant, whatever is decoded.
LEMMA QRStep ==
  ASSUME QRInv, [QRNext]_<<now, nonces, qrVars>>
  PROVE  QRInv'
  <1> USE DEF QRInv, OpenedOnce
  <1>1. CASE UNCHANGED <<now, nonces, qrVars>>
    BY <1>1 DEF qrVars
  <1>2. CASE Tick /\ UNCHANGED qrVars
    BY <1>2 DEF Tick, qrVars
  <1>3. ASSUME NEW e \in Envelopes, CreatePayload(e) PROVE QRInv'
    <2>1. /\ made[e] = 0 /\ made' = [made EXCEPT ![e] = now + Validity]
          /\ UNCHANGED <<now, nonces, frames, opening, opened, overdue>>
      BY <1>3 DEF CreatePayload
    <2>2. now + Validity \in Nat
      BY QRAssumption
    <2>3. made' \in [Envelopes -> Nat] /\ \A f \in Envelopes : f # e => made'[f] = made[f]
      BY <2>1, <2>2
    <2>4. opened[e] = 0 /\ e \notin opening
      <3>1. ~(made[e] > 0) /\ opened[e] \in Nat
        BY <2>1
      <3>2. ~(opened[e] >= 1) /\ e \notin opening
        BY <1>3, <3>1
      <3> QED BY <3>1, <3>2
    <2>5. \A f \in Envelopes \cap opening' : made'[f] > 0
      BY <2>1, <2>3, <2>4
    <2>6. ASSUME NEW f \in Envelopes, opened'[f] >= 1 PROVE f # e /\ made'[f] = made[f] /\ opened[f] >= 1
      BY <2>1, <2>3, <2>4, <2>6
    <2> QED BY <2>1, <2>3, <2>5, <2>6
  <1>4. ASSUME NEW c \in Codings, Scan(c) PROVE QRInv'
    BY <1>4 DEF Scan
  <1>5. CASE Open
    BY <1>5 DEF Open
  <1>6. CASE MarkOpened
    <2> DEFINE e == CHOOSE x \in opening : TRUE
    <2>1. e \in opening /\ opening' = {} /\ UNCHANGED <<now, made>>
      BY <1>6 DEF MarkOpened
    <2> HIDE DEF e
    <2>2. CASE NonceUsed(e)
      BY <1>6, <2>1, <2>2 DEF MarkOpened, Kept, e
    <2>3. CASE ~NonceUsed(e)
      <3>1. /\ nonces' = Kept \cup {[nonce |-> e, expires |-> made[e]]}
            /\ opened' = IF Permitted(e) THEN [opened EXCEPT ![e] = opened[e] + 1] ELSE opened
            /\ overdue' = IF made[e] <= now THEN overdue \cup {e} ELSE overdue
        BY <1>6, <2>3 DEF MarkOpened, MarkNonce, e
      <3>2. \A n : [nonce |-> e, expires |-> n] \in nonces => n <= now \/ ~(n \in Nat)
        BY <2>3 DEF NonceUsed, Kept
      <3>3. ASSUME NEW f \in Envelopes, f # e, opened[f] >= 1
            PROVE  \/ f \in overdue' \/ made[f] <= now
                   \/ opened[f] = 1 /\ [nonce |-> f, expires |-> made[f]] \in nonces'
        BY <3>1, <3>3 DEF Kept
      <3>4. opened' \in [Envelopes -> Nat] /\ \A f \in Envelopes : f # e => opened'[f] = opened[f]
        <4>1. e \in Envelopes => opened[e] + 1 \in Nat
          OBVIOUS
        <4>2. \A n : (e \in Envelopes => n \in Nat) => [opened EXCEPT ![e] = n] \in [Envelopes -> Nat]
          OBVIOUS
        <4> QED BY <3>1, <4>1, <4>2
      <3>5. ASSUME e \in Envelopes
            PROVE  /\ opened'[e] = opened[e] + 1 /\ e \notin Unsafe
                   \/ opened'[e] = opened[e]
        BY <3>1, <3>5 DEF Permitted
      <3>6. ASSUME e \in Envelopes PROVE opened[e] >= 1 => e \in overdue \/ made[e] <= now
        BY <3>2, <3>6
      <3> QED BY <2>1, <3>1, <3>3, <3>4, <3>5, <3>6
    <2> QED BY <2>2, <2>3
  <1> QED BY <1>1, <1>2, <1>3, <1>4, <1>5, <1>6 DEF QRNext

\* An envelope is opened at most once, unless it expired while it was opened, and never one of
\* a kind that is not permitted.
THEOREM EnvelopeOnce == QRSpec => []OpenedOnce
  <1>1. QRInit /\ NoncesInit => QRInv
    BY DEF QRInit, NoncesInit, QRInv, OpenedOnce
  <1>2. QRInv => OpenedOnce
    BY DEF QRInv
  <1> QED BY <1>1, <1>2, QRStep, PTL DEF QRSpec

--------------------------------------------------------------------------------
(* QRCode.  The loop over a list of frames, and what a list is put together *)
(* to.                                                                      *)

\* The order of the natural numbers is well-founded, and so a set that has 0 and with a number
\* the next one has them all: induction for the sets below.
LEMMA NatOrderFounded == IsWellFoundedOn({ss \in Nat \X Nat : ss[1] < ss[2]}, Nat)
  BY NatLessThanWellFounded DEF OpToRel

LEMMA AllNumbers ==
  ASSUME NEW S, 0 \in S, \A n \in Nat : n \in S => n + 1 \in S
  PROVE  Nat \subseteq S
  <1> DEFINE R == {ss \in Nat \X Nat : ss[1] < ss[2]}
             T == Nat \ S
  <1>1. SUFFICES ASSUME T # {} PROVE FALSE
    OBVIOUS
  <1>2. PICK x \in T : \A y \in T : ~ (<<y, x>> \in R)
    <2>1. T \in SUBSET Nat
      OBVIOUS
    <2> HIDE DEF R, T
    <2> QED BY <1>1, <2>1, NatOrderFounded, WFMin DEF R
  <1>3. x \in Nat /\ x # 0 /\ x - 1 \in Nat
    OBVIOUS
  <1>4. x - 1 \in S
    <2>1. <<x - 1, x>> \in R
      BY <1>3
    <2> QED BY <1>2, <1>3, <2>1
  <1>5. (x - 1) + 1 \in S
    BY <1>3, <1>4
  <1> QED BY <1>3, <1>5

\* The loop of decode_chunks, with what it reads first and from each further frame.
Loop(g, list, m) == [n \in 0..m |-> IF n = 0 THEN NothingRead ELSE TakeFrame(g[n - 1], list[n])]

\* Its recursive definition defines something.
LEMMA LoopDefined ==
  ASSUME NEW list, Len(list) \in Nat
  PROVE  /\ ReadUpTo(list)[0] = NothingRead
         /\ \A n \in 0..Len(list) : n > 0 => ReadUpTo(list)[n] = TakeFrame(ReadUpTo(list)[n - 1], list[n])
  <1> DEFINE S == {m \in Nat : \E g : g = Loop(g, list, m)}
  <1>1. 0 \in S
    <2> DEFINE g == [n \in 0..0 |-> NothingRead]
    <2>1. g = Loop(g, list, 0)
      BY DEF Loop
    <2> QED BY <2>1
  <1>2. ASSUME NEW m \in Nat, m \in S PROVE m + 1 \in S
    <2>1. PICK g : g = Loop(g, list, m)
      BY <1>2
    <2> DEFINE h == [n \in 0..(m + 1) |-> IF n <= m THEN g[n] ELSE TakeFrame(g[m], list[m + 1])]
    <2>2. \A n \in 0..m : g[n] = IF n = 0 THEN NothingRead ELSE TakeFrame(g[n - 1], list[n])
      BY <2>1 DEF Loop
    <2>3. ASSUME NEW n \in 0..(m + 1)
          PROVE  h[n] = IF n = 0 THEN NothingRead ELSE TakeFrame(h[n - 1], list[n])
      <3>1. CASE n <= m
        <4>1. n \in 0..m /\ h[n] = g[n] /\ (n # 0 => n - 1 \in 0..(m + 1) /\ n - 1 <= m)
          BY <3>1
        <4>2. n # 0 => h[n - 1] = g[n - 1]
          BY <4>1
        <4> HIDE DEF h
        <4> QED BY <2>2, <4>1, <4>2
      <3>2. CASE n = m + 1
        <4>1. m \in 0..(m + 1) /\ n # 0 /\ n - 1 = m /\ ~(n <= m)
          BY <3>2
        <4>2. h[m] = g[m] /\ h[n] = TakeFrame(g[m], list[m + 1])
          BY <4>1
        <4> HIDE DEF h
        <4> QED BY <3>2, <4>1, <4>2
      <3>3. n <= m \/ n = m + 1
        OBVIOUS
      <3> QED BY <3>1, <3>2, <3>3
    <2>4. h = Loop(h, list, m + 1)
      <3>1. h = [n \in 0..(m + 1) |-> h[n]]
        OBVIOUS
      <3> HIDE DEF h
      <3> QED BY <2>3, <3>1 DEF Loop
    <2> HIDE DEF h
    <2> QED BY <2>4
  <1>3. Len(list) \in S
    <2> HIDE DEF S
    <2> QED BY <1>1, <1>2, AllNumbers
  <1>4. PICK g : g = Loop(g, list, Len(list))
    BY <1>3
  <1>5. ReadUpTo(list) = CHOOSE f : f = Loop(f, list, Len(list))
    BY DEF ReadUpTo, Loop
  <1>6. ReadUpTo(list) = Loop(ReadUpTo(list), list, Len(list))
    BY <1>4, <1>5
  <1> QED BY <1>6 DEF Loop

AllFrames == UNION {FramesOf(c) : c \in Codings}

\* What the loop has read of the first n frames: all of them, from the first one on, as long as it went well; and it did if
\* they are intact and of one coding.
FirstFrames(list, n) == {list[i] : i \in 1..n}
Alike(F, c) == \A f \in F : f.intact /\ f.coding = c
ReadRightly(read, list, n) ==
  /\ read.ok => /\ read.parts = FirstFrames(list, n) /\ \A f \in read.parts : f.intact
                /\ n = 0 => read.first = {}
                /\ n > 0 => read.first = {list[1]}
  /\ (\E c \in Codings : Alike(FirstFrames(list, n), c)) => read.ok

LEMMA LoopReads ==
  ASSUME NEW list \in Seq(AllFrames)
  PROVE  ReadRightly(Read(list), list, Len(list))
  <1> DEFINE S == {n \in Nat : n <= Len(list) => ReadRightly(ReadUpTo(list)[n], list, n)}
  <1>1. Len(list) \in Nat /\ \A i \in 1..Len(list) : list[i] \in AllFrames
    OBVIOUS
  <1>2. 0 \in S
    <2>1. FirstFrames(list, 0) = {}
      BY DEF FirstFrames
    <2>2. ReadRightly(NothingRead, list, 0)
      BY <2>1 DEF ReadRightly, NothingRead
    <2> QED BY <1>1, <2>2, LoopDefined
  <1>3. ASSUME NEW n \in Nat, n \in S, n + 1 <= Len(list) PROVE ReadRightly(ReadUpTo(list)[n + 1], list, n + 1)
    <2>1. PICK r, f : r = ReadUpTo(list)[n] /\ f = list[n + 1]
      OBVIOUS
    <2>2. ReadRightly(r, list, n)
      BY <1>1, <1>3, <2>1
    <2>3. ReadUpTo(list)[n + 1] = TakeFrame(r, f)
      <3>1. n + 1 \in 0..Len(list) /\ n + 1 > 0 /\ (n + 1) - 1 = n
        BY <1>1, <1>3
      <3> QED BY <1>1, <2>1, <3>1, LoopDefined
    <2>4. FirstFrames(list, n + 1) = FirstFrames(list, n) \cup {f}
      BY <2>1 DEF FirstFrames
    <2>5. n = 0 \/ n > 0
      OBVIOUS
    <2> DEFINE taken == r.ok /\ f.intact /\ Belongs(r, f) /\ ~Disagrees(r, f)
    <2>6. CASE taken
      <3>1. PICK read : read = TakeFrame(r, f)
        OBVIOUS
      <3>2. read.ok /\ read.parts = r.parts \cup {f} /\ read.first = IF r.first = {} THEN {f} ELSE r.first
        BY <2>6, <3>1 DEF TakeFrame
      <3>3. r.parts = FirstFrames(list, n) /\ (\A g \in r.parts : g.intact) /\ r.first = IF n = 0 THEN {} ELSE {list[1]}
        <4>1. (n = 0 => r.first = {}) /\ (n > 0 => r.first = {list[1]}) /\ r.parts = FirstFrames(list, n) /\ \A g \in r.parts : g.intact
          BY <2>2, <2>6 DEF ReadRightly
        <4>2. r.first = IF n = 0 THEN {} ELSE {list[1]}
          BY <2>5, <4>1
        <4> QED BY <4>1, <4>2
      <3>4. read.first = {list[1]}
        BY <2>1, <3>2, <3>3
      <3>5. read.parts = FirstFrames(list, n + 1) /\ \A g \in read.parts : g.intact
        BY <2>4, <2>6, <3>2, <3>3
      <3>6. n + 1 > 0 /\ n + 1 # 0
        OBVIOUS
      <3> QED BY <2>3, <3>1, <3>2, <3>4, <3>5, <3>6 DEF ReadRightly
    <2>7. CASE ~taken
      <3>1. ~TakeFrame(r, f).ok
        BY <2>7 DEF TakeFrame, Refused
      <3>2. ASSUME NEW c \in Codings, Alike(FirstFrames(list, n + 1), c) PROVE FALSE
        <4>1. Alike(FirstFrames(list, n), c) /\ f.intact /\ f.coding = c
          BY <2>4, <3>2 DEF Alike
        <4>2. r.ok /\ r.parts = FirstFrames(list, n)
          BY <2>2, <4>1 DEF ReadRightly
        <4>3. r.first \subseteq r.parts
          <5>1. n > 0 => list[1] \in FirstFrames(list, n)
            BY DEF FirstFrames
          <5>2. (n = 0 => r.first = {}) /\ (n > 0 => r.first = {list[1]})
            BY <2>2, <4>2 DEF ReadRightly
          <5> QED BY <2>5, <4>2, <5>1, <5>2
        <4>4. \A g \in r.parts : g.coding = c
          BY <4>1, <4>2 DEF Alike
        <4>5. Belongs(r, f)
          BY <4>1, <4>3, <4>4 DEF Belongs, Id
        <4>6. ~Disagrees(r, f)
          BY <4>1, <4>4 DEF Disagrees, Data
        <4> QED BY <2>7, <4>1, <4>2, <4>5, <4>6
      <3> QED BY <2>3, <3>1, <3>2 DEF ReadRightly
    <2> QED BY <2>6, <2>7
  <1>4. \A n \in Nat : n \in S => n + 1 \in S
    BY <1>1, <1>3
  <1>5. Len(list) \in S
    <2> HIDE DEF S
    <2> QED BY <1>1, <1>2, <1>4, AllNumbers
  <1> QED BY <1>1, <1>5 DEF Read

\* In any order and with any repetitions, the frames of one coding that are all there give its envelope, and nothing else does.
LEMMA DecodeSound ==
  ASSUME NEW list \in Seq(AllFrames)
  PROVE  Decode(list) =
           {c.envelope : c \in
              {d \in Codings : \A f \in ToSet(list) : f.intact /\ f.coding = d} \cap
              {d \in Codings : {f.index : f \in ToSet(list)} = 1..d.total}}
  <1> DEFINE read == Read(list)
             F == ToSet(list)
             Sound(c) == Alike(F, c) /\ {f.index : f \in F} = 1..c.total
  <1>1. Len(list) \in Nat /\ F = FirstFrames(list, Len(list)) /\ F \subseteq AllFrames
    BY DEF ToSet, FirstFrames
  <1>2. ReadRightly(read, list, Len(list))
    BY LoopReads
  <1>3. \A f \in F : f.coding \in Codings
    BY <1>1 DEF AllFrames, FramesOf
  <1>4. Len(list) > 0 => list[1] \in F
    BY <1>1 DEF FirstFrames
  <1>5. Len(list) = 0 => F = {}
    BY <1>1 DEF FirstFrames
  <1> HIDE DEF read, F
  <1>6. ASSUME NEW c \in Codings, Sound(c) PROVE Decode(list) = {c.envelope}
    <2>1. 1 \in 1..c.total
      BY QRAssumption
    <2>2. F # {} /\ Len(list) > 0
      BY <1>1, <1>5, <1>6, <2>1
    <2>3. read.ok /\ read.parts = F /\ read.first = {list[1]} /\ list[1] \in F
      BY <1>1, <1>2, <1>4, <1>6, <2>2 DEF ReadRightly
    <2>4. \A f \in F : f.coding = c
      BY <1>6 DEF Alike
    <2>5. Complete(read) /\ HashAgrees(read)
      BY <1>6, <2>3, <2>4 DEF Complete, HashAgrees
    <2>6. {Id(f) : f \in read.parts} = {c.envelope}
      BY <2>2, <2>3, <2>4 DEF Id
    <2> QED BY <2>3, <2>5, <2>6 DEF Decode, read
  <1>7. ASSUME Decode(list) # {} PROVE \E c \in Codings : Sound(c)
    <2>1. read.ok /\ Complete(read) /\ HashAgrees(read)
      BY <1>7 DEF Decode, read
    <2>2. PICK g \in read.first : {f.index : f \in read.parts} = 1..g.coding.total
      BY <2>1 DEF Complete
    <2>3. Len(list) > 0 /\ read.parts = F /\ g = list[1] /\ g \in F /\ \A f \in F : f.intact
      BY <1>1, <1>2, <1>4, <2>1, <2>2 DEF ReadRightly
    <2>4. \A f \in F : f.coding = g.coding
      BY <2>1, <2>3 DEF HashAgrees
    <2>5. Sound(g.coding)
      BY <2>2, <2>3, <2>4 DEF Alike
    <2> QED BY <1>3, <2>3, <2>5
  <1>8. \A c, d \in Codings : Sound(c) /\ Sound(d) => c = d
    <2> SUFFICES ASSUME NEW c \in Codings, NEW d \in Codings, Sound(c), Sound(d) PROVE c = d
      OBVIOUS
    <2>1. 1 \in 1..c.total
      BY QRAssumption
    <2>2. PICK f \in F : TRUE
      BY <2>1
    <2> QED BY <2>2 DEF Alike
  <1>9. Decode(list) = {c.envelope : c \in {d \in Codings : Sound(d)}}
    <2>1. CASE \E c \in Codings : Sound(c)
      <3>1. PICK c \in Codings : Sound(c)
        BY <2>1
      <3>2. {d \in Codings : Sound(d)} = {c}
        <4> HIDE DEF Sound
        <4> QED BY <1>8, <3>1
      <3>3. {d.envelope : d \in {c}} = {c.envelope}
        OBVIOUS
      <3> QED BY <1>6, <3>1, <3>2, <3>3
    <2>2. CASE ~\E c \in Codings : Sound(c)
      <3>1. {d \in Codings : Sound(d)} = {}
        BY <2>2
      <3>2. Decode(list) = {}
        BY <1>7, <2>2
      <3> HIDE DEF Sound
      <3> QED BY <3>1, <3>2
    <2> QED BY <2>1, <2>2
  <1>10. {d \in Codings : Sound(d)} = {d \in Codings : \A f \in F : f.intact /\ f.coding = d} \cap
                                     {d \in Codings : {f.index : f \in F} = 1..d.total}
    BY DEF Alike
  <1> QED BY <1>9, <1>10 DEF F

\* For any codings, any lists of frames and any time they are valid for: what a list is put together to is exactly what it
\* was cut from.
THEOREM FramesPutTogether == QRSpec => []FramesSound
  <1> DEFINE Scanned == frames \in Seq(AllFrames)
  <1>1. QRInit => Scanned
    BY DEF QRInit
  <1>2. ASSUME Scanned, [QRNext]_<<now, nonces, qrVars>> PROVE Scanned'
    <2>1. ASSUME NEW c \in Codings, Scan(c) PROVE Scanned'
      <3>1. PICK f \in FramesOf(c) : frames' = Append(frames, f)
        BY <2>1 DEF Scan
      <3>2. f \in AllFrames
        BY DEF AllFrames
      <3> QED BY <1>2, <3>1, <3>2
    <2>2. << >> \in Seq(AllFrames)
      OBVIOUS
    <2>3. UNCHANGED frames \/ frames' = << >> => Scanned'
      BY <1>2, <2>2
    <2>4. CASE UNCHANGED <<now, nonces, qrVars>>
      BY <2>3, <2>4 DEF qrVars
    <2>5. CASE Tick /\ UNCHANGED qrVars
      BY <2>3, <2>5 DEF qrVars
    <2>6. ASSUME NEW e, CreatePayload(e) PROVE Scanned'
      BY <2>3, <2>6 DEF CreatePayload
    <2>7. CASE Open \/ MarkOpened
      BY <2>3, <2>7 DEF Open, MarkOpened
    <2> QED BY <1>2, <2>1, <2>4, <2>5, <2>6, <2>7 DEF QRNext
  <1>3. Scanned => FramesSound
    BY DecodeSound DEF FramesSound
  <1> QED BY <1>1, <1>2, <1>3, PTL DEF QRSpec
================================================================================
