-------------------------------- MODULE Exporter --------------------------------
(***************************************************************************)
(* VaultExporter.export_to_file: the chosen entries are encoded, recorded  *)
(* as exported, and only then written: to a temporary file beside the      *)
(* destination, which replaces it when it is complete.                     *)
(***************************************************************************)
EXTENDS Naturals, FiniteSets

CONSTANTS
  Chosen,     \* what a user may select: sets of entries
  Stored,     \* the entries there are
  Nowhere     \* no file, no export

VARIABLES
  target,     \* the package at the destination, or Nowhere
  temporary,  \* the file beside it: [package, bytes], bytes in {"some", "all", "zeros"}
  stage,      \* where export_to_file is
  artifact,   \* the package in memory: the selected entries
  recorded,   \* packages in the history
  litter      \* history: temporary files no one will remove

exportVars == <<target, temporary, stage, artifact, recorded, litter>>

ExportInit ==
  /\ target = Nowhere /\ temporary = Nowhere
  /\ stage = "idle" /\ artifact = Nowhere
  /\ recorded = {} /\ litter = {}

\* _select_entries: an entry that no longer exists refuses the export.
Selectable(selection) == selection \subseteq Stored

\* _confirm, a key for the package, and the selection: each may refuse, and nothing happens.
Export(selection, confirmed, key) ==
  /\ stage = "idle"
  /\ confirmed /\ key
  /\ Selectable(selection)
  /\ artifact' = selection
  /\ stage' = "encode"
  /\ UNCHANGED <<target, temporary, recorded, litter>>

\* Filtering, encoding, compressing and encrypting, with the entry in the history at the
\* end; before that panic may interrupt.
Encode ==
  /\ stage = "encode"
  /\ \/ recorded' = recorded \cup {artifact} /\ stage' = "make" /\ UNCHANGED artifact
     \/ stage' = "idle" /\ artifact' = Nowhere /\ UNCHANGED recorded
  /\ UNCHANGED <<target, temporary, litter>>

\* The audit entry after it may fail, too: the export fails though it is in the history.
MakeTemporary ==
  /\ stage = "make"
  /\ \/ /\ temporary' = [package |-> artifact, bytes |-> "some"]
        /\ stage' = "write" /\ UNCHANGED artifact
     \/ stage' = "idle" /\ artifact' = Nowhere /\ UNCHANGED temporary
  /\ UNCHANGED <<target, recorded, litter>>

\* A slip: the file takes its place before it is complete.
WriteLate ==
  /\ stage = "write"
  /\ \/ stage' = "replace" \/ stage' = "discard"
  /\ UNCHANGED <<target, temporary, artifact, recorded, litter>>

\* write, flush, fsync: the disk may be full.
WriteAll ==
  /\ stage = "write"
  /\ \/ temporary' = [temporary EXCEPT !.bytes = "all"] /\ stage' = "replace"
     \/ stage' = "discard" /\ UNCHANGED temporary
  /\ UNCHANGED <<target, artifact, recorded, litter>>

\* os.replace
Replace ==
  /\ stage = "replace"
  /\ \/ /\ target' = temporary /\ temporary' = Nowhere
        /\ stage' = "idle" /\ artifact' = Nowhere
     \/ stage' = "discard" /\ UNCHANGED <<target, temporary, artifact>>
  /\ UNCHANGED <<recorded, litter>>

\* The finally branch: the temporary file is overwritten, then removed; either may fail.
Discard ==
  /\ stage = "discard"
  /\ temporary' = Nowhere
  /\ litter' \in {litter} \cup {litter \cup {bytes} : bytes \in {temporary.bytes, "zeros"}}
  /\ stage' = "idle" /\ artifact' = Nowhere
  /\ UNCHANGED <<target, recorded>>

ExportCrash ==
  /\ stage # "idle"
  /\ stage' = "idle" /\ artifact' = Nowhere
  /\ litter' = IF temporary = Nowhere THEN litter ELSE litter \cup {temporary.bytes}
  /\ temporary' = Nowhere
  /\ UNCHANGED <<target, recorded>>

ExportNext ==
  \/ \E selection \in Chosen, confirmed, key \in BOOLEAN : Export(selection, confirmed, key)
  \/ Encode \/ MakeTemporary \/ WriteAll \/ Replace \/ Discard \/ ExportCrash

ExportSpec == ExportInit /\ [][ExportNext]_exportVars

--------------------------------------------------------------------------------

\* At the destination there is always what was there before, or one complete package that
\* is in the history, wherever the export fails or is killed.
ExportWhole == target # Nowhere => target.bytes = "all" /\ target.package \in recorded
================================================================================
