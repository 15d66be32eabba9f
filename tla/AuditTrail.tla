------------------------------- MODULE AuditTrail -------------------------------
(***************************************************************************)
(* What the audit log promises, whatever keys, anchors and threads it is   *)
(* made of: an append-only trail.  An entry is sealed when it is recorded, *)
(* or recorded unsealed while no key is at hand and sealed later, in the   *)
(* order of the trail; a sealed entry never changes.                       *)
(***************************************************************************)
EXTENDS Naturals, Sequences

CONSTANTS Seals,     \* the keys an entry can be sealed with
          Unsealed   \* the mark of an entry that waits for its seal

VARIABLE trail       \* the seal of every entry, in order

TInit == trail = <<>>

AllSealed == \A i \in DOMAIN trail : trail[i] # Unsealed

\* One entry is added at the end and nothing else changes.
Extended == Len(trail') = Len(trail) + 1 /\ SubSeq(trail', 1, Len(trail)) = trail

\* An entry is sealed on the spot only when none is left waiting before it.
Record == AllSealed /\ Extended /\ trail'[Len(trail')] \in Seals

\* Nobody holds a key.
Defer == Extended /\ trail'[Len(trail')] = Unsealed

\* The first entry that waits gets its seal.
Seal == \E i \in DOMAIN trail :
          /\ trail[i] = Unsealed
          /\ \A j \in 1..(i - 1) : trail[j] # Unsealed
          /\ trail' = [trail EXCEPT ![i] = trail'[i]]
          /\ trail'[i] \in Seals

TNext == Record \/ Defer \/ Seal

TSpec == TInit /\ [][TNext]_trail
=================================================================================
