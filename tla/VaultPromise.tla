------------------------------ MODULE VaultPromise ------------------------------
(***************************************************************************)
(* What the vault promises its user: entries that are added, changed, moved*)
(* to the deleted ones or erased, one at a time and as a whole.  There is  *)
(* no key here and no transaction; a change of the master password, a lock,*)
(* a failure and a crash are no steps of it.                               *)
(***************************************************************************)
CONSTANTS Ids, Values, Absent

VARIABLES
  content,  \* the value of each entry, or Absent
  trash     \* the same for deleted entries

vars == <<content, trash>>

Init ==
  /\ content = [i \in Ids |-> Absent]
  /\ trash = [i \in Ids |-> Absent]

\* A new entry, or a new value of one.
Put(i, v) ==
  /\ trash[i] = Absent
  /\ content' = [content EXCEPT ![i] = v]
  /\ UNCHANGED trash

Delete(i) ==
  /\ content[i] # Absent
  /\ content' = [content EXCEPT ![i] = Absent]
  /\ trash' = [trash EXCEPT ![i] = content[i]]

Erase(i) ==
  /\ content[i] # Absent
  /\ content' = [content EXCEPT ![i] = Absent]
  /\ UNCHANGED trash

Purge ==
  /\ \E old \in SUBSET Ids : trash' = [i \in Ids |-> IF i \in old THEN Absent ELSE trash[i]]
  /\ UNCHANGED content

Next ==
  \/ \E i \in Ids, v \in Values : Put(i, v)
  \/ \E i \in Ids : Delete(i) \/ Erase(i)
  \/ Purge

Spec == Init /\ [][Next]_vars
===============================================================================
