---------------------------- MODULE EntryVaultProofs ----------------------------
(***************************************************************************)
(* Theorems about EntryVault, for any entries, values and settings and any *)
(* number of master passwords.                                             *)
(*                                                                         *)
(* The idea of the proofs: a transaction that has begun has one outcome.   *)
(* Every statement still to be executed writes what the outcome has at its *)
(* place, and every place without such a statement has it already.         *)
(***************************************************************************)
EXTENDS EntryVault, FiniteSetTheorems, TLAPS

\* Every row is encrypted under generation g.
Under(d, g) ==
  \A t \in Tables : \A k \in Keys[t] : d[t][k] # Absent => d[t][k].gen = g

\* There is a master password, everything is under it, and no entry is both current and
\* deleted.
Sound(d) ==
  /\ d.key_store[Master] # Absent
  /\ Under(d, d.key_store[Master].gen)
  /\ \A i \in Ids : d.entries[i] = Absent \/ d.trash[i] = Absent

\* The statements q turn the contents w into the outcome o.
Leads(w, q, o) ==
  /\ \A s \in Range(q) : s.row = o[s.table][s.key]
  /\ \A t \in Tables : \A k \in Keys[t] :
       w[t][k] = o[t][k] \/ \E s \in Range(q) : s.table = t /\ s.key = k

\* The contents d as the change of the password has to leave them.
Renewal(row, g) == IF row = Absent THEN Absent ELSE Row(row.val, g)
Renewed(d, g) ==
  [entries |-> [i \in Ids |-> Renewal(d.entries[i], g)],
   trash |-> [i \in Ids |-> Renewal(d.trash[i], g)],
   settings |-> [k \in Settings |-> Renewal(d.settings[k], g)],
   key_store |-> [m \in {Master} |-> Row(Default, g)]]

\* What each handler may turn the contents d into.
Put(d, o) ==
  \E i \in Ids, v \in Values :
    /\ d.trash[i] = Absent
    /\ o = [d EXCEPT !.entries = [@ EXCEPT ![i] = Row(v, d.key_store[Master].gen)]]
Deleted(d, o) ==
  \E i \in Ids :
    /\ d.entries[i] # Absent
    /\ o = [d EXCEPT !.entries = [@ EXCEPT ![i] = Absent],
                     !.trash = [@ EXCEPT ![i] = d.entries[i]]]
Erased(d, o) ==
  \E i \in Ids :
    /\ d.entries[i] # Absent
    /\ o = [d EXCEPT !.entries = [@ EXCEPT ![i] = Absent]]
Purged(d, o) ==
  \E old \in SUBSET Ids :
    o = [d EXCEPT !.trash = [i \in Ids |-> IF i \in old THEN Absent ELSE @[i]]]
Configured(d, o) ==
  \E value \in [Settings -> Values] :
    o = [d EXCEPT !.settings = [k \in Settings |-> Row(value[k], d.key_store[Master].gen)]]
Rekeyed(d, o) ==
  LET g == d.key_store[Master].gen IN g < MaxGen /\ o = Renewed(d, g + 1)

Outcome(op, d, o) ==
  \/ op \in {"create", "update"} /\ Put(d, o)
  \/ op = "soft_delete" /\ Deleted(d, o)
  \/ op = "delete" /\ Erased(d, o)
  \/ op = "purge" /\ Purged(d, o)
  \/ op = "settings" /\ Configured(d, o)
  \/ op = "password" /\ Rekeyed(d, o)

\* The inductive invariant.
Places ==
  /\ work # Absent <=> doing \in Changes
  /\ work = Absent => todo = <<>>
  /\ ~open => doing = "none"
KeyCurrent == active # Absent /\ doing # "activate" => active = Gen
Decided ==
  work # Absent => \E o \in Contents : Leads(work, todo, o) /\ Outcome(doing, disk, o)
ListFollows ==
  open /\ doing \notin {"publish", "reload"} /\ ~stale => listed = Page

IInv == TypeOK /\ Sound(disk) /\ Places /\ KeyCurrent /\ Decided /\ ListFollows

--------------------------------------------------------------------------------
\* Rows, statements and sequences.

LEMMA KeysOf ==
  /\ Tables = {"entries", "trash", "settings", "key_store"}
  /\ Keys["entries"] = Ids /\ Keys["trash"] = Ids /\ Keys["settings"] = Settings
  /\ Keys["key_store"] = {Master}
  BY DEF Tables, Keys

LEMMA RowType ==
  ASSUME NEW v \in Values, NEW g \in Generations
  PROVE  /\ Row(v, g) \in FullRows /\ Row(v, g) \in Rows /\ Row(v, g) # Absent
         /\ Row(v, g).val = v /\ Row(v, g).gen = g
  BY VaultAssumption DEF Row, FullRows, Rows

LEMMA StatementType ==
  ASSUME NEW t \in Tables, NEW k \in Keys[t], NEW r \in Rows
  PROVE  /\ Statement(t, k, r) \in Statements
         /\ Statement(t, k, r).table = t /\ Statement(t, k, r).key = k
         /\ Statement(t, k, r).row = r
  BY DEF Statement, Statements

LEMMA StatementParts ==
  ASSUME NEW s \in Statements
  PROVE  s.table \in Tables /\ s.key \in Keys[s.table] /\ s.row \in Rows
  BY DEF Statements

\* A statement changes its row and nothing else.
LEMMA ExecuteCell ==
  ASSUME NEW d \in Contents, NEW s \in Statements
  PROVE  /\ Execute(d, s) \in Contents
         /\ \A t \in Tables : \A k \in Keys[t] :
              Execute(d, s)[t][k] = IF t = s.table /\ k = s.key THEN s.row ELSE d[t][k]
<1>1. CASE s.table = "entries"
  BY <1>1, KeysOf, StatementParts DEF Execute, Contents
<1>2. CASE s.table = "trash"
  BY <1>2, KeysOf, StatementParts DEF Execute, Contents
<1>3. CASE s.table = "settings"
  BY <1>3, KeysOf, StatementParts DEF Execute, Contents
<1>4. CASE s.table = "key_store"
  BY <1>4, KeysOf, StatementParts DEF Execute, Contents
<1>5. QED
  BY <1>1, <1>2, <1>3, <1>4, KeysOf, StatementParts

\* Contents that agree row by row are the same.
LEMMA SameContents ==
  ASSUME NEW d \in Contents, NEW e \in Contents,
         \A t \in Tables : \A k \in Keys[t] : d[t][k] = e[t][k]
  PROVE  d = e
<1>1. d.entries = e.entries
  BY KeysOf DEF Contents
<1>2. d.trash = e.trash
  BY KeysOf DEF Contents
<1>3. d.settings = e.settings
  BY KeysOf DEF Contents
<1>4. d.key_store = e.key_store
  BY KeysOf DEF Contents
<1>5. QED
  BY <1>1, <1>2, <1>3, <1>4 DEF Contents

LEMMA HeadAndTail ==
  ASSUME NEW S, NEW q \in Seq(S), q # <<>>
  PROVE  /\ Head(q) \in S /\ Tail(q) \in Seq(S)
         /\ Range(q) = {Head(q)} \cup Range(Tail(q))
<1>1. Head(q) \in S /\ Tail(q) \in Seq(S) /\ Head(q) = q[1] /\ Len(q) \in Nat \ {0}
  OBVIOUS
<1>2. DOMAIN q = 1..Len(q) /\ DOMAIN Tail(q) = 1..(Len(q) - 1)
  BY <1>1
<1>3. \A n \in 1..(Len(q) - 1) : Tail(q)[n] = q[n + 1]
  BY <1>1
<1>4. ASSUME NEW n \in DOMAIN q
      PROVE  q[n] = Head(q) \/ q[n] \in Range(Tail(q))
  <2>1. CASE n = 1
    BY <2>1, <1>1
  <2>2. CASE n # 1
    <3>1. n - 1 \in DOMAIN Tail(q) /\ Tail(q)[n - 1] = q[n]
      BY <2>2, <1>1, <1>2, <1>3
    <3>2. QED
      BY <3>1 DEF Range
  <2>3. QED
    BY <2>1, <2>2
<1>5. ASSUME NEW n \in DOMAIN Tail(q)
      PROVE  Tail(q)[n] \in Range(q)
  <2>1. n + 1 \in DOMAIN q /\ q[n + 1] = Tail(q)[n]
    BY <1>1, <1>2, <1>3
  <2>2. QED
    BY <2>1 DEF Range
<1>6. Head(q) \in Range(q)
  BY <1>1, <1>2 DEF Range
<1>7. QED
  BY <1>1, <1>4, <1>5, <1>6 DEF Range

\* SetToSeq enumerates a finite set.
LEMMA Enumerated ==
  ASSUME NEW S, IsFiniteSet(S)
  PROVE  /\ Cardinality(S) \in Nat
         /\ SetToSeq(S) \in [1..Cardinality(S) -> S]
         /\ SetToSeq(S) \in Seq(S) /\ Len(SetToSeq(S)) = Cardinality(S)
         /\ \A x \in S : \E n \in 1..Cardinality(S) : SetToSeq(S)[n] = x
<1> DEFINE f == SetToSeq(S)
           D == 1..Cardinality(S)
<1>1. Cardinality(S) \in Nat /\ ExistsBijection(D, S)
  BY FS_CardinalityType
<1>2. \E g \in [D -> S] : IsInjective(g)
  BY <1>1 DEF ExistsBijection, Bijection, Injection, IsInjective
<1>3. f \in [D -> S] /\ IsInjective(f)
  BY <1>2 DEF SetToSeq
<1>4. f \in Injection(D, S)
  BY <1>3 DEF Injection, IsInjective
<1>5. IsFiniteSet(D) /\ Cardinality(D) = Cardinality(S)
  BY <1>1, FS_Interval
<1>6. f \in Surjection(D, S)
  BY <1>4, <1>5, FS_Injection
<1>7. \A x \in S : \E n \in D : f[n] = x
  BY <1>6 DEF Surjection
<1>8. QED
  BY <1>1, <1>3, <1>7

LEMMA RangeOfOne ==
  ASSUME NEW x, NEW y
  PROVE  Range(<<x>>) = {x} /\ Range(<<x, y>>) = {x, y}
  BY DEF Range

LEMMA RangeOfConcat ==
  ASSUME NEW S, NEW p \in Seq(S), NEW q \in Seq(S)
  PROVE  Range(p \o q) = Range(p) \cup Range(q)
<1>1. /\ Len(p) \in Nat /\ Len(q) \in Nat
      /\ DOMAIN p = 1..Len(p) /\ DOMAIN q = 1..Len(q)
      /\ DOMAIN (p \o q) = 1..(Len(p) + Len(q))
      /\ \A n \in 1..(Len(p) + Len(q)) : (p \o q)[n] = IF n <= Len(p) THEN p[n] ELSE q[n - Len(p)]
  OBVIOUS
<1>2. ASSUME NEW n \in DOMAIN (p \o q)
      PROVE  (p \o q)[n] \in Range(p) \cup Range(q)
  <2>1. CASE n <= Len(p)
    BY <2>1, <1>1 DEF Range
  <2>2. CASE ~(n <= Len(p))
    <3>1. n - Len(p) \in DOMAIN q /\ (p \o q)[n] = q[n - Len(p)]
      BY <2>2, <1>1
    <3>2. QED
      BY <3>1 DEF Range
  <2>3. QED
    BY <2>1, <2>2
<1>3. ASSUME NEW n \in DOMAIN p
      PROVE  p[n] \in Range(p \o q)
  <2>1. n \in DOMAIN (p \o q) /\ (p \o q)[n] = p[n]
    BY <1>1
  <2>2. QED
    BY <2>1 DEF Range
<1>4. ASSUME NEW n \in DOMAIN q
      PROVE  q[n] \in Range(p \o q)
  <2>1. n + Len(p) \in DOMAIN (p \o q) /\ (p \o q)[n + Len(p)] = q[n]
    BY <1>1
  <2>2. QED
    BY <2>1 DEF Range
<1>5. QED
  BY <1>2, <1>3, <1>4 DEF Range

--------------------------------------------------------------------------------
\* Transactions and their outcomes.

\* A statement brings the transaction nearer to its outcome.
LEMMA LeadsOn ==
  ASSUME NEW w \in Contents, NEW o \in Contents, NEW q \in Seq(Statements), q # <<>>,
         Leads(w, q, o)
  PROVE  Leads(Execute(w, Head(q)), Tail(q), o)
<1> DEFINE s == Head(q)
<1>1. s \in Statements /\ Range(q) = {s} \cup Range(Tail(q))
  BY HeadAndTail
<1>2. \A x \in Range(Tail(q)) : x.row = o[x.table][x.key]
  BY <1>1 DEF Leads
<1>3. ASSUME NEW t \in Tables, NEW k \in Keys[t]
      PROVE  \/ Execute(w, s)[t][k] = o[t][k]
             \/ \E x \in Range(Tail(q)) : x.table = t /\ x.key = k
  <2>1. CASE t = s.table /\ k = s.key
    BY <2>1, <1>1, ExecuteCell DEF Leads
  <2>2. CASE ~(t = s.table /\ k = s.key)
    BY <2>2, <1>1, ExecuteCell DEF Leads
  <2>3. QED
    BY <2>1, <2>2
<1>4. QED
  BY <1>2, <1>3 DEF Leads

\* A transaction without further statements has arrived.
LEMMA LeadsHere ==
  ASSUME NEW w \in Contents, NEW o \in Contents, Leads(w, <<>>, o)
  PROVE  w = o
<1>1. Range(<<>>) = {}
  BY DEF Range
<1>2. \A t \in Tables : \A k \in Keys[t] : w[t][k] = o[t][k]
  BY <1>1 DEF Leads
<1>3. QED
  BY <1>2, SameContents

\* Contents have rows, and their master password is one.
LEMMA ContentRows ==
  ASSUME NEW d \in Contents
  PROVE  /\ \A t \in Tables : \A k \in Keys[t] : d[t][k] \in Rows
         /\ d.key_store[Master] # Absent => d.key_store[Master].gen \in Generations
         /\ \A t \in Tables : \A k \in Keys[t] :
              d[t][k] # Absent => /\ d[t][k].val \in Values /\ d[t][k].gen \in Generations
                                  /\ d[t][k] = Row(d[t][k].val, d[t][k].gen)
<1>1. \A t \in Tables : \A k \in Keys[t] : d[t][k] \in Rows
  BY KeysOf DEF Contents
<1>2. \A r \in Rows : r # Absent => /\ r.val \in Values /\ r.gen \in Generations
                                    /\ r = Row(r.val, r.gen)
  BY DEF Rows, FullRows, Row
<1>3. d.key_store[Master] \in Rows
  BY DEF Contents
<1>4. QED
  BY <1>1, <1>2, <1>3

\* Whatever a handler does to sound contents leaves sound contents.
LEMMA OutcomeSound ==
  ASSUME NEW d \in Contents, Sound(d), NEW op, NEW o, Outcome(op, d, o)
  PROVE  o \in Contents /\ Sound(o)
<1> DEFINE g == d.key_store[Master].gen
<1>0. g \in Generations /\ \A t \in Tables : \A k \in Keys[t] : d[t][k] \in Rows
  BY ContentRows DEF Sound
<1>1. CASE Put(d, o)
  <2>1. PICK i \in Ids, v \in Values :
          /\ d.trash[i] = Absent
          /\ o = [d EXCEPT !.entries = [@ EXCEPT ![i] = Row(v, g)]]
    BY <1>1 DEF Put
  <2>2. Row(v, g) \in Rows /\ Row(v, g).gen = g
    BY <1>0, RowType
  <2>3. QED
    BY <2>1, <2>2, KeysOf DEF Contents, Sound, Under
<1>2. CASE Deleted(d, o)
  <2>1. PICK i \in Ids :
          /\ d.entries[i] # Absent
          /\ o = [d EXCEPT !.entries = [@ EXCEPT ![i] = Absent],
                           !.trash = [@ EXCEPT ![i] = d.entries[i]]]
    BY <1>2 DEF Deleted
  <2>2. d.entries[i] \in Rows /\ d.entries[i].gen = g
    BY <2>1, <1>0, KeysOf DEF Sound, Under
  <2>3. QED
    BY <2>1, <2>2, KeysOf DEF Contents, Sound, Under, Rows
<1>3. CASE Erased(d, o)
  BY <1>3, KeysOf DEF Erased, Contents, Sound, Under, Rows
<1>4. CASE Purged(d, o)
  <2>1. PICK old \in SUBSET Ids :
          o = [d EXCEPT !.trash = [i \in Ids |-> IF i \in old THEN Absent ELSE @[i]]]
    BY <1>4 DEF Purged
  <2>2. /\ o.trash = [i \in Ids |-> IF i \in old THEN Absent ELSE d.trash[i]]
        /\ o = [entries |-> d.entries, trash |-> o.trash, settings |-> d.settings,
                key_store |-> d.key_store]
    BY <2>1 DEF Contents
  <2>3. QED
    BY <2>2, KeysOf DEF Contents, Sound, Under, Rows
<1>5. CASE Configured(d, o)
  <2>1. PICK value \in [Settings -> Values] :
          o = [d EXCEPT !.settings = [k \in Settings |-> Row(value[k], g)]]
    BY <1>5 DEF Configured
  <2>2. \A k \in Settings : Row(value[k], g) \in Rows /\ Row(value[k], g).gen = g
    BY <1>0, RowType
  <2>3. QED
    BY <2>1, <2>2, KeysOf DEF Contents, Sound, Under
<1>6. CASE Rekeyed(d, o)
  <2>1. g + 1 \in Generations /\ o = Renewed(d, g + 1)
    BY <1>0, <1>6, VaultAssumption DEF Rekeyed, Generations
  <2>2. \A r \in Rows : /\ Renewal(r, g + 1) \in Rows
                        /\ Renewal(r, g + 1) # Absent => Renewal(r, g + 1).gen = g + 1
                        /\ Renewal(r, g + 1) = Absent <=> r = Absent
    BY <2>1, RowType DEF Renewal, Rows, FullRows
  <2>3. Row(Default, g + 1) \in Rows /\ Row(Default, g + 1).gen = g + 1
        /\ Row(Default, g + 1) # Absent
    BY <2>1, RowType, VaultAssumption
  <2>4. o \in Contents
    BY <2>1, <2>2, <2>3, <1>0, KeysOf DEF Renewed, Contents
  <2>5. Under(o, g + 1) /\ o.key_store[Master] = Row(Default, g + 1)
    BY <2>1, <2>2, <2>3, <1>0, KeysOf DEF Renewed, Under
  <2>6. \A i \in Ids : o.entries[i] = Absent \/ o.trash[i] = Absent
    BY <2>1, <2>2, <1>0, KeysOf DEF Renewed, Sound
  <2>7. QED
    BY <2>3, <2>4, <2>5, <2>6 DEF Sound
<1>7. QED
  BY <1>1, <1>2, <1>3, <1>4, <1>5, <1>6 DEF Outcome

--------------------------------------------------------------------------------
\* The handlers begin.

\* A transaction that begins with statements that lead to an outcome of its handler.
LEMMA TransactionInv ==
  ASSUME IInv, open, doing \in {"none", "deleting"},
         NEW op \in Changes \ {"password"}, NEW q \in Seq(Statements), Transaction(op, q),
         NEW o \in Contents, Leads(disk, q, o), Outcome(op, disk, o),
         selected' \in SUBSET Ids
  PROVE  IInv'
<1> USE DEF Transaction, keyVars, listVars
<1>1. TypeOK'
  BY VaultAssumption DEF IInv, TypeOK, Changes
<1>2. Sound(disk)' /\ KeyCurrent'
  BY DEF IInv, Sound, Under, KeyCurrent, Gen, Changes
<1>3. Places'
  BY VaultAssumption DEF IInv, TypeOK, Places, Changes
<1>4. Decided'
  <2>1. work' = disk /\ todo' = q /\ doing' = op /\ disk' = disk
    OBVIOUS
  <2>2. Leads(work', todo', o) /\ Outcome(doing', disk', o)
    BY <2>1
  <2>3. QED
    BY <2>2 DEF Decided
<1>5. ListFollows'
  BY DEF IInv, ListFollows, Page, RowToEntry
<1>6. QED
  BY <1>1, <1>2, <1>3, <1>4, <1>5 DEF IInv

LEMMA BeginInv ==
  ASSUME IInv, NEW op \in Changes \ {"password"}, NEW q \in Seq(Statements), Begin(op, q),
         NEW o \in Contents, Leads(disk, q, o), Outcome(op, disk, o)
  PROVE  IInv'
<1>1. /\ open /\ doing \in {"none", "deleting"} /\ Transaction(op, q)
      /\ selected' \in SUBSET Ids
  BY DEF Begin, IInv, TypeOK
<1>2. QED
  BY <1>1, TransactionInv

\* Put: one statement.
LEMMA PutBegins ==
  ASSUME IInv, NEW i \in Ids, NEW v \in Values, NEW op \in {"create", "update"},
         KeyUsable, disk.trash[i] = Absent,
         Begin(op, <<Statement("entries", i, EncryptEntry(v))>>)
  PROVE  IInv'
<1> DEFINE row == Row(v, Gen)
           s == Statement("entries", i, row)
           o == [disk EXCEPT !.entries = [@ EXCEPT ![i] = row]]
<1>1. disk \in Contents /\ Gen \in Generations /\ EncryptEntry(v) = row
  BY ContentRows DEF IInv, TypeOK, Sound, Gen, KeyCurrent, KeyUsable, Begin, Encrypt, EncryptEntry
<1>2. row \in Rows
  BY <1>1, RowType
<1>3. s \in Statements /\ s.table = "entries" /\ s.key = i /\ s.row = row
  BY <1>2, KeysOf, StatementType
<1>4. Outcome(op, disk, o)
  BY DEF Outcome, Put, Gen
<1>5. o \in Contents
  BY <1>1, <1>4, OutcomeSound DEF IInv
<1>6. Leads(disk, <<s>>, o)
  <2>1. Range(<<s>>) = {s}
    BY RangeOfOne
  <2>2. o.entries[i] = row
    BY <1>1 DEF Contents
  <2>3. \A t \in Tables : \A k \in Keys[t] : disk[t][k] # o[t][k] => t = "entries" /\ k = i
    BY <1>1, KeysOf DEF Contents
  <2> HIDE DEF s, o
  <2>4. QED
    BY <1>3, <2>1, <2>2, <2>3 DEF Leads
<1>7. <<s>> \in Seq(Statements)
  BY <1>3
<1>8. QED
  BY <1>1, <1>4, <1>5, <1>6, <1>7, BeginInv DEF Changes

LEMMA CreateInv ==
  ASSUME IInv, NEW i \in Ids, NEW v \in Values, Create(i, v)
  PROVE  IInv'
  BY PutBegins DEF Create

\* A current entry is not among the deleted ones.
LEMMA UpdateInv ==
  ASSUME IInv, NEW i \in Ids, NEW v \in Values, Update(i, v)
  PROVE  IInv'
<1>1. disk.trash[i] = Absent
  BY DEF Update, Found, IInv, Sound
<1>2. QED
  BY <1>1, PutBegins DEF Update

LEMMA OneDeletedInv ==
  ASSUME IInv, NEW i \in Ids, SoftDelete(i), disk.entries[i] # Absent
  PROVE  IInv'
<1> DEFINE row == disk.entries[i]
           s == Statement("trash", i, row)
           r == Statement("entries", i, Absent)
           o == [disk EXCEPT !.entries = [@ EXCEPT ![i] = Absent], !.trash = [@ EXCEPT ![i] = row]]
<1>1. disk \in Contents /\ row \in Rows /\ row # Absent /\ Absent \in Rows
  BY ContentRows, KeysOf DEF IInv, TypeOK, SoftDelete, Rows
<1>2. /\ s \in Statements /\ s.table = "trash" /\ s.key = i /\ s.row = row
      /\ r \in Statements /\ r.table = "entries" /\ r.key = i /\ r.row = Absent
  BY <1>1, KeysOf, StatementType
<1>3. Outcome("soft_delete", disk, o)
  BY <1>1 DEF Outcome, Deleted
<1>4. o \in Contents
  BY <1>1, <1>3, OutcomeSound DEF IInv
<1>5. Leads(disk, <<s, r>>, o)
  <2>1. Range(<<s, r>>) = {s, r}
    BY RangeOfOne
  <2>2. o.entries[i] = Absent /\ o.trash[i] = row
    BY <1>1 DEF Contents
  <2>3. \A t \in Tables : \A k \in Keys[t] :
          disk[t][k] # o[t][k] => t \in {"entries", "trash"} /\ k = i
    BY <1>1, KeysOf DEF Contents
  <2> HIDE DEF s, r, o
  <2>4. QED
    BY <1>2, <2>1, <2>2, <2>3 DEF Leads
<1>6. <<s, r>> \in Seq(Statements)
  BY <1>2
<1>7. Transaction("soft_delete", <<s, r>>)
  BY DEF SoftDelete
<1>8. open /\ doing \in {"none", "deleting"} /\ selected' \in SUBSET Ids
  BY DEF SoftDelete, IInv, TypeOK, Places
<1>9. QED
  BY <1>3, <1>4, <1>5, <1>6, <1>7, <1>8, TransactionInv DEF Changes

\* A handler that takes up a selection, or passes over an entry of it.
LEMMA SelectionInv ==
  ASSUME IInv, open, doing \in {"none", "deleting"}, doing' \in {"deleting", "reload"},
         selected' \in SUBSET Ids, UNCHANGED <<disk, work, todo, keyVars, listVars>>
  PROVE  IInv'
<1> USE DEF keyVars, listVars
<1>1. TypeOK' /\ Sound(disk)' /\ KeyCurrent'
  BY DEF IInv, TypeOK, Sound, Under, KeyCurrent, Gen
<1>2. Places' /\ Decided'
  BY DEF IInv, Places, Decided, Changes
<1>3. ListFollows'
  BY DEF IInv, ListFollows, Page, RowToEntry
<1>4. QED
  BY <1>1, <1>2, <1>3 DEF IInv

LEMMA SoftDeleteInv ==
  ASSUME IInv, NEW i \in Ids, SoftDelete(i)
  PROVE  IInv'
<1>1. CASE disk.entries[i] # Absent
  BY <1>1, OneDeletedInv
<1>2. CASE disk.entries[i] = Absent
  <2>1. /\ doing = "deleting" /\ doing' \in {"deleting", "reload"}
        /\ UNCHANGED <<disk, work, todo, keyVars, listVars>>
    BY <1>2 DEF SoftDelete, Continue
  <2>2. open /\ selected' \in SUBSET Ids
    BY <2>1 DEF SoftDelete, IInv, TypeOK, Places
  <2>3. QED
    BY <2>1, <2>2, SelectionInv
<1>3. QED
  BY <1>1, <1>2

LEMMA DeleteSelectedInv ==
  ASSUME IInv, NEW S \in SUBSET Ids, DeleteSelected(S)
  PROVE  IInv'
  BY SelectionInv DEF DeleteSelected

LEMMA HardDeleteInv ==
  ASSUME IInv, NEW i \in Ids, HardDelete(i)
  PROVE  IInv'
<1> DEFINE s == Statement("entries", i, Absent)
           o == [disk EXCEPT !.entries = [@ EXCEPT ![i] = Absent]]
<1>1. disk \in Contents /\ Absent \in Rows
  BY DEF IInv, TypeOK, Rows
<1>2. s \in Statements /\ s.table = "entries" /\ s.key = i /\ s.row = Absent
  BY <1>1, KeysOf, StatementType
<1>3. Outcome("delete", disk, o)
  BY DEF HardDelete, Outcome, Erased
<1>4. o \in Contents
  BY <1>1, <1>3, OutcomeSound DEF IInv
<1>5. Leads(disk, <<s>>, o)
  <2>1. Range(<<s>>) = {s}
    BY RangeOfOne
  <2>2. o.entries[i] = Absent
    BY <1>1 DEF Contents
  <2>3. \A t \in Tables : \A k \in Keys[t] : disk[t][k] # o[t][k] => t = "entries" /\ k = i
    BY <1>1, KeysOf DEF Contents
  <2> HIDE DEF s, o
  <2>4. QED
    BY <1>2, <2>1, <2>2, <2>3 DEF Leads
<1>6. <<s>> \in Seq(Statements)
  BY <1>2
<1>7. Begin("delete", <<s>>)
  BY DEF HardDelete
<1>8. QED
  BY <1>3, <1>4, <1>5, <1>6, <1>7, BeginInv DEF Changes

LEMMA PurgeInv ==
  ASSUME IInv, Purge
  PROVE  IInv'
<1>1. PICK old \in SUBSET Present("trash") :
        Begin("purge", [n \in 1..Cardinality(old) |-> Statement("trash", SetToSeq(old)[n], Absent)])
  BY DEF Purge
<1> DEFINE N == Cardinality(old)
           S(k) == Statement("trash", k, Absent)
           q == [n \in 1..N |-> S(SetToSeq(old)[n])]
           o == [disk EXCEPT !.trash = [i \in Ids |-> IF i \in old THEN Absent ELSE @[i]]]
<1>2. disk \in Contents /\ Absent \in Rows /\ old \in SUBSET Ids
  BY KeysOf DEF IInv, TypeOK, Rows, Present
<1>3. IsFiniteSet(old)
  BY <1>2, VaultAssumption, FS_Subset
<1>4. /\ N \in Nat /\ SetToSeq(old) \in [1..N -> old]
      /\ \A k \in old : \E n \in 1..N : SetToSeq(old)[n] = k
  BY <1>3, Enumerated
<1>5. \A k \in old : S(k) \in Statements /\ S(k).table = "trash" /\ S(k).key = k /\ S(k).row = Absent
  BY <1>2, KeysOf, StatementType
<1>6. q \in Seq(Statements) /\ Range(q) = {S(k) : k \in old}
  <2>1. q \in [1..N -> Statements]
    BY <1>4, <1>5
  <2>2. \A k \in old : \E n \in 1..N : q[n] = S(k)
    BY <1>4
  <2>3. \A n \in 1..N : q[n] \in {S(k) : k \in old}
    BY <1>4
  <2>4. q \in Seq(Statements) /\ DOMAIN q = 1..N
    BY <1>4, <2>1
  <2> HIDE DEF q, S
  <2>5. QED
    BY <2>2, <2>3, <2>4 DEF Range
<1>7. Outcome("purge", disk, o)
  BY <1>2 DEF Outcome, Purged
<1>8. o \in Contents
  BY <1>2, <1>7, OutcomeSound DEF IInv
<1>9. Leads(disk, q, o)
  <2>1. /\ o.trash = [i \in Ids |-> IF i \in old THEN Absent ELSE disk.trash[i]]
        /\ o = [entries |-> disk.entries, trash |-> o.trash, settings |-> disk.settings,
                key_store |-> disk.key_store]
    BY <1>2 DEF Contents
  <2>2. \A s \in Range(q) : s.row = o[s.table][s.key]
    BY <1>2, <1>5, <1>6, <2>1
  <2>3. ASSUME NEW t \in Tables, NEW k \in Keys[t], disk[t][k] # o[t][k]
        PROVE  \E s \in Range(q) : s.table = t /\ s.key = k
    <3>1. t = "trash" /\ k \in old
      BY <2>1, <2>3, KeysOf DEF Contents
    <3>2. S(k) \in Range(q) /\ S(k).table = "trash" /\ S(k).key = k
      BY <3>1, <1>5, <1>6
    <3>3. QED
      BY <3>1, <3>2
  <2>4. QED
    BY <2>2, <2>3 DEF Leads
<1>10. Begin("purge", q)
  BY <1>1
<1>11. QED
  BY <1>6, <1>7, <1>8, <1>9, <1>10, BeginInv DEF Changes

LEMMA SaveSettingsInv ==
  ASSUME IInv, SaveSettings
  PROVE  IInv'
<1> DEFINE N == Cardinality(Settings)
<1>1. PICK value \in [Settings -> Values] :
        Begin("settings", [n \in 1..N |->
          LET k == SetToSeq(Settings)[n] IN SaveConfig(k, value[k])])
  BY DEF SaveSettings
<1> DEFINE S(k) == SaveConfig(k, value[k])
           q == [n \in 1..N |-> S(SetToSeq(Settings)[n])]
           o == [disk EXCEPT !.settings = [k \in Settings |-> Row(value[k], Gen)]]
<1>2. disk \in Contents /\ Gen \in Generations /\ active = Gen
  BY <1>1, ContentRows DEF IInv, TypeOK, Sound, Gen, KeyCurrent, SaveSettings, KeyUsable, Begin
<1>3. /\ N \in Nat /\ SetToSeq(Settings) \in [1..N -> Settings]
      /\ \A k \in Settings : \E n \in 1..N : SetToSeq(Settings)[n] = k
  BY VaultAssumption, Enumerated
<1>4. ASSUME NEW k \in Settings
      PROVE  /\ S(k) \in Statements /\ S(k).table = "settings" /\ S(k).key = k
             /\ S(k).row = Row(value[k], Gen)
  <2>1. Row(value[k], Gen) \in Rows
    BY <1>2, RowType
  <2>2. QED
    BY <1>2, <2>1, KeysOf, StatementType DEF SaveConfig, Encrypt
<1>5. q \in Seq(Statements) /\ Range(q) = {S(k) : k \in Settings}
  <2>1. q \in [1..N -> Statements]
    BY <1>3, <1>4
  <2>2. \A k \in Settings : \E n \in 1..N : q[n] = S(k)
    BY <1>3
  <2>3. \A n \in 1..N : q[n] \in {S(k) : k \in Settings}
    BY <1>3
  <2>4. q \in Seq(Statements) /\ DOMAIN q = 1..N
    BY <1>3, <2>1
  <2> HIDE DEF q, S
  <2>5. QED
    BY <2>2, <2>3, <2>4 DEF Range
<1>6. Outcome("settings", disk, o)
  BY DEF Outcome, Configured, Gen
<1>7. o \in Contents
  BY <1>2, <1>6, OutcomeSound DEF IInv
<1>8. Leads(disk, q, o)
  <2>1. \A s \in Range(q) : s.row = o[s.table][s.key]
    BY <1>2, <1>4, <1>5 DEF Contents
  <2>2. ASSUME NEW t \in Tables, NEW k \in Keys[t], disk[t][k] # o[t][k]
        PROVE  \E s \in Range(q) : s.table = t /\ s.key = k
    <3>1. t = "settings" /\ k \in Settings
      BY <1>2, <2>2, KeysOf DEF Contents
    <3>2. S(k) \in Range(q) /\ S(k).table = "settings" /\ S(k).key = k
      BY <3>1, <1>4, <1>5
    <3>3. QED
      BY <3>1, <3>2
  <2>3. QED
    BY <2>1, <2>2 DEF Leads
<1>9. Begin("settings", q)
  BY <1>1
<1>10. QED
  BY <1>5, <1>6, <1>7, <1>8, <1>9, BeginInv DEF Changes

\* What the change of the password has to encrypt anew: finitely many rows, namely all that
\* are there.
LEMMA EncryptedRows ==
  ASSUME disk \in Contents
  PROVE  /\ IsFiniteSet(Encrypted)
         /\ \A e \in Encrypted : /\ e[1] \in Tables \ {"key_store"} /\ e[2] \in Keys[e[1]]
                                 /\ disk[e[1]][e[2]] # Absent
         /\ \A t \in Tables \ {"key_store"} : \A k \in Keys[t] :
              disk[t][k] # Absent => <<t, k>> \in Encrypted
<1> DEFINE T == {"entries", "trash", "settings"}
           All == T \X (Ids \cup Settings)
<1>1. IsFiniteSet(T)
  <2>1. IsFiniteSet({"entries"}) /\ IsFiniteSet({"trash"}) /\ IsFiniteSet({"settings"})
    BY FS_Singleton
  <2>2. IsFiniteSet({"entries"} \cup {"trash"})
    BY <2>1, FS_Union
  <2>3. IsFiniteSet(({"entries"} \cup {"trash"}) \cup {"settings"})
    BY <2>1, <2>2, FS_Union
  <2>4. ({"entries"} \cup {"trash"}) \cup {"settings"} = T
    OBVIOUS
  <2>5. QED
    BY <2>3, <2>4
<1>2. IsFiniteSet(Ids \cup Settings)
  BY VaultAssumption, FS_Union
<1>3. IsFiniteSet(All)
  BY <1>1, <1>2, FS_Product
<1>4. Encrypted \in SUBSET All
  BY DEF Encrypted
<1>5. IsFiniteSet(Encrypted)
  BY <1>3, <1>4, FS_Subset
<1>6. QED
  BY <1>5, KeysOf DEF Encrypted

LEMMA ChangePasswordInv ==
  ASSUME IInv, ChangePassword
  PROVE  IInv'
<1> DEFINE g == Gen + 1
           rows == SetToSeq(Encrypted)
           N == Cardinality(Encrypted)
           S(e) == Statement(e[1], e[2], Row(disk[e[1]][e[2]].val, g))
           m == Statement("key_store", Master, Row(Default, g))
           p == [n \in 1..N |-> S(rows[n])]
           o == Renewed(disk, g)
<1>1. disk \in Contents /\ Gen \in Generations /\ g \in Generations /\ Gen < MaxGen
  <2>1. disk \in Contents /\ Gen \in Generations /\ Gen < MaxGen
    BY ContentRows DEF IInv, TypeOK, Sound, Gen, ChangePassword
  <2>2. QED
    BY <2>1, VaultAssumption DEF Generations
<1>2. /\ N \in Nat /\ rows \in [1..N -> Encrypted] /\ Len(rows) = N
      /\ \A e \in Encrypted : \E n \in 1..N : rows[n] = e
  BY <1>1, EncryptedRows, Enumerated
<1>3. ASSUME NEW e \in Encrypted
      PROVE  /\ S(e) \in Statements /\ S(e).table = e[1] /\ S(e).key = e[2]
             /\ S(e).row = Row(disk[e[1]][e[2]].val, g)
  <2>1. /\ e[1] \in Tables \ {"key_store"} /\ e[2] \in Keys[e[1]]
        /\ disk[e[1]][e[2]] # Absent
    BY <1>1, EncryptedRows
  <2>2. Row(disk[e[1]][e[2]].val, g) \in Rows
    BY <1>1, <2>1, ContentRows, RowType
  <2>3. QED
    BY <2>1, <2>2, StatementType
<1>4. /\ m \in Statements /\ m.table = "key_store" /\ m.key = Master
      /\ m.row = Row(Default, g)
  <2>1. Row(Default, g) \in Rows
    BY <1>1, RowType, VaultAssumption
  <2>2. QED
    BY <2>1, KeysOf, StatementType
<1>5. todo' = p \o <<m>>
  BY <1>2 DEF ChangePassword
<1>6. p \in Seq(Statements) /\ Range(p) = {S(e) : e \in Encrypted}
  <2>1. p \in [1..N -> Statements]
    BY <1>2, <1>3
  <2>2. \A e \in Encrypted : \E n \in 1..N : p[n] = S(e)
    BY <1>2
  <2>3. \A n \in 1..N : p[n] \in {S(e) : e \in Encrypted}
    BY <1>2
  <2>4. p \in Seq(Statements) /\ DOMAIN p = 1..N
    BY <1>2, <2>1
  <2> HIDE DEF p, S
  <2>5. QED
    BY <2>2, <2>3, <2>4 DEF Range
<1>7. todo' \in Seq(Statements) /\ Range(todo') = {S(e) : e \in Encrypted} \cup {m}
  <2> HIDE DEF p, S, m
  <2>0. m \in Statements /\ Range(<<m>>) = {m}
    BY <1>4, RangeOfOne
  <2>1. <<m>> \in Seq(Statements) /\ Range(<<m>>) = {m}
    BY <2>0
  <2>2. Range(p \o <<m>>) = Range(p) \cup Range(<<m>>)
    BY <1>6, <2>1, RangeOfConcat
  <2>3. p \o <<m>> \in Seq(Statements)
    BY <1>6, <2>1
  <2>4. QED
    BY <1>5, <1>6, <2>1, <2>2, <2>3
<1>8. Outcome("password", disk, o)
  BY <1>1 DEF Outcome, Rekeyed, Gen
<1>9. o \in Contents
  BY <1>1, <1>8, OutcomeSound DEF IInv
<1>10. /\ \A t \in Tables \ {"key_store"} : \A k \in Keys[t] :
            o[t][k] = Renewal(disk[t][k], g)
       /\ o["key_store"][Master] = Row(Default, g)
  BY KeysOf DEF Renewed
<1>11. \A s \in Range(todo') : s.row = o[s.table][s.key]
  <2>1. \A e \in Encrypted : S(e).row = o[S(e).table][S(e).key]
    <3> SUFFICES ASSUME NEW e \in Encrypted
                 PROVE  Row(disk[e[1]][e[2]].val, g) = o[e[1]][e[2]]
      BY <1>3
    <3>1. /\ e[1] \in Tables \ {"key_store"} /\ e[2] \in Keys[e[1]]
          /\ disk[e[1]][e[2]] # Absent
      BY <1>1, EncryptedRows
    <3>2. QED
      BY <3>1, <1>10 DEF Renewal
  <2>2. m.row = o[m.table][m.key]
    BY <1>4, <1>10
  <2> HIDE DEF S, m, o
  <2>3. QED
    BY <1>7, <2>1, <2>2
<1>12. ASSUME NEW t \in Tables, NEW k \in Keys[t], disk[t][k] # o[t][k]
       PROVE  \E s \in Range(todo') : s.table = t /\ s.key = k
  <2>1. CASE t = "key_store"
    BY <2>1, <1>4, <1>7, KeysOf
  <2>2. CASE t # "key_store"
    <3>1. disk[t][k] # Absent
      BY <2>2, <1>10, <1>12 DEF Renewal
    <3>2. <<t, k>> \in Encrypted
      BY <3>1, <2>2, <1>1, EncryptedRows
    <3>3. S(<<t, k>>) \in Range(todo') /\ S(<<t, k>>).table = t /\ S(<<t, k>>).key = k
      BY <3>2, <1>3, <1>7
    <3> HIDE DEF S
    <3>4. QED
      BY <3>3
  <2>3. QED
    BY <2>1, <2>2
<1>13. Leads(disk, todo', o)
  BY <1>11, <1>12 DEF Leads
<1> HIDE DEF o
<1>14. Decided'
  <2>1. work' = disk /\ doing' = "password" /\ disk' = disk
    BY DEF ChangePassword
  <2>2. Leads(work', todo', o) /\ Outcome(doing', disk', o)
    BY <2>1, <1>8, <1>13
  <2>3. QED
    BY <2>2, <1>9 DEF Decided
<1>15. TypeOK'
  BY <1>1, <1>7, VaultAssumption DEF IInv, TypeOK, ChangePassword, Changes, listVars
<1>16. Sound(disk)' /\ KeyCurrent'
  BY DEF IInv, Sound, Under, KeyCurrent, Gen, ChangePassword
<1>17. Places'
  BY VaultAssumption DEF IInv, TypeOK, Places, ChangePassword, Changes
<1>18. ListFollows'
  BY DEF IInv, ListFollows, Page, RowToEntry, ChangePassword, listVars
<1>19. QED
  BY <1>14, <1>15, <1>16, <1>17, <1>18 DEF IInv

--------------------------------------------------------------------------------
\* The course of a handler, and the session.

\* A key that has just been used, and one that is used no more.
LEMMA IdleType ==
  /\ 0 \in 0..Ttl + 1
  /\ \A n \in 0..Ttl + 1 : n <= Ttl => n + 1 \in 0..Ttl + 1
<1>1. Ttl \in Nat
  BY VaultAssumption
<1>2. QED
  BY <1>1

LEMMA StepInv ==
  ASSUME IInv, Step
  PROVE  IInv'
<1> USE DEF Step, keyVars, listVars
<1>1. PICK o \in Contents : Leads(work, todo, o) /\ Outcome(doing, disk, o)
  BY DEF IInv, Decided
<1>2. /\ work \in Contents /\ todo \in Seq(Statements) /\ todo # <<>>
      /\ Head(todo) \in Statements /\ Tail(todo) \in Seq(Statements)
  BY HeadAndTail DEF IInv, TypeOK
<1>3. work' \in Contents /\ work' # Absent
  BY <1>2, ExecuteCell, VaultAssumption
<1>4. Decided'
  <2>1. Leads(work', todo', o)
    BY <1>1, <1>2, LeadsOn
  <2>2. Outcome(doing', disk', o)
    BY <1>1
  <2>3. QED
    BY <2>1, <2>2 DEF Decided
<1>5. TypeOK'
  BY <1>2, <1>3 DEF IInv, TypeOK
<1>6. Sound(disk)' /\ KeyCurrent'
  BY DEF IInv, Sound, Under, KeyCurrent, Gen
<1>7. Places'
  BY <1>3 DEF IInv, Places
<1>8. ListFollows'
  BY DEF IInv, ListFollows, Page, RowToEntry
<1>9. QED
  BY <1>4, <1>5, <1>6, <1>7, <1>8 DEF IInv

\* What all outcomes have in common, and what is left alone.
LEMMA OutcomeKeeps ==
  ASSUME NEW d \in Contents, Sound(d), NEW op, NEW o, Outcome(op, d, o)
  PROVE  /\ op # "password" => o.key_store = d.key_store
         /\ op \in {"purge", "settings"} => o.entries = d.entries
         /\ op = "password" =>
              \A i \in Ids : RowToEntry(o.entries[i]) = RowToEntry(d.entries[i])
<1>1. CASE op # "password"
  BY <1>1 DEF Outcome, Put, Deleted, Erased, Purged, Configured, Contents
<1>2. CASE op = "password"
  <2> DEFINE g == d.key_store[Master].gen
  <2>1. g \in Generations /\ Rekeyed(d, o)
    BY <1>2, ContentRows DEF Outcome, Sound
  <2>2. g + 1 \in Generations /\ o = Renewed(d, g + 1)
    BY <2>1, VaultAssumption DEF Rekeyed, Generations
  <2>3. \A r \in Rows : RowToEntry(Renewal(r, g + 1)) = RowToEntry(r)
    BY <2>2, RowType DEF Renewal, RowToEntry, Rows, FullRows
  <2>4. \A i \in Ids : o.entries[i] = Renewal(d.entries[i], g + 1) /\ d.entries[i] \in Rows
    BY <2>2 DEF Renewed, Contents
  <2>5. QED
    BY <1>2, <2>3, <2>4
<1>3. QED
  BY <1>1, <1>2

\* The outcome is on the disk.
LEMMA Committed ==
  ASSUME IInv, Commit
  PROVE  disk' \in Contents /\ Sound(disk') /\ Outcome(doing, disk, disk') /\ doing \in Changes
<1>1. PICK o \in Contents : Leads(work, todo, o) /\ Outcome(doing, disk, o)
  BY DEF IInv, Decided, Commit
<1>2. work \in Contents /\ disk \in Contents /\ todo = <<>> /\ disk' = work /\ doing \in Changes
  BY DEF IInv, TypeOK, Commit, Places
<1>3. work = o
  BY <1>1, <1>2, LeadsHere
<1>4. QED
  BY <1>1, <1>2, <1>3, OutcomeSound DEF IInv

LEMMA CommitInv ==
  ASSUME IInv, Commit
  PROVE  IInv'
<1> USE DEF Commit, keyVars, listVars
<1>1. /\ disk \in Contents /\ disk' \in Contents /\ Sound(disk') /\ Outcome(doing, disk, disk')
      /\ doing \in Changes
  BY Committed DEF IInv, TypeOK
<1>2. /\ doing' \in {"none", "activate", "publish"}
      /\ doing = "password" => doing' = "activate"
      /\ doing' = "none" => doing \in {"purge", "settings"}
  BY <1>1 DEF Changes
<1>3. TypeOK'
  BY <1>1, <1>2 DEF IInv, TypeOK
<1>4. KeyCurrent'
  <2>1. doing # "password" => Gen' = Gen
    BY <1>1, OutcomeKeeps DEF IInv, Gen
  <2>2. active # Absent => active = Gen
    BY <1>1 DEF IInv, KeyCurrent, Changes
  <2>3. QED
    BY <1>2, <2>1, <2>2 DEF KeyCurrent
<1>5. Places'
  BY <1>1, <1>2 DEF IInv, Places, Changes
<1>6. Decided'
  BY DEF Decided
<1>7. ListFollows'
  <2>1. doing' # "publish" => Page' = Page
    <3>1. CASE doing = "password"
      <4>1. \A i \in Ids : RowToEntry(disk'.entries[i]) = RowToEntry(disk.entries[i])
        BY <1>1, <3>1, OutcomeKeeps DEF IInv
      <4>2. QED
        BY <4>1 DEF Page, RowToEntry
    <3>2. CASE doing \in {"purge", "settings"}
      BY <1>1, <3>2, OutcomeKeeps DEF IInv, Page, RowToEntry
    <3>3. QED
      BY <1>1, <1>2, <3>1, <3>2 DEF Changes
  <2>2. QED
    BY <1>1, <1>2, <2>1 DEF IInv, ListFollows, Changes
<1>8. QED
  BY <1>1, <1>3, <1>4, <1>5, <1>6, <1>7 DEF IInv

LEMMA RollbackInv ==
  ASSUME IInv, Rollback
  PROVE  IInv'
<1> USE DEF Rollback, keyVars, listVars
<1>1. TypeOK'
  BY DEF IInv, TypeOK
<1>2. Sound(disk)' /\ KeyCurrent'
  BY DEF IInv, Sound, Under, KeyCurrent, Gen, Places, Changes
<1>3. Places' /\ Decided'
  BY DEF Places, Decided, Changes
<1>4. ListFollows'
  BY DEF IInv, ListFollows, Page, RowToEntry, Places, Changes
<1>5. QED
  BY <1>1, <1>2, <1>3, <1>4 DEF IInv

\* What follows the commit.
LEMMA AfterCommitInv ==
  ASSUME IInv, ActivateKey \/ Publish \/ KeyExpires \/ Tick
  PROVE  IInv'
<1> USE DEF ActivateKey, Publish, Continue, KeyExpires, Tick, keyVars, listVars
<1>1. Gen \in Generations
  BY ContentRows DEF IInv, TypeOK, Sound, Gen
<1>2. doing \in {"none", "activate", "publish"} /\ work = Absent /\ work' = Absent
  BY DEF IInv, Places, Changes
<1>3. TypeOK'
  BY <1>1, IdleType DEF IInv, TypeOK
<1>4. Sound(disk)' /\ KeyCurrent'
  BY DEF IInv, Sound, Under, KeyCurrent, Gen
<1>5. Places' /\ Decided'
  BY <1>2 DEF IInv, Places, Decided, Changes
<1>6. ListFollows'
  BY DEF IInv, ListFollows, Page, RowToEntry
<1>7. QED
  BY <1>3, <1>4, <1>5, <1>6 DEF IInv

LEMMA ReloadInv ==
  ASSUME IInv, Reload
  PROVE  IInv'
<1> USE DEF Reload
<1>1. disk \in Contents /\ disk' = disk /\ work' = work /\ todo' = todo
  BY DEF IInv, TypeOK
<1>2. Page \in [Ids -> Values \cup {Absent}]
  BY <1>1, KeysOf, ContentRows DEF Page, RowToEntry
<1>3. work = Absent
  BY DEF IInv, Places, Changes
<1>4. CASE listed' = Page /\ stale' = FALSE /\ idle' \in {idle, 0} /\ UNCHANGED <<active, open>>
  <2>1. TypeOK'
    BY <1>2, <1>4, IdleType DEF IInv, TypeOK
  <2>2. Sound(disk)' /\ KeyCurrent' /\ Places' /\ Decided'
    BY <1>3, <1>4 DEF IInv, Sound, Under, KeyCurrent, Gen, Places, Decided, Changes
  <2>3. ListFollows'
    BY <1>4 DEF ListFollows, Page, RowToEntry
  <2>4. QED
    BY <2>1, <2>2, <2>3 DEF IInv
<1>5. CASE /\ active' \in {active, Absent} /\ idle' \in {idle, 0} /\ stale' = TRUE
           /\ UNCHANGED <<open, listed>>
  <2>1. TypeOK'
    BY <1>5, IdleType DEF IInv, TypeOK
  <2>2. Sound(disk)' /\ KeyCurrent' /\ Places' /\ Decided'
    BY <1>3, <1>5 DEF IInv, Sound, Under, KeyCurrent, Gen, Places, Decided, Changes
  <2>3. ListFollows'
    BY <1>5 DEF ListFollows
  <2>4. QED
    BY <2>1, <2>2, <2>3 DEF IInv
<1>6. QED
  BY <1>4, <1>5

\* Unlocking saves the settings that are missing, under the master password given.
LEMMA LoadSettingsSound ==
  ASSUME NEW d \in Contents, Sound(d), d = disk, LoadSettings(Gen)
  PROVE  /\ disk' \in Contents /\ Sound(disk') /\ Gen' = Gen
         /\ disk'.entries = d.entries /\ disk'.trash = d.trash
<1> DEFINE Loaded(k) == IF d.settings[k] = Absent THEN Row(Default, Gen) ELSE d.settings[k]
<1>1. disk' = [entries |-> d.entries, trash |-> d.trash,
               settings |-> [k \in Settings |-> Loaded(k)], key_store |-> d.key_store]
  BY DEF LoadSettings, Contents
<1>2. Row(Default, Gen) \in Rows /\ Row(Default, Gen).gen = Gen
  BY ContentRows, RowType, VaultAssumption DEF Sound, Gen
<1>3. \A k \in Settings : Loaded(k) \in Rows /\ (Loaded(k) # Absent => Loaded(k).gen = Gen)
  BY <1>2, KeysOf, ContentRows DEF Sound, Under, Gen
<1>4. disk' \in Contents
  BY <1>1, <1>3 DEF Contents
<1> HIDE DEF Loaded
<1>5. Under(disk', Gen)
  BY <1>1, <1>3, KeysOf DEF Sound, Under, Gen
<1>6. QED
  BY <1>1, <1>4, <1>5 DEF Sound, Gen

LEMMA UnlockInv ==
  ASSUME IInv, Unlock
  PROVE  IInv'
<1> USE DEF Unlock, listVars
<1>1. disk \in Contents /\ Sound(disk) /\ Gen \in Generations
  BY ContentRows DEF IInv, TypeOK, Sound, Gen
<1>2. disk' \in Contents /\ Sound(disk') /\ Gen' = Gen
  BY <1>1, LoadSettingsSound
<1>3. doing = "none" /\ work = Absent
  BY DEF IInv, Places, Changes
<1>4. TypeOK'
  BY <1>1, <1>2, VaultAssumption DEF IInv, TypeOK
<1>5. KeyCurrent' /\ Places' /\ Decided' /\ ListFollows'
  BY <1>2, <1>3 DEF IInv, KeyCurrent, Places, Decided, ListFollows, Changes
<1>6. QED
  BY <1>2, <1>4, <1>5 DEF IInv

LEMMA LockInv ==
  ASSUME IInv, Lock \/ Crash
  PROVE  IInv'
<1> USE DEF Lock, Crash
<1>1. TypeOK'
  <2>1. /\ disk' \in Contents /\ active' = Absent /\ idle' = 0 /\ open' = FALSE
        /\ listed' = [i \in Ids |-> Absent] /\ stale' = FALSE
    BY DEF IInv, TypeOK
  <2>2. work' \in Contents \cup {Absent} /\ doing' = "none" /\ (todo' = todo \/ todo' = <<>>)
        /\ selected' \in SUBSET Ids
    BY DEF IInv, TypeOK
  <2>3. todo \in Seq(Statements) /\ <<>> \in Seq(Statements)
    BY DEF IInv, TypeOK
  <2>4. todo' \in Seq(Statements)
    BY <2>2, <2>3
  <2>5. QED
    BY <2>1, <2>2, <2>4, IdleType DEF TypeOK
<1>2. Sound(disk)' /\ KeyCurrent'
  BY DEF IInv, Sound, Under, KeyCurrent
<1>3. Places' /\ Decided' /\ ListFollows'
  BY DEF IInv, Places, Decided, ListFollows, Changes
<1>4. QED
  BY <1>1, <1>2, <1>3 DEF IInv

--------------------------------------------------------------------------------
\* The invariant, and the theorems that follow from it.

LEMMA InitInv ==
  ASSUME Init
  PROVE  IInv
<1> USE DEF Init
<1> DEFINE first == Row(Default, 1)
<1>1. /\ disk.entries = [i \in Ids |-> Absent] /\ disk.trash = [i \in Ids |-> Absent]
      /\ disk.settings = [k \in Settings |-> Absent]
      /\ disk.key_store = [m \in {Master} |-> first]
  BY KeysOf
<1>2. first \in Rows /\ first # Absent /\ first.gen = 1
  <2>1. 1 \in Generations
    BY VaultAssumption DEF Generations
  <2>2. QED
    BY <2>1, RowType, VaultAssumption
<1>3. disk = [entries |-> [i \in Ids |-> Absent], trash |-> [i \in Ids |-> Absent],
              settings |-> [k \in Settings |-> Absent], key_store |-> [m \in {Master} |-> first]]
  BY KeysOf
<1> HIDE DEF first
<1>4. disk \in Contents
  BY <1>2, <1>3 DEF Contents, Rows
<1>5. Sound(disk)
  BY <1>1, <1>2, KeysOf DEF Sound, Under
<1>6. TypeOK
  <2>1. todo \in Seq(Statements)
    OBVIOUS
  <2>2. QED
    BY <1>4, <2>1, IdleType DEF TypeOK
<1>7. Places /\ KeyCurrent /\ Decided /\ ListFollows
  BY DEF Places, KeyCurrent, Decided, ListFollows, Changes
<1>8. QED
  BY <1>4, <1>5, <1>6, <1>7 DEF IInv

LEMMA NextInv ==
  ASSUME IInv, [Next]_vars
  PROVE  IInv'
<1>1. CASE \E i \in Ids, v \in Values : Create(i, v) \/ Update(i, v)
  BY <1>1, CreateInv, UpdateInv
<1>2. CASE \E i \in Ids : SoftDelete(i) \/ HardDelete(i)
  BY <1>2, SoftDeleteInv, HardDeleteInv
<1>9. CASE \E S \in SUBSET Ids : DeleteSelected(S)
  BY <1>9, DeleteSelectedInv
<1>3. CASE Purge \/ SaveSettings \/ ChangePassword
  BY <1>3, PurgeInv, SaveSettingsInv, ChangePasswordInv
<1>4. CASE Step \/ Commit \/ Rollback
  BY <1>4, StepInv, CommitInv, RollbackInv
<1>5. CASE ActivateKey \/ Publish \/ Reload \/ KeyExpires \/ Tick
  BY <1>5, AfterCommitInv, ReloadInv
<1>6. CASE Unlock \/ Lock \/ Crash
  BY <1>6, UnlockInv, LockInv
<1>7. CASE UNCHANGED vars
  <2>1. /\ disk' = disk /\ work' = work /\ todo' = todo /\ doing' = doing /\ active' = active
        /\ idle' = idle /\ open' = open /\ listed' = listed /\ stale' = stale /\ selected' = selected
    BY <1>7 DEF vars, keyVars, listVars
  <2>2. TypeOK' /\ Sound(disk)' /\ Places'
    BY <2>1 DEF IInv, TypeOK, Sound, Under, Places
  <2>3. KeyCurrent' /\ Decided' /\ ListFollows'
    BY <2>1 DEF IInv, KeyCurrent, Gen, Decided, ListFollows, Page, RowToEntry
  <2>4. QED
    BY <2>2, <2>3 DEF IInv
<1>8. QED
  BY <1>1, <1>2, <1>3, <1>4, <1>5, <1>6, <1>7, <1>9 DEF Next

LEMMA Invariant == Spec => []IInv
  BY InitInv, NextInv, PTL DEF Spec

\* Every variable keeps its type: the disk has all its tables and the password is always
\* there, whatever fails.
THEOREM TypeCorrect == Spec => []TypeOK
<1>1. IInv => TypeOK
  BY DEF IInv
<1>2. QED
  BY <1>1, Invariant, PTL

\* Every committed row can be decrypted with the stored master password, wherever its change
\* fails or is killed, and the session's key is that one: for any entries and settings and
\* any number of changes.
THEOREM AlwaysReadable == Spec => []Readable
<1>1. ASSUME IInv
      PROVE  Readable
  <2>1. disk \in Contents /\ Under(disk, Gen)
    BY <1>1 DEF IInv, TypeOK, Sound, Gen
  <2>2. \A e \in Encrypted : disk[e[1]][e[2]].gen = Gen
    BY <2>1, EncryptedRows DEF Under
  <2>3. QED
    BY <1>1, <2>2 DEF IInv, KeyCurrent, Readable
<1>2. QED
  BY <1>1, Invariant, PTL

\* The window shows the vault when no handler runs, also after a change of the master
\* password.  The exemptions (stale): a stored change whose announcement failed or that could
\* not be read back, and a deletion of several entries that failed after the first was gone.
THEOREM ListCorrect == Spec => []ListIsCurrent
<1>1. IInv => ListIsCurrent
  BY DEF IInv, ListFollows, ListIsCurrent
<1>2. QED
  BY <1>1, Invariant, PTL

--------------------------------------------------------------------------------
\* The refinement.

\* What the user has in a table.
Shown(table) == [i \in Ids |-> RowToEntry(table[i])]

\* Sound contents are shown as they are.
LEMMA PlainTexts ==
  ASSUME disk \in Contents, Sound(disk)
  PROVE  /\ [i \in Ids |-> PlainText(disk.entries[i])] = Shown(disk.entries)
         /\ [i \in Ids |-> PlainText(disk.trash[i])] = Shown(disk.trash)
<1>1. \A i \in Ids : /\ PlainText(disk.entries[i]) = RowToEntry(disk.entries[i])
                     /\ PlainText(disk.trash[i]) = RowToEntry(disk.trash[i])
  BY KeysOf DEF Sound, Under, PlainText, RowToEntry, Gen
<1>2. QED
  BY <1>1 DEF Shown

\* One operation of the promise, or none, takes the entries c and the deleted ones t to e and u.
ShownStep(c, t, e, u) ==
  \/ \E i \in Ids, v \in Values : t[i] = Absent /\ e = [c EXCEPT ![i] = v] /\ u = t
  \/ \E i \in Ids : /\ c[i] # Absent
                    /\ e = [c EXCEPT ![i] = Absent]
                    /\ u = [t EXCEPT ![i] = c[i]] \/ u = t
  \/ /\ \E old \in SUBSET Ids : u = [i \in Ids |-> IF i \in old THEN Absent ELSE t[i]]
     /\ e = c
  \/ e = c /\ u = t

\* Seen by the user, an outcome is such a step.
LEMMA OutcomeShown ==
  ASSUME NEW d \in Contents, Sound(d), NEW op, NEW o, Outcome(op, d, o)
  PROVE  ShownStep(Shown(d.entries), Shown(d.trash), Shown(o.entries), Shown(o.trash))
<1> USE DEF Shown, RowToEntry, ShownStep
<1> DEFINE g == d.key_store[Master].gen
           c == Shown(d.entries)
           t == Shown(d.trash)
           e == Shown(o.entries)
           u == Shown(o.trash)
<1>0. /\ g \in Generations
      /\ \A i \in Ids : d.entries[i] # Absent => d.entries[i].val \in Values
      /\ \A v \in Values : v # Absent
  BY KeysOf, ContentRows, VaultAssumption DEF Sound
<1>1. CASE Put(d, o)
  <2>1. PICK i \in Ids, v \in Values :
          /\ d.trash[i] = Absent
          /\ o = [d EXCEPT !.entries = [@ EXCEPT ![i] = Row(v, g)]]
    BY <1>1 DEF Put
  <2>2. Row(v, g) # Absent /\ Row(v, g).val = v
    BY <1>0, RowType
  <2>3. o.entries = [d.entries EXCEPT ![i] = Row(v, g)] /\ o.trash = d.trash
    BY <2>1 DEF Contents
  <2>4. t[i] = Absent /\ u = t
    BY <2>1, <2>3
  <2>5. e = [c EXCEPT ![i] = v]
    BY <2>2, <2>3 DEF Contents
  <2>6. QED
    BY <2>4, <2>5
<1>2. CASE Deleted(d, o)
  <2>1. PICK i \in Ids :
          /\ d.entries[i] # Absent
          /\ o = [d EXCEPT !.entries = [@ EXCEPT ![i] = Absent],
                           !.trash = [@ EXCEPT ![i] = d.entries[i]]]
    BY <1>2 DEF Deleted
  <2>2. o.entries = [d.entries EXCEPT ![i] = Absent] /\ o.trash = [d.trash EXCEPT ![i] = d.entries[i]]
    BY <2>1 DEF Contents
  <2>3. c[i] # Absent
    BY <2>1, <1>0
  <2>4. e = [c EXCEPT ![i] = Absent]
    BY <2>2 DEF Contents
  <2>5. u = [t EXCEPT ![i] = c[i]]
    BY <2>1, <2>2 DEF Contents
  <2>6. QED
    BY <2>3, <2>4, <2>5
<1>3. CASE Erased(d, o)
  <2>1. PICK i \in Ids :
          /\ d.entries[i] # Absent
          /\ o = [d EXCEPT !.entries = [@ EXCEPT ![i] = Absent]]
    BY <1>3 DEF Erased
  <2>2. o.entries = [d.entries EXCEPT ![i] = Absent] /\ o.trash = d.trash
    BY <2>1 DEF Contents
  <2>3. c[i] # Absent /\ u = t
    BY <2>1, <2>2, <1>0
  <2>4. e = [c EXCEPT ![i] = Absent]
    BY <2>2 DEF Contents
  <2>5. QED
    BY <2>3, <2>4
<1>4. CASE Purged(d, o)
  <2>1. PICK old \in SUBSET Ids :
          o = [d EXCEPT !.trash = [i \in Ids |-> IF i \in old THEN Absent ELSE @[i]]]
    BY <1>4 DEF Purged
  <2>2. /\ o.trash = [i \in Ids |-> IF i \in old THEN Absent ELSE d.trash[i]]
        /\ o.entries = d.entries
    BY <2>1 DEF Contents
  <2>3. u = [i \in Ids |-> IF i \in old THEN Absent ELSE t[i]]
    BY <2>2
  <2>4. QED
    BY <2>2, <2>3
<1>5. CASE Configured(d, o)
  BY <1>5 DEF Configured, Contents
<1>6. CASE Rekeyed(d, o)
  <2>1. g + 1 \in Generations /\ o = Renewed(d, g + 1)
    BY <1>0, <1>6, VaultAssumption DEF Rekeyed, Generations
  <2>2. \A r \in Rows : RowToEntry(Renewal(r, g + 1)) = RowToEntry(r)
    BY <2>1, RowType DEF Renewal, Rows, FullRows
  <2>3. \A i \in Ids : /\ RowToEntry(o.entries[i]) = RowToEntry(d.entries[i])
                       /\ RowToEntry(o.trash[i]) = RowToEntry(d.trash[i])
    BY <2>1, <2>2 DEF Renewed, Contents
  <2> HIDE DEF RowToEntry
  <2>4. QED
    BY <2>3
<1>7. QED
  BY <1>1, <1>2, <1>3, <1>4, <1>5, <1>6 DEF Outcome

\* Nothing but a commit changes what the user has.
LEMMA OnlyCommitShows ==
  ASSUME IInv, [Next]_vars, ~Commit
  PROVE  UNCHANGED <<disk.entries, disk.trash, Gen>>
<1>1. CASE Unlock
  BY <1>1, LoadSettingsSound DEF Unlock, IInv, TypeOK
<1>2. CASE UNCHANGED disk
  BY <1>2 DEF Gen
<1>3. QED
  BY <1>1, <1>2 DEF Next, vars, keyVars, listVars, Create, Update, DeleteSelected, SoftDelete,
     HardDelete, Purge, SaveSettings, Begin, Transaction, ChangePassword, ActivateKey, Step, Rollback, Publish, Reload,
     KeyExpires, Tick, Lock, Crash

\* EntryVault implements VaultPromise: to its user the vault has neither keys nor
\* transactions, and each operation happens at its commit, as a whole.
THEOREM Refinement == Spec => KeepsPromise
<1>1. ASSUME Init
      PROVE  Promise!Init
  <2>1. disk.entries = [i \in Ids |-> Absent] /\ disk.trash = [i \in Ids |-> Absent]
    BY <1>1, KeysOf DEF Init
  <2>2. QED
    BY <2>1 DEF Promise!Init, PlainText
<1>2. ASSUME IInv, [Next]_vars
      PROVE  [Promise!Next]_Promise!vars
  <2>1. CASE Commit
    <3>1. /\ disk \in Contents /\ Sound(disk) /\ disk' \in Contents /\ Sound(disk')
          /\ Outcome(doing, disk, disk')
      BY <1>2, <2>1, Committed DEF IInv, TypeOK
    <3>2. /\ [i \in Ids |-> PlainText(disk.entries[i])] = Shown(disk.entries)
          /\ [i \in Ids |-> PlainText(disk.trash[i])] = Shown(disk.trash)
      BY <3>1, PlainTexts
    <3>3. /\ [i \in Ids |-> PlainText(disk.entries[i])]' = Shown(disk.entries)'
          /\ [i \in Ids |-> PlainText(disk.trash[i])]' = Shown(disk.trash)'
      <4>1. \A i \in Ids : /\ PlainText(disk.entries[i])' = RowToEntry(disk.entries[i])'
                           /\ PlainText(disk.trash[i])' = RowToEntry(disk.trash[i])'
        BY <3>1, KeysOf DEF Sound, Under, PlainText, RowToEntry, Gen
      <4>2. QED
        BY <4>1 DEF Shown
    <3> DEFINE c == [i \in Ids |-> PlainText(disk.entries[i])]
               t == [i \in Ids |-> PlainText(disk.trash[i])]
    <3>4. /\ c = Shown(disk.entries) /\ t = Shown(disk.trash)
          /\ c' = Shown(disk'.entries) /\ t' = Shown(disk'.trash)
      BY <3>2, <3>3 DEF Shown, RowToEntry
    <3> HIDE DEF c, t
    <3>5. ShownStep(c, t, c', t')
      BY <3>1, <3>4, OutcomeShown
    <3> USE DEF c, t
    <3>6. QED
      BY <3>5
      DEF ShownStep, Promise!Next, Promise!Put, Promise!Delete, Promise!Erase, Promise!Purge,
          Promise!vars
  <2>2. CASE ~Commit
    <3>1. disk.entries' = disk.entries /\ disk.trash' = disk.trash /\ Gen' = Gen
      BY <1>2, <2>2, OnlyCommitShows
    <3>2. QED
      BY <3>1 DEF Promise!vars, PlainText
  <2>3. QED
    BY <2>1, <2>2
<1>3. QED
  BY <1>1, <1>2, Invariant, PTL DEF Spec, KeepsPromise, Promise!Spec
===============================================================================
