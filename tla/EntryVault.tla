------------------------------- MODULE EntryVault -------------------------------
(***************************************************************************)
(* The encrypted vault: EntryManager, the change of the master password in *)
(* VaultRepository, the encrypted settings, the cached key (KeyManager,    *)
(* KeyStorage) and the list the main window shows.                         *)
(*                                                                         *)
(* All handlers run one after another on the Tk thread.  A handler is a    *)
(* sequence of statements in one transaction, then what follows the        *)
(* commit; each of them may fail, and the program may be killed in between.*)
(* A master password is known by the generation of its key: a row can be   *)
(* decrypted only under the generation it was encrypted under.             *)
(***************************************************************************)
EXTENDS Naturals, Sequences, FiniteSets, SequencesExt

CONSTANTS
  Ids,       \* entries, by uuid
  Values,    \* what an entry or a setting may contain
  Default,   \* the value of a setting before it is saved
  ReadOnly,  \* shared entries that were saved as read-only
  Settings,  \* the encrypted settings
  Absent,    \* no row, no key, no transaction
  MaxGen,    \* bound: master passwords
  Ttl        \* ticks an unused key is kept

Generations == 1..MaxGen
Row(v, g) == [val |-> v, gen |-> g]
Master == "master"
Keys == [entries |-> Ids, trash |-> Ids, settings |-> Settings, key_store |-> {Master}]
Tables == DOMAIN Keys
FullRows == [val : Values, gen : Generations]
Rows == FullRows \cup {Absent}

\* The contents of the database.
Contents == [entries : [Ids -> Rows], trash : [Ids -> Rows], settings : [Settings -> Rows],
             key_store : [{Master} -> Rows]]

\* What a transaction may execute: a row of a table gets a new content, or goes.
Statements == UNION {[table : {t}, key : Keys[t], row : Rows] : t \in Tables}

ASSUME VaultAssumption ==
  /\ IsFiniteSet(Ids) /\ IsFiniteSet(Settings)
  /\ ReadOnly \subseteq Ids /\ Default \in Values
  /\ MaxGen \in Nat \ {0} /\ Ttl \in Nat
  /\ Absent \notin Values \cup Ids \cup Settings \cup Generations \cup FullRows
  /\ Absent \notin Contents

VARIABLES
  disk,    \* the committed rows of each table
  work,    \* the rows as the open transaction sees them, or Absent
  todo,    \* the statements the handler has still to execute
  doing,   \* the handler that runs, or "none"
  selected,\* entries that _delete_entry has still to delete, one transaction after another
  active,  \* generation of the key in KeyStorage, or Absent
  idle,    \* ticks since it was last used
  open,    \* the session is unlocked
  listed,  \* the entries the main window shows
  stale    \* history: since the list was read a change was stored that it is not told of:
           \* its announcement or the reading failed, or it is one of a selection whose
           \* deletion has not come to its end

keyVars == <<active, idle, open>>
listVars == <<listed, stale>>
vars == <<disk, work, todo, doing, selected, keyVars, listVars>>

Changes == {"create", "update", "soft_delete", "delete", "purge", "settings", "password"}

TypeOK ==
  /\ disk \in Contents /\ work \in Contents \cup {Absent}
  /\ todo \in Seq(Statements)
  /\ doing \in Changes \cup {"none", "deleting", "activate", "publish", "reload"}
  /\ selected \in SUBSET Ids
  /\ active \in Generations \cup {Absent}
  /\ idle \in 0..Ttl + 1
  /\ open \in BOOLEAN /\ stale \in BOOLEAN
  /\ listed \in [Ids -> Values \cup {Absent}]

\* The first run: setup stores the first key, and an empty vault.
Init ==
  /\ disk = [t \in Tables |-> [k \in Keys[t] |-> IF t = "key_store" THEN Row(Default, 1) ELSE Absent]]
  /\ work = Absent /\ todo = <<>> /\ doing = "none" /\ selected = {}
  /\ active = Absent /\ idle = 0 /\ open = FALSE
  /\ listed = [i \in Ids |-> Absent] /\ stale = FALSE

--------------------------------------------------------------------------------

Gen == disk.key_store[Master].gen
Present(t) == {k \in Keys[t] : disk[t][k] # Absent}

\* _get_valid_key and encrypt: a nonce and the ciphertext under the active key.
Encrypt(v) == Row(v, active)

\* encrypt_entry: the normalized payload, serialized and encrypted.
EncryptEntry(v) == Encrypt(v)

\* decrypt authenticates a row under the active key.
Decrypts(row) == row.gen = active

\* decrypt_entry and _row_to_entry: what the application sees of a row.
RowToEntry(row) == IF row = Absent THEN Absent ELSE row.val

\* get_entries_page and get_all_entries: the current entries, all of them readable.
PageReadable == \A i \in Present("entries") : Decrypts(disk.entries[i])
Page == [i \in Ids |-> RowToEntry(disk.entries[i])]

\* KeyStorage.is_expired
Expired == idle > Ttl

\* get_active_key: the key is there, has not expired, and counts as used.
KeyUsable == active # Absent /\ ~Expired

\* _get_entry finds the row and can decrypt it.
Found(i) == disk.entries[i] # Absent /\ Decrypts(disk.entries[i])

Statement(t, k, row) == [table |-> t, key |-> k, row |-> row]
Execute(d, s) == [d EXCEPT ![s.table][s.key] = s.row]

\* A transaction begins with its list of statements; what is encrypted uses the key.
Transaction(name, statements) ==
  /\ doing' = name
  /\ work' = disk /\ todo' = statements
  /\ idle' = IF name \in {"create", "update", "settings"} THEN 0 ELSE idle
  /\ UNCHANGED <<disk, active, open, listVars>>

\* A handler that is one transaction.
Begin(name, statements) ==
  /\ open /\ doing = "none"
  /\ Transaction(name, statements)
  /\ UNCHANGED selected

Create(i, v) ==
  /\ KeyUsable
  /\ disk.entries[i] = Absent /\ disk.trash[i] = Absent
  /\ Begin("create", <<Statement("entries", i, EncryptEntry(v))>>)

Update(i, v) ==
  /\ KeyUsable
  /\ Found(i) /\ i \notin ReadOnly
  /\ Begin("update", <<Statement("entries", i, EncryptEntry(v))>>)

\* _delete_entry: any of the entries that the list shows.
DeleteSelected(S) ==
  /\ open /\ doing = "none"
  /\ S # {} /\ \A i \in S : listed[i] # Absent
  /\ doing' = "deleting" /\ selected' = S
  /\ UNCHANGED <<disk, work, todo, keyVars, listVars>>

\* After one entry of a selection comes the next, and only after the last one the list.
Continue(rest) == IF rest = {} THEN "reload" ELSE "deleting"

\* delete_entry for one of the selection: the encrypted row moves as it is, no key is needed.
\* An entry that is gone already is passed over, without an event.
SoftDelete(i) ==
  /\ doing = "deleting" /\ i \in selected
  /\ selected' = selected \ {i}
  /\ IF disk.entries[i] # Absent
     THEN Transaction("soft_delete", <<Statement("trash", i, disk.entries[i]),
                                       Statement("entries", i, Absent)>>)
     ELSE /\ doing' = Continue(selected')
          /\ UNCHANGED <<disk, work, todo, keyVars, listVars>>

\* delete_entry without the copy, which an import that replaces the vault makes.
HardDelete(i) ==
  /\ disk.entries[i] # Absent
  /\ Begin("delete", <<Statement("entries", i, Absent)>>)

\* purge_expired_deleted_entries; which are old enough is the clock's business.
Purge ==
  \E old \in SUBSET Present("trash") :
    Begin("purge", [n \in 1..Cardinality(old) |-> Statement("trash", SetToSeq(old)[n], Absent)])

\* save_clipboard_config and save_security_config: a row is inserted or replaced.
SaveConfig(k, v) == Statement("settings", k, Encrypt(v))

\* _open_settings: all settings in one transaction.
SaveSettings ==
  /\ KeyUsable
  /\ \E value \in [Settings -> Values] :
       Begin("settings", [n \in 1..Cardinality(Settings) |->
         LET k == SetToSeq(Settings)[n] IN SaveConfig(k, value[k])])

--------------------------------------------------------------------------------
\* The master password.

\* What has to be encrypted anew.  A slip: the deleted entries are forgotten.
EncryptedLive == {e \in {"entries", "settings"} \X (Ids \cup Settings) :
                    e[2] \in Keys[e[1]] /\ disk[e[1]][e[2]] # Absent}
Encrypted == {e \in {"entries", "trash", "settings"} \X (Ids \cup Settings) :
                e[2] \in Keys[e[1]] /\ disk[e[1]][e[2]] # Absent}

\* change_master_password, after the old password was verified and became the active key:
\* everything is read and decrypted, then one transaction writes it back under the new key
\* and stores that key's salt and hash.
ChangePassword ==
  /\ Gen < MaxGen
  /\ open /\ doing = "none"
  /\ \A e \in Encrypted : disk[e[1]][e[2]].gen = Gen
  /\ doing' = "password"
  /\ active' = Gen /\ idle' = 0
  /\ work' = disk
  /\ LET rows == SetToSeq(Encrypted)
     IN todo' = [n \in 1..Len(rows) |->
                   Statement(rows[n][1], rows[n][2], Row(disk[rows[n][1]][rows[n][2]].val, Gen + 1))]
                \o <<Statement("key_store", Master, Row(Default, Gen + 1))>>
  /\ UNCHANGED <<disk, selected, open, listVars>>

\* A slip: the session goes on with the old key.
KeepOldKey ==
  /\ doing = "activate"
  /\ doing' = "none"
  /\ UNCHANGED <<disk, work, todo, selected, keyVars, listVars>>

\* activate_key, once the transaction is committed.  The list is not read again: the entries
\* it shows are the same.
ActivateKey ==
  /\ doing = "activate"
  /\ active' = Gen /\ idle' = 0
  /\ doing' = "none"
  /\ UNCHANGED <<disk, work, todo, selected, open, listVars>>

--------------------------------------------------------------------------------
\* The course of a handler.

Step ==
  /\ work # Absent /\ todo # <<>>
  /\ work' = Execute(work, Head(todo))
  /\ todo' = Tail(todo)
  /\ UNCHANGED <<disk, doing, selected, keyVars, listVars>>

\* The transaction ends well: a changed password is activated, a change of an entry is
\* announced, saved settings are shown by nothing.
Commit ==
  /\ work # Absent /\ todo = <<>>
  /\ disk' = work /\ work' = Absent
  /\ doing' = CASE doing = "password" -> "activate"
                [] doing \in {"purge", "settings"} -> "none"
                [] OTHER -> "publish"
  /\ UNCHANGED <<todo, selected, keyVars, listVars>>

\* BEGIN, a statement or COMMIT raises: the transaction is rolled back and the error shown.
\* The rest of a selection stays, and what of it is deleted stays in the list.
Rollback ==
  /\ work # Absent
  /\ work' = Absent /\ todo' = <<>> /\ doing' = "none" /\ selected' = {}
  /\ UNCHANGED <<disk, keyVars, listVars>>

\* _publish_event: a handler of the event that raises ends the operation here, although it
\* is stored; the window is not told.
Publish ==
  /\ doing = "publish"
  /\ \/ /\ doing' = Continue(selected) /\ stale' = (stale \/ selected # {})
        /\ UNCHANGED selected
     \/ doing' = "none" /\ stale' = TRUE /\ selected' = {}
  /\ UNCHANGED <<disk, work, todo, keyVars, listed>>

\* A slip: nothing is read again.
ReloadKeeps ==
  /\ doing = "reload"
  /\ doing' = "none"
  /\ UNCHANGED <<disk, work, todo, selected, keyVars, listVars>>

\* _load_entries: one entry that cannot be decrypted fails the whole page, as does an
\* expired key, which is cleared.
Reload ==
  /\ doing = "reload"
  /\ doing' = "none"
  /\ IF Present("entries") = {} \/ (KeyUsable /\ PageReadable)
     THEN /\ listed' = Page
          /\ stale' = FALSE
          /\ idle' = IF Present("entries") = {} THEN idle ELSE 0
          /\ UNCHANGED <<active, open>>
     ELSE /\ active' = IF Expired THEN Absent ELSE active
          /\ idle' = IF Expired THEN 0 ELSE idle
          /\ stale' = TRUE
          /\ UNCHANGED <<open, listed>>
  /\ UNCHANGED <<disk, work, todo, selected>>

\* KeyStorage.load finds the key expired: it is cleared and the operation fails.
KeyExpires ==
  /\ open /\ doing = "none"
  /\ active # Absent /\ Expired
  /\ active' = Absent /\ idle' = 0
  /\ UNCHANGED <<disk, work, todo, doing, selected, open, listVars>>

Tick ==
  /\ doing = "none" /\ active # Absent /\ idle <= Ttl
  /\ idle' = idle + 1
  /\ UNCHANGED <<disk, work, todo, doing, selected, active, open, listVars>>

--------------------------------------------------------------------------------
\* The session.

\* load_*_config: a setting that is missing is saved with its default at once.
LoadSettings(g) ==
  disk' = [disk EXCEPT !.settings =
             [k \in Settings |-> IF @[k] = Absent THEN Row(Default, g) ELSE @[k]]]

\* unlock_with_password with the right password, and the first list.
Unlock ==
  /\ ~open
  /\ open' = TRUE
  /\ active' = Gen /\ idle' = 0
  /\ LoadSettings(Gen)
  /\ doing' = "reload"
  /\ UNCHANGED <<work, todo, selected, listVars>>

\* KeyManager.lock, with the list cleared.
Lock ==
  /\ open /\ doing = "none"
  /\ open' = FALSE /\ active' = Absent /\ idle' = 0
  /\ listed' = [i \in Ids |-> Absent] /\ stale' = FALSE
  /\ UNCHANGED <<disk, work, todo, doing, selected>>

Crash ==
  /\ open
  /\ open' = FALSE /\ active' = Absent /\ idle' = 0
  /\ work' = Absent /\ todo' = <<>> /\ doing' = "none" /\ selected' = {}
  /\ listed' = [i \in Ids |-> Absent] /\ stale' = FALSE
  /\ UNCHANGED disk

Next ==
  \/ \E i \in Ids, v \in Values : Create(i, v) \/ Update(i, v)
  \/ \E S \in SUBSET Ids : DeleteSelected(S)
  \/ \E i \in Ids : SoftDelete(i) \/ HardDelete(i)
  \/ Purge \/ SaveSettings \/ ChangePassword \/ ActivateKey
  \/ Step \/ Commit \/ Rollback \/ Publish \/ Reload
  \/ KeyExpires \/ Tick \/ Unlock \/ Lock \/ Crash

Spec == Init /\ [][Next]_vars

--------------------------------------------------------------------------------

\* Every committed row, deleted entries and settings included, can be decrypted with the
\* stored master password, before, during and after its change, whatever fails; and the
\* session's key is that one, except between the commit and the activation.
Readable ==
  /\ \A e \in Encrypted : disk[e[1]][e[2]].gen = Gen
  /\ active # Absent /\ doing # "activate" => active = Gen

\* When no handler runs, the window shows exactly the vault, also after a change of the
\* master password, which does not read the list again.  The exemptions (stale): a stored
\* change whose announcement failed or that could not be read back, and the deletion of
\* several entries that failed after the first of them was gone.
ListIsCurrent ==
  open /\ doing = "none" /\ ~stale => listed = Page

\* Seen from outside, encryption, transactions, a change of the password, failures and
\* crashes do not show: each operation happens at its commit, as a whole.
PlainText(row) ==
  IF row = Absent THEN Absent ELSE IF row.gen = Gen THEN row.val ELSE "unreadable"
Promise == INSTANCE VaultPromise WITH
  content <- [i \in Ids |-> PlainText(disk.entries[i])],
  trash <- [i \in Ids |-> PlainText(disk.trash[i])]
KeepsPromise == Promise!Spec
===============================================================================
