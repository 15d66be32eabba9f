-------------------------------- MODULE AuditLog --------------------------------
(***************************************************************************)
(* The signed audit log of one vault file: AuditLogger with its signer,    *)
(* the tables audit_log, audit_keys and audit_state, the unsigned entries  *)
(* AuditRepository leaves while the vault is locked, AuditLogVerifier, and *)
(* the change of the master password, which changes every derived key.     *)
(*                                                                         *)
(* Steps.  A transaction, and a statement outside one, is one step, since  *)
(* SQLite commits it as a whole or not at all; between two of them another *)
(* thread may write, the disk may refuse, or the program may end.  The     *)
(* Tk thread starts the logger, verifies and rekeys; events are written by *)
(* the logger's worker (log_event_async) and by any thread (log_event).    *)
(*                                                                         *)
(* Data.  The hash of an entry covers its content, its number and the hash *)
(* before it; an entry changes once at most, when it is signed, so number  *)
(* and "signed or not" tell its hashes apart.  A signing key is derived    *)
(* from the master key and a generation.                                   *)
(***************************************************************************)
EXTENDS Naturals, Sequences

CONSTANTS
  Interval,    \* key_rotation_interval
  Recent,      \* recent_verification_limit
  Unsigned,    \* no key: the entry waits for its signature
  NoState,     \* the audit_state row does not exist yet
  MaxRows,     \* bound on the length of the log
  MaxMaster,   \* bound on the number of password changes
  MaxPending   \* bound on the events queued for the worker

ASSUME AuditAssumption ==
  /\ Interval \in Nat \ {0}
  /\ Recent \in Nat \ {0}
  /\ MaxRows \in Nat /\ MaxMaster \in Nat /\ MaxPending \in Nat \ {0, 1}

KeyIds == [gen : Nat, master : Nat]
Hashes == [seq : Nat, signed : BOOLEAN]
Zero   == [seq |-> 0, signed |-> TRUE]       \* ZERO_HASH
Rows   == [key : KeyIds \cup {Unsigned}, prev : Hashes]
States == [hash : Hashes, key : KeyIds, gen : Nat]

ASSUME UnsignedAssumption == Unsigned \notin KeyIds /\ NoState \notin States

VARIABLES
  \* on disk
  rows,      \* audit_log
  keys,      \* audit_keys
  state,     \* audit_state: the anchor (number and hash of the head, its key), signing_generation
  master,    \* which master key key_store and the vault are under
  \* in memory
  stage,     \* how far the logger's start has come
  signer,    \* self.signer
  active,    \* the master key the key manager holds
  pending,   \* events accepted by log_event_async and not yet handled
  error,     \* _worker_error is set
  phase,     \* what the Tk thread is doing with the running logger
  view,      \* the rows and keys a verification has read so far
  verdict,   \* the last verification report
  damage     \* history: the ways in which a key or an anchor was lost

diskVars == <<rows, keys, state, master>>
tkVars   == <<stage, phase, view, verdict>>
vars == <<diskVars, tkVars, signer, active, pending, error, damage>>

Starting == {"registered", "migrating", "signed"}
Stages   == {"locked", "open", "failed"} \cup Starting
Phases   == {"idle", "changing", "changed", "rekeying", "reading", "read", "judging"}

TypeOK ==
  /\ rows \in Seq(Rows)
  /\ keys \subseteq KeyIds
  /\ state \in States \cup {NoState}
  /\ master \in Nat
  /\ stage \in Stages
  /\ signer \in KeyIds
  /\ active \in Nat
  /\ pending \in Nat
  /\ error \in BOOLEAN
  /\ phase \in Phases
  /\ view \in [scope : {"full", "recent"}, first : Nat, last : Nat, keys : SUBSET KeyIds]
  /\ verdict \in {"none", "valid", "tampered"}
  /\ damage \subseteq {"rotation", "rekey", "seal"}

Blank == [scope |-> "full", first |-> 1, last |-> 0, keys |-> {}]

Init ==
  /\ rows = <<>> /\ keys = {} /\ state = NoState /\ master = 0
  /\ stage = "locked" /\ signer = [gen |-> 0, master |-> 0] /\ active = 0
  /\ pending = 0 /\ error = FALSE
  /\ phase = "idle" /\ view = Blank /\ verdict = "none"
  /\ damage = {}

--------------------------------------------------------------------------------
(* Helpers. *)

HashOf(i) == IF i = 0 THEN Zero ELSE [seq |-> i, signed |-> rows[i].key # Unsigned]
HeadHash  == HashOf(Len(rows))

\* _register_signer: INSERT OR IGNORE, which a row with the same generation blocks too.
Registered(k, table) == IF \E t \in table : t.gen = k.gen THEN table ELSE table \cup {k}

\* The generation in which entry number n is to be signed.
Target(n) == (n - 1) \div Interval

\* _rotate_signer_for_sequence: the signer and the table after it.  Generations are
\* derived one after the other from the key manager's key and registered.
RotatedSigner(n) ==
  IF signer.gen >= Target(n) THEN signer ELSE [gen |-> Target(n), master |-> active]
RotatedKeys(n) ==
  keys \cup {k \in [gen : (signer.gen + 1)..Target(n), master : {active}] :
               \A t \in keys : t.gen # k.gen}

\* The anchor _update_state signs.
Anchor(hash, k) == [hash |-> hash, key |-> k, gen |-> k.gen]

--------------------------------------------------------------------------------
(* The vault is locked. *)

\* AuditRepository.add_log without a logger: a login failed.
FailedLogin ==
  /\ stage = "locked"
  /\ Len(rows) < MaxRows
  /\ rows' = Append(rows, [key |-> Unsigned, prev |-> HeadHash])
  /\ UNCHANGED <<keys, state, master, tkVars, signer, active, pending, error, damage>>

\* The password is right: AuditLogger.__init__ derives its signer and registers it.
StartLogger ==
  /\ stage = "locked"
  /\ LET k == [gen |-> IF state = NoState THEN 0 ELSE state.gen, master |-> master]
     IN  signer' = k /\ keys' = Registered(k, keys)
  /\ active' = master
  /\ stage' = "registered"
  /\ UNCHANGED <<rows, state, master, phase, view, verdict, pending, error, damage>>

\* _ensure_state.
EnsureState ==
  /\ stage = "registered"
  /\ state' = IF state = NoState THEN Anchor(Zero, signer) ELSE state
  /\ stage' = "migrating"
  /\ UNCHANGED <<rows, keys, master, phase, view, verdict, signer, active, pending, error, damage>>

--------------------------------------------------------------------------------
(* _migrate_unsigned_entries: each waiting entry is signed, oldest first. *)

\* A slip: the newest waiting entry is signed first.
LastUnsigned(i) == /\ i \in DOMAIN rows
                   /\ rows[i].key = Unsigned
                   /\ \A j \in (i + 1)..Len(rows) : rows[j].key # Unsigned

FirstUnsigned(i) == /\ i \in DOMAIN rows
                    /\ rows[i].key = Unsigned
                    /\ \A j \in 1..(i - 1) : rows[j].key # Unsigned

\* The signer moves to the generation of the entry; each key is committed at once.
MigrateRotate ==
  /\ stage = "migrating"
  /\ \E i \in DOMAIN rows :
       /\ FirstUnsigned(i)
       /\ signer.gen < Target(i)
       /\ signer' = [gen |-> signer.gen + 1, master |-> active]
       /\ keys' = Registered(signer', keys)
  /\ UNCHANGED <<rows, state, master, tkVars, active, pending, error, damage>>

\* A slip: the entry keeps the link it was stored with, to a hash without a signature.
MigrateSignature ==
  /\ stage = "migrating"
  /\ \E i \in DOMAIN rows :
       /\ FirstUnsigned(i)
       /\ signer.gen >= Target(i)
       /\ IF signer \in keys
            THEN rows' = [rows EXCEPT ![i].key = signer] /\ stage' = "signed"
            ELSE UNCHANGED rows /\ stage' = "failed"
  /\ UNCHANGED <<keys, state, master, phase, view, verdict, signer, active, pending, error, damage>>

\* The UPDATE of the entry, which the foreign key refuses if the signer is not registered.
MigrateSign ==
  /\ stage = "migrating"
  /\ \E i \in DOMAIN rows :
       /\ FirstUnsigned(i)
       /\ signer.gen >= Target(i)
       /\ IF signer \in keys
            THEN /\ rows' = [rows EXCEPT ![i] = [key |-> signer, prev |-> HashOf(i - 1)]]
                 /\ stage' = "signed"
            ELSE UNCHANGED rows /\ stage' = "failed"
  /\ UNCHANGED <<keys, state, master, phase, view, verdict, signer, active, pending, error, damage>>

\* _update_state for the entry just signed, a statement of its own.
MigrateAnchor ==
  /\ stage = "signed"
  /\ \E i \in DOMAIN rows :
       /\ rows[i].key # Unsigned
       /\ i < Len(rows) => rows[i + 1].key = Unsigned
       /\ state' = Anchor(HashOf(i), signer)
  /\ stage' = "migrating"
  /\ damage' = damage \ {"seal"}
  /\ UNCHANGED <<rows, keys, master, phase, view, verdict, signer, active, pending, error>>

\* The start ends.  A new log gets its first entry, signed by the signer just
\* registered; the session's first two events are queued.
Open ==
  /\ stage = "migrating"
  /\ \A i \in DOMAIN rows : rows[i].key # Unsigned
  /\ IF rows = <<>>
       THEN /\ signer \in keys
            /\ rows' = <<[key |-> signer, prev |-> Zero]>>
            /\ state' = Anchor([seq |-> 1, signed |-> TRUE], signer)
       ELSE UNCHANGED <<rows, state>>
  /\ stage' = "open"
  /\ pending' = 2
  /\ UNCHANGED <<keys, master, phase, view, verdict, signer, active, error, damage>>
--------------------------------------------------------------------------------
(* _write_entry, under the write lock and in one transaction. *)

\* A slip: the anchor is left where it was.
WriteWithoutAnchor ==
  LET n == Len(rows) + 1
      k == RotatedSigner(n)
  IN  /\ n <= MaxRows
      /\ k \in RotatedKeys(n)
      /\ rows' = Append(rows, [key |-> k, prev |-> HeadHash])
      /\ keys' = RotatedKeys(n)
      /\ signer' = k
      /\ damage' = damage \ {"seal"}
      /\ UNCHANGED state

\* The entry, the keys of the generations it moves to and the anchor are committed.
WriteCommits ==
  LET n == Len(rows) + 1
      k == RotatedSigner(n)
  IN  /\ n <= MaxRows
      /\ k \in RotatedKeys(n)
      /\ rows' = Append(rows, [key |-> k, prev |-> HeadHash])
      /\ keys' = RotatedKeys(n)
      /\ state' = Anchor([seq |-> n, signed |-> TRUE], k)
      /\ signer' = k
      /\ damage' = damage \ {"seal"}

\* The foreign key, the disk or the database's lock refuses it.  The transaction is
\* rolled back; the signer in memory, if it has moved on by then, is not.
WriteFails ==
  /\ signer' \in {signer, RotatedSigner(Len(rows) + 1)}
  /\ damage' = IF signer' = signer THEN damage ELSE damage \cup {"rotation"}
  /\ UNCHANGED <<rows, keys, state>>

\* The write lock: rekey holds it between its two statements.
LogFree == stage = "open" /\ phase # "rekeying"

\* log_event on some thread; a failure is an exception of the caller.
LogEvent ==
  /\ LogFree
  /\ WriteCommits \/ WriteFails
  /\ UNCHANGED <<master, tkVars, active, pending, error>>

\* log_event_async, and the worker that handles the event later.
LogEventAsync ==
  /\ stage = "open"
  /\ pending < MaxPending
  /\ pending' = pending + 1
  /\ UNCHANGED <<diskVars, tkVars, signer, active, error, damage>>

WorkerWrites ==
  /\ LogFree
  /\ pending > 0
  /\ pending' = pending - 1
  /\ \/ WriteCommits /\ UNCHANGED error
     \/ WriteFails /\ error' = TRUE
  /\ UNCHANGED <<master, tkVars, active>>

--------------------------------------------------------------------------------
(* verify_integrity on the Tk thread.  The verifier's queries are separate     *)
(* statements, and the write lock is not taken.                                *)

\* flush, which waits for the queue and raises a pending error; then the scope.
VerifyBegin(scope) ==
  /\ stage = "open" /\ phase = "idle"
  /\ pending = 0
  /\ error' = FALSE
  /\ IF error
       THEN UNCHANGED <<phase, view>>
       ELSE /\ phase' = "reading"
            /\ view' = [Blank EXCEPT
                  !.scope = scope,
                  !.first = IF scope = "recent" /\ Len(rows) > Recent
                              THEN Len(rows) - Recent + 1 ELSE 1]
  /\ UNCHANGED <<diskVars, stage, verdict, signer, active, pending, damage>>

LoadRows ==
  /\ phase = "reading"
  /\ view' = [view EXCEPT !.last = Len(rows)]
  /\ phase' = "read"
  /\ UNCHANGED <<diskVars, stage, verdict, signer, active, pending, error, damage>>

\* A slip: only the key of the current generation is read.
LoadCurrentKey ==
  /\ phase = "read"
  /\ view' = [view EXCEPT !.keys = {k \in keys : k.gen = signer.gen}]
  /\ phase' = "judging"
  /\ UNCHANGED <<diskVars, stage, verdict, signer, active, pending, error, damage>>

LoadKeys ==
  /\ phase = "read"
  /\ view' = [view EXCEPT !.keys = keys]
  /\ phase' = "judging"
  /\ UNCHANGED <<diskVars, stage, verdict, signer, active, pending, error, damage>>

\* Every entry read is signed with a known key and linked to the one before it; the
\* very first entry of the log has nothing to be linked to.
ChainValid ==
  \A i \in view.first..view.last :
    /\ rows[i].key \in view.keys
    /\ i > 1 => rows[i].prev = HashOf(i - 1)

\* _verify_anchor: audit_state, read last, is about the last of the rows read.
AnchorValid ==
  IF view.last = 0
    THEN state # NoState /\ state.hash.seq = 0
    ELSE /\ state # NoState
         /\ state.hash = HashOf(view.last)
         /\ state.key \in view.keys

Judge ==
  /\ phase = "judging"
  /\ verdict' = IF ChainValid /\ (view.scope = "full" => AnchorValid)
                  THEN "valid" ELSE "tampered"
  /\ phase' = "idle"
  /\ view' = Blank
  /\ UNCHANGED <<diskVars, stage, signer, active, pending, error, damage>>

--------------------------------------------------------------------------------
(* The change of the master password, on the Tk thread. *)

\* The transaction of change_master_password.
ChangePassword ==
  /\ stage = "open" /\ phase = "idle"
  /\ master < MaxMaster
  /\ master' = master + 1
  /\ phase' = "changing"
  /\ UNCHANGED <<rows, keys, state, stage, view, verdict, signer, active, pending, error, damage>>

ActivateKey ==
  /\ phase = "changing"
  /\ active' = master
  /\ phase' = "changed"
  /\ UNCHANGED <<diskVars, stage, view, verdict, signer, pending, error, damage>>

\* A slip: the new key takes over the generation of the old one.
RekeyInPlace ==
  /\ phase = "changed"
  /\ pending = 0
  /\ ~error
  /\ signer' = [gen |-> signer.gen, master |-> active]
  /\ keys' = Registered(signer', keys)
  /\ phase' = "rekeying"
  /\ UNCHANGED <<rows, state, master, stage, view, verdict, active, pending, error, damage>>

\* rekey_after_master_password_change up to its first statement: the flush may raise,
\* or the next generation's signer is put in place and registered.
RekeyRegister ==
  /\ phase = "changed"
  /\ pending = 0
  /\ ~error
  /\ signer' = [gen |-> signer.gen + 1, master |-> active]
  /\ \/ /\ keys' = Registered(signer', keys)
        /\ phase' = "rekeying"
        /\ UNCHANGED damage
     \/ /\ phase' = "idle"
        /\ damage' = damage \cup {"rekey"}
        /\ UNCHANGED keys
  /\ UNCHANGED <<rows, state, master, stage, view, verdict, active, pending, error>>

RekeyRefused ==
  /\ phase = "changed"
  /\ pending = 0
  /\ error
  /\ error' = FALSE
  /\ phase' = "idle"
  /\ damage' = damage \cup {"rekey"}
  /\ UNCHANGED <<diskVars, stage, view, verdict, signer, active, pending>>

\* The second statement, signing_generation, succeeds or fails.
RekeyState ==
  /\ phase = "rekeying"
  /\ \/ state' = [state EXCEPT !.gen = signer.gen] /\ UNCHANGED damage
     \/ UNCHANGED state /\ damage' = damage \cup {"rekey"}
  /\ phase' = "idle"
  /\ UNCHANGED <<rows, keys, master, stage, view, verdict, signer, active, pending, error>>

--------------------------------------------------------------------------------
(* The session ends. *)

\* close(): the queue is drained; the GUI goes on if the flush raises.
CloseLogger ==
  /\ stage = "open" /\ phase = "idle"
  /\ pending = 0
  /\ stage' = "locked"
  /\ error' = FALSE
  /\ verdict' = "none"
  /\ damage' = damage \ {"rotation"}
  /\ UNCHANGED <<diskVars, phase, view, signer, active, pending>>

\* The program ends at any point, or is ended because the start failed.
Crash ==
  /\ stage # "locked"
  /\ stage' = "locked"
  /\ pending' = 0 /\ error' = FALSE
  /\ phase' = "idle" /\ view' = Blank /\ verdict' = "none"
  /\ damage' = (damage \ {"rotation"})
                \cup (IF phase \in {"changing", "changed", "rekeying"} THEN {"rekey"} ELSE {})
                \cup (IF stage = "signed" THEN {"seal"} ELSE {})
  /\ UNCHANGED <<diskVars, signer, active>>

--------------------------------------------------------------------------------

StartStep  == StartLogger \/ EnsureState \/ MigrateRotate \/ MigrateSign \/ MigrateAnchor \/ Open
WriteStep  == LogEvent \/ LogEventAsync \/ WorkerWrites
VerifyStep == (\E scope \in {"full", "recent"} : VerifyBegin(scope)) \/ LoadRows \/ LoadKeys \/ Judge
RekeyStep  == ChangePassword \/ ActivateKey \/ RekeyRegister \/ RekeyRefused \/ RekeyState

Next == FailedLogin \/ StartStep \/ WriteStep \/ VerifyStep \/ RekeyStep \/ CloseLogger \/ Crash

Spec == Init /\ [][Next]_vars

--------------------------------------------------------------------------------
(* Properties. *)

\* Entries wait for their signature only at the end of the log and only while no
\* session is open; every signed entry is linked to the one before it and signed with
\* a registered key.  (Rows are rewritten by the migration, which computes the links
\* anew, and the table of keys is changed by statements of their own.)
ChainSound ==
  /\ \A i \in DOMAIN rows : rows[i].key # Unsigned =>
       /\ rows[i].key \in keys
       /\ rows[i].prev = HashOf(i - 1)
       /\ \A j \in 1..(i - 1) : rows[j].key # Unsigned
  /\ stage = "open" => \A i \in DOMAIN rows : rows[i].key # Unsigned

\* A generation, once left, never signs again, and an entry is never signed with a
\* generation older than its number asks for: across restarts, rekeys and rollbacks.
KeysOnlyAdvance ==
  \A i \in DOMAIN rows : rows[i].key # Unsigned =>
    /\ rows[i].key.gen >= Target(i)
    /\ i > 1 => rows[i - 1].key.gen <= rows[i].key.gen

\* In an open session the anchor is the one of the last entry, unless the program
\* ended between signing a waiting entry and moving the anchor.
AnchorAtHead ==
  stage = "open" /\ "seal" \notin damage =>
    /\ state.hash = HeadHash
    /\ state.key = rows[Len(rows)].key

\* The log can be written: the key the next entry is signed with is registered.
CanWrite == RotatedSigner(Len(rows) + 1) \in RotatedKeys(Len(rows) + 1)

\* An idle session can write unless a rotation was rolled back in it, or a change of
\* the master password was not followed by a complete rekey.
WritableUnlessDamaged == stage = "open" /\ phase = "idle" /\ damage = {} => CanWrite

\* A verification cries wolf only if the log grew while it read, or the anchor was
\* left behind by an interrupted migration; the recent one never does.
AlarmsExplained ==
  [][phase = "judging" /\ phase' = "idle" /\ verdict' = "tampered" =>
       view.scope = "full" /\ (Len(rows) > view.last \/ "seal" \in damage)]_vars

\* The key of every entry: what an onlooker sees of the table.
Seals == [i \in DOMAIN rows |-> rows[i].key]

Trail == INSTANCE AuditTrail WITH Seals <- KeyIds, Unsealed <- Unsigned, trail <- Seals

\* The table is an append-only trail whose entries are sealed in order.
TrailKept == Trail!TSpec

\* What the tests call the unlock: with the right password the logger starts.
StartSucceeds == stage # "failed"

=================================================================================
