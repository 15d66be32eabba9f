# CryptoSafe Manager: TLA+ specifications

CryptoSafe Manager is a desktop password manager: a Tk GUI, a vault of encrypted
entries in SQLite, a clipboard that clears itself, a signed audit log, import,
export and sharing. This directory holds TLA+ modules translated from its Python
source (`src/src/...`), the TLC configurations that check them on small
instances, and theorems about them that TLAPS checks for every instance.
`PROJECT.json` ties every definition to the source lines it stands for, lists the
hazards of the code and the properties that watch them, and for every property a
plausible slip in the code that the property catches.

    tlc -workers 2 -config Clipboard.cfg MCClipboard          # likewise for the other runs
    tlapm ClipboardProofs.tla                                 # likewise for the other *Proofs

## 1. Inventory

The program is one process. The **Tk thread** runs every dialog, menu command and
`after` callback. Beside it run the two `threading.Timer`s of the clipboard
service, the clipboard monitor's polling thread, the audit log's worker, the
inactivity timer of the state manager, the activity monitor and the audit export
scheduler. They share the SQLite connection pool, the event bus (synchronous:
handlers run on the publisher's thread) and the session's services.

| component | state | operations | what makes it correct |
|---|---|---|---|
| Clipboard service (`core/clipboard/clipboard_service.py`, `platform_adapter.py`) | buffer, snapshot (state, deadline), block, two timers, adapter | copy, clear (user, timer, lock, panic), settings, block and unblock, report of an access | a copied value is withdrawn at its deadline, at a lock and at every change of adapter; the state shown is true |
| Clipboard monitor (`clipboard_monitor.py`) | expected token | told of each state; polls once a second | a foreign change is noticed, the application's own is not taken for one |
| Audit log (`core/audit/audit_logger.py`, `log_signer.py`, `log_verifier.py`, `database/audit_repo.py`) | tables `audit_log`, `audit_keys`, `audit_state`; signer, write lock, worker error | start with migration, log, rotate, verify, rekey, close | append-only, linked, signed with registered keys; anchor at the head; can always be written and reopened; no false alarm |
| Audit queue and worker (`audit_logger.py`) | queue, closed flag, one error slot | put, write, flush, close | in order, nothing lost in silence, close ends |
| Audit archives and exports (`audit_logger.py`, `log_formatters.py`) | table `audit_archives`, rotation mark, settings, files | rotate, scheduled export, deletion of old files | no row is passed over; the export on record exists |
| Audit log viewer (`gui/widgets/audit_log_viewer.py`, `audit_logger.py`) | page, filters, order, selection | query, page, filter, sort, export | who pages through the log misses nothing but what the dates of the filter or a late event move away |
| Database (`database/db.py`) | pool, connection bound to the thread, depth | execute, transaction, rollback, close | a transaction is atomic, a connection returns clean, nobody waits for ever |
| Vault session (`gui/main_window.py`, `core/security/panic_mode.py`, `core/state_manager.py`, `core/crypto/authentication.py`) | locked or not, the session's database, key and services, dialogs that wait | unlock, logout, automatic lock, panic, exit, the menu's dialogs | an open vault is open as a whole; after a lock nothing of the session is left; a lock that is due happens; a login or unlock that an exception cuts short leaves nothing unaccounted for |
| Activity monitor (`core/security/activity_monitor.py`) | last activity, locked, a thread | record, probe, decide, stop, start, resume | no lock before the time is up, one per absence, none forgotten |
| Event bus (`core/events.py`) | subscribers | publish | a handler that raises does not leave a lock half done |
| Entries and their encryption (`core/vault/entry_manager.py`, `encryption_service.py`, `database/repo.py`) | tables of entries, deleted entries, settings and keys | create, update, delete, purge, save settings, change of the master password | every row can be decrypted with the stored password; what the window lists is the vault |
| Keys (`core/key_manager.py`, `core/crypto/*`) | cached key and its deadline | activate, get, clear | no key while locked; a key that is used is the current one |
| Import and export (`core/import_export/importer.py`, `exporter.py`) | checkpoint row, history, files | preview, import (merge, replace, partial), export | an import is done as a whole or resumed without loss; a file is complete or absent |
| Sharing (`sharing_service.py`, `database/exchange_repo.py`) | shares, their status, used nonces | share, receive, revoke, expire | a share is accepted once |
| Contacts and QR (`key_exchange.py`) | contacts and their keys; frames | add, verify, rotate, revoke; cut, decode | a confirmation belongs to the key it was given for; frames are joined only as they were cut |
| Guarded memory (`core/security/memory_guard.py`) | blocks, their canaries, the set of secrets | protect, read, close, wipe all | wiped means wiped, whoever is reading |
| Search and list (`gui/main_window.py`, `core/vault/search_service.py`) | loaded entries, index, text, category, timers, table | load, search, filter, change | the table shows what matches |
| Password generator (`core/vault/password_generator.py`) | history of passwords | generate, judge | every group, strong, new |
| File formats, URL tools, secure buffers, widgets, platform hardening | – | – | sequential code or calls of a library; see section 7 |

**How they interact.** Unlock (`_finish_unlock`) derives the key, starts the audit
logger, then the clipboard service with its monitor, then the timers; the lock
undoes this in reverse. Every service publishes events; the audit bridge turns
them into `log_event_async`, so the Tk thread, the clipboard's timers and its monitor
are all producers of the audit queue. A clear of the clipboard tells the monitor
through `_notify`, after the service's lock is released. A change of the master
password re-encrypts the vault in one transaction and afterwards, in statements of
its own, moves the audit log to a new key. The clipboard, the audit log and the
entries all write through the same pool of connections.

**What is hard here.** `Timer.cancel()` does not stop a timer whose thread has left
its wait; locks are released before callbacks; checks come before the lock that
should cover them (`copy_text`, `log_event_async`, the monitor's token); what
nested event loops run callbacks and whole logins inside a handler that waits for its dialog; what
belongs together is committed by several statements (keys, entry, anchor; password
change and rekey; archive and mark; imported entry and checkpoint); memory moves
ahead of a transaction that is rolled back (the signer); errors of a background
thread surface in another operation later (`_worker_error`). `PROJECT.json` lists these
hazards by source line.

## 2. Modules

| module | role |
|---|---|
| `ClipboardPromise` | abstract: one secret at a time, held on a lease, no time passes on a lease that is used up |
| `Clipboard` | the service, its two timers, the adapters, other applications; a monitor that may report a change at any time |
| `ClipboardMonitor` | `Clipboard` with the real monitor, whose passes decide when it reports |
| `AuditTrail` | abstract: an append-only trail, sealed in order |
| `AuditLog` | the signed log on disk and the logger's start, writes, verification, rekey, close and crash |
| `AuditQueue` | producers, queue, worker and close |
| `Database` | the connection pool, the threads that use it, their transactions, and SQLite as the code uses it |
| `VaultSession` | one run of the program: login, session, lock, panic, exit, with the dialogs that wait |
| `VaultPromise` | abstract: entries added, changed, deleted, erased, one at a time and as a whole |
| `EntryVault` | encrypted rows, transactions, the change of the master password, the cached key, the list |
| `Importer`, `Exporter` | files into the vault and out of it |
| `Nonces` | the clock and the table of used nonces, shared by the next two |
| `Sharing`, `QRCode` | packages and contact keys; envelopes cut into frames |
| `MemoryGuard` | protected secrets and the set that tracks them |
| `ActivityMonitor` | when the vault is locked by itself |
| `AuditArchive` | archives of the audit log, and its scheduled exports |
| `AuditViewer` | the audit log, page by page |
| `SearchTable` | the list of entries, its index and its table |
| `PasswordGenerator` | generation and judgement of passwords |
| `MC...` | model values and sets for TLC; `MCWindow` and `MCServices` take several modules and check one of them at a time |
| `AuditLogProofs`, `AuditQueueProofs`, `DatabaseProofs`, `VaultSessionProofs`, `EntryVaultProofs` | theorems about the module they are named after |
| `ClipboardProofs` | theorems about `Clipboard` and `ClipboardMonitor` |
| `ExchangeProofs` | theorems about `Importer`, `Exporter`, `Sharing` and `QRCode` |
| `ServicesProofs` | theorems about the six smaller services |

Operators named as a slip ("A slip: ...") are the mutated forms of a neighbouring
definition that `PROJECT.json` lists; no specification uses them.

### Clipboard

*State and code.* `buffer`, `status`, `remaining`, `blocked` are `_buffer`, the snapshot's
state and deadline and `_blocked`; `clearTimer` and `warnTimer` the armed timers;
`clearThread` and `warnThread` threads that have left their wait and are on their way to
the lock; `copying` and `telling` are the two places of the Tk thread outside the lock: between the
checks of `copy_text` and its locked section, and between that section and
`_notify`. `platform` is what the clipboards hold, `stuck` remembers a failed adapter
call, `abandoned` a clipboard whose value an alarm let go of while it was still there.

*Steps.* A section under the service's `RLock` is one action with everything it does
(`CopyPlace` discards, writes, schedules). `LockVault` is
`_clear_sensitive_data`, `UnlockVault` the fresh service of the next session,
`ReplaceAdapter` the settings' change of `ephemeral`. `_timer_clear` is `FireClear` (the
thread starts), `TimerClear` (it has the lock) and `TimerTell`.

*Abstractions.* Time is counted in ticks of five seconds, the unit of the code's own
constants (warning and accelerated clear five seconds before the end). A tick
passes only when no thread is ready to run: the latency of a thread is small
against five seconds. A system call that raises may have done its work or not, so
`AdapterClear` and `CopyFail` choose. The fallback adapter writes the same system
clipboard and behaves as a further outcome of the same calls. Masking and texts
are left out.

*Monitor.* In `Clipboard` the call `external_content_changed` may come whenever the service holds a value
(`ReportChange`), rightly or not. `ClipboardMonitor` has the passes that make it, and is what the runs check: it implements `Clipboard` (`MonitorImplements`), about which the theorems are. Tokens are the content at the time of reading, and whether the clipboard was
written since: the hash adapters then compare equal if the content is, the change-counter
adapters do not, and the model allows both. A pass is three steps (`PollRead`,
`PollCompare`, `PollAlarm`) because the code takes no lock between reading the expected token,
comparing and reporting.

### Audit log

*State and code.* `rows`, `keys`, `state` are the three tables, `master` the key the vault
is under. An entry is the key it is signed with and the hash it is linked to; a
hash is the entry's number and whether it was signed, which is all that ever
changes about an entry. `signer` and `active` are the logger's signer and the key manager's
key, `pending` and `error` the queue seen from outside. `stage` follows `AuditLogger.__init__`,
`phase` the Tk thread's verification or password change. `damage` is history: which
of the multi-statement operations was cut short.

*Steps.* Every statement or transaction that commits is a step, for SQLite commits it whole or not at
all; a step that fails rolls back what is on disk but not `signer` (`WriteFails`). `Crash` may
come between any two. Verification is `VerifyBegin` (flush), `LoadRows`, `LoadKeys`,
`Judge`, one per query, since `verify` neither opens a transaction nor takes the write
lock.

*Abstractions.* Signatures, hashing and key derivation are injective, as a library is
trusted to be. `_initial_chain_state` reads a hash that no write changes, so it is
read with the rows. After a red verdict the GUI may lock the vault; the model lets the
session go on, which has more behaviours.

### Audit queue

`hand[p]` is the event a producer is carrying between the check of `_closed` and
`put`; `unfinished` is `queue.Queue`'s own count; `worker` holds the event being written, `closer` the Tk
thread inside `close()`. What a write does is in `AuditLog`; here it succeeds or raises.
The modules meet at `pending` and `error`: a worker's failure there is `Dropped` here.

### Database

*State and code.* `pool` is the `LifoQueue` `_available`; `bound` and `depth` are the thread-local `connection`
and `depth`; `held` is the connection a thread has inside `acquire()`. `job`, `place` and `part` say what
a thread is doing: a write transaction, a read transaction or a single statement, and how many of its
statements it has executed. `inTx`, `tx`, `writer` and `disk` are SQLite's: open transactions with what they
have written, the write lock, what is committed. `loose` is history: jobs that were begun while
their thread was bound to a connection it no longer held.

*Steps.* `Take` is `Queue.get`, `Begin` and `BeginFails` are `BEGIN` or `BEGIN IMMEDIATE`, `Statement` is
`_execute_on`; `Enter` and `Exit` are nested transactions. `Fail` and `Finish` carry out the clauses of both context managers
(ROLLBACK or COMMIT, unbinding, putting back), since the thread holds its connection until the last of them. `CloseDrain` and
`CloseConnections` are the two loops of `close`. A failing `BEGIN` leaves `bound` and `depth` as they are, as the
code does; the calls that follow on that thread are nested ones, and everything they do is modelled too.

*Abstractions.* Statements are numbered and have no content, so `executemany` is a statement. SQLite's rules are stated from
how the code configures and uses it: WAL, so that readers do not wait; `isolation_level=None`, so that a statement outside a
transaction commits by itself. The code does not roll back after a COMMIT that raises: COMMIT is in the `else` branch (db.py:181), which no `except` covers. `Fail` lets such a
transaction end without its writes all the same, on the assumption that SQLite itself rolls back on the errors a COMMIT can meet here (disk full, I/O error; the write lock is already held).
Read transactions do not nest. `rollback()` has no caller in the program; the schema is created before any other thread
exists. `AuditLog` and `EntryVault` take from this module that transactions are atomic.

### Vault session

*State and code.* Every login opens a `Database` with its own `KeyManager`; a handle names both and everything built on them.
`db`, `mgr`, `audit`, `clip`, `master`, `overlay` and so on are attributes of `MainWindow`; `openDbs`, `keys`, `loggers`, `bridges`, `clips` say what is
still alive, whoever refers to it. `lost` is history: the sessions and databases that a login overwrote while they were there, that the end of a failed login
closed under their session, or that an audit write that raised left open. `due` holds the `after` callbacks whose time has come. `stack` is the Tk thread: the handlers that
wait in `wait_window` or a message box, each with the database it was started for and whether panic has closed its dialog. Only the innermost
can return, callbacks and the tray may run inside, and a handler that returns goes on with what `self.db` and `self.repo` are *then*.

*Steps.* A handler is one action from an event to its return or to the dialog it waits for, with everything it
publishes. `Logout` is `_logout`, including the two events before it: when the subscriber is the audit bridge and the log cannot be written,
it raises and nothing else of it happens (`PublishRaises`). Where a handler writes to the log at once, the write may raise and the rest of the handler is not
reached (`auditOk`, `LogWrites`): `FinishUnlock` can end at the construction of the logger (line 511) or in `_start_security_subsystem` (line 994), with the
logger and the monitor made but no clipboard service, tray state, list or recovery from a panic; `LoginFails` before its message (line 465), with the database open;
`SettingsSaved` like an unlock; `SecurityLock`, the automatic lock, before it locks; a verification, at its start and in recording its failure. `overlay`, the
sign "Vault is locked" over the table, is lowered by a complete unlock only, and its button leads to another login (`UnlockFromOverlay`), also over a vault that is half
open. The tray works at any time. `Exit` is `_on_close`.

*Constants.* `AuditCanFail` switches failing writes of the log on; it is off in `SessionReentry` alone, to show that this one needs none.

### Vault entries

*State and code.* `disk` and `work` are the tables as committed and as the open transaction sees them; a row is a value and the generation of the
key it is encrypted under. `todo` are the statements the handler still has to execute, so that every change, that of the master password too,
can fail or be killed at every statement. `active`, `idle` are `KeyStorage`; `listed` is the window's list.

*Steps.* `Step` executes a statement, `Commit` the transaction, `Rollback` any failure before it, `ActivateKey` what `change_master_password` does after
its commit, `Publish` the event of a change and `Reload` the list. `DeleteSelected` begins the loop of `_delete_entry`: `selected` is what it has still to delete, each entry
(`SoftDelete`) in a transaction and with an event of its own, an entry that is gone already passed over (`Continue`); only after the last one is the list read. A failure in the
middle leaves it as it was. A change of the password and saved settings do not read the list at all. `HardDelete` has one caller, an import that replaces the vault. The three tables re-encrypted by `change_master_password` are read before its transaction,
on the thread that runs everything else, too.

### Import and export

`Start` is `import_data` up to its loop, with the acceptance of the file (`Accepted` names each check) and the plan of the preview; `Apply`, `Announce` and `Checkpoint` are
the steps of an entry in partial mode (the row is committed, its event published, the checkpoint saved), `Commit`, `ClearCheckpoint`, `Record` the end.
`Fail` is any exception in the loop, `Failed` the `except` branch with its own failure, `ImportCrash` a kill. `known` is the dictionary that is
read once and kept up by `_apply_one`. What is imported is told apart by identity (normalized title, user name, URL) and content. `Exporter` follows `export_to_file`: `Encode` ends with
the row in the history, then the temporary file is made, written, and replaces the destination.

### Sharing, contacts, QR codes

`handler` is `receive_share` between two of its steps; time may pass and any of them may raise (`ReceiveFails`). `nonces` holds the nonce with the
expiry it was stored with: `mark_nonce_used` deletes what has expired before it looks. `Foreign` packages come from other vaults. `contact` and `activeKeys` are the two tables in which a
contact's key is kept. A frame of `QRCode` knows the coding it was cut by, its index and whether it was read rightly; a hash is as good as what it is taken of.

### The smaller services

`MemoryGuard`: `holder` is who is in the lock of a secret; `WipeBegins`, `WipeNext`, `WipeEnds` are the copy of the set, each close, and the clearing of the set. `ActivityMonitor`:
a thread is at one of the steps wait, probe (outside the lock), decide (inside), call; `stop` gives up after two seconds, so old threads may live on beside new ones.
`AuditArchive`: `RotateReads`, `InsertArchive`, `MoveMark` are the three statements of `rotate_if_needed`; `ExportDue`, `WriteExport`, `RecordExport`, `DeleteExpired` those of
`run_if_due`. `AuditViewer`: `Count` and `Select` are the two statements of a page, and `Load` is
`_build_query`, which computes the first date from the clock for every page anew: `Age` makes a row older than the filter's days, and `cut` is what the current query leaves out for that; one number of
days stands for the three of the box, and a clock that is set back (rows come back) is left out. `SearchTable`: the category is picked (`PickCategory`, which searches) or typed (`TypeCategory`, which does not); `timers` are the searches scheduled with `after`, of which `_search_after_id` knows one
at most; every query may fail. `PasswordGenerator`: `Choose`, `Shuffle` and `Judge` are the loop of `generate`, random choices are nondeterministic.

## 3. Runs

| run | question | bounds |
|---|---|---|
| `Clipboard` (passes) | Are deadlines always watched, is nothing left behind, is the shown state true, is the promise kept, is everything cleared in the end; when does the real monitor err, and what does it notice? | `ClipboardMonitor` with two secrets, one foreign text, and the four profiles: a timeout of 30, 15 or 5 seconds or none, strict or not, both adapters; failing reads |
| `ClipboardAlarm` (violation) | Does every copied value with a timeout leave the clipboard? | one profile with a timeout, reads that succeed |
| `AuditLog` (passes) | Chain, anchor, ability to write, explained alarms, append-only trail | four entries, rotation every two, "recent" is two, two password changes, two queued events |
| `AuditQueue` (passes) | No silent loss, a complete flush, and when closing ends | two producers, three events |
| `Database` (passes) | Are connections and transactions accounted for and atomic, does nobody wait in a circle, and does every job end? | three threads over two connections; two write transactions and a read of two statements, a single statement, nesting up to three |
| `VaultSession` (passes) | Is the session whole while open and gone when locked, is it quiet after a panic, does a lock that is due happen? | three databases with something left of them at a time, three waiting handlers, failing audit writes |
| `EntryVault` (passes) | Is every row readable under the stored password, the list current, the promise of the vault kept? | three entries, one read-only; one setting, two values, two master passwords |
| `Window` (passes) | Imports and exports whole, shares accepted once, contact keys and frames sound? Does who pages through the audit log, or searches the vault, see what there is? | files of up to three entries, a vault of four, three attempts; two packages, two keys, three ticks; three frames of two envelopes; three events of two types in pages of two, any of them ageing; three entries of two categories in pages of one, two timers |
| `Services` (passes) | Is memory wiped, is a lock justified and the watch kept, is the log archived, are passwords sound? | two threads and two blocks; two watching threads, three ticks; two rows, three days; passwords of three characters |
| `AuditFail` (violation) | Does the logger always start with the right password? | as `AuditLog` |
| `SessionReentry` (violation) | Does the exit clear the keys? | two databases, three waiting handlers, no failing writes |
| `SearchAfterSettings` (violation) | Does a search find what is there? | as `Window` |

*Why the bounds are enough.* Two secrets tell an old value from its successor, which is what
every race of the clipboard is about; the settings are the code's own profiles in ticks (6, 3, 1,
none): with and without room for a warning, with and without room for an access report to shorten
them. Four entries with a rotation
every two cross two generations, allow an unsigned tail of more than one generation, and let the
recent range begin in the middle of a linked chain; two password changes have a
second one on top of a damaged first. Two producers and three events have two events
of one producer and one of another in any order, with both put behind the
stop marker. Three threads over two connections have one waiting for a connection while another waits for the
write lock; two write transactions compete for it; two statements can be cut in the middle. Two databases are the old and the new one of
a reentrant login, and four waiting handlers are more than any chain of dialogs that matters here: a dialog, its question, a failed login and its message.
Three entries are one to change, one deleted and one read-only; two generations are before and after a change of the password, and either may be cut
short. A file of three entries has an identity twice with another in between; three attempts have a failure before and after the checkpoint. Two packages and three ticks have one
expire while the other is decrypted. Three frames have a part missing, repeated, or of a second coding. Three events on pages of two, three entries on pages of one, three days
and two rows have something before, on and after every boundary. The constants of the code (rotation after 1000, recent 1000, a queue without
limit) differ in size only; the theorems of section 5 hold for all of them. `MaxRows`, `MaxMaster`,
`MaxPending` and `MaxDepth` are bounds of the models and not of the code.

*Fairness.* `MFairness` of `ClipboardMonitor`: threads that are ready run (the steps of `UIStep` and `TimerStep`), time passes
(`Tick`), and the daemon's polling loop goes on. Nobody has to copy, lock, unlock or report; since the monitor waits a second between passes, they do not hold up time (strong fairness of `Tick`). `AuditQueue`: a put once begun ends, the worker works, `close` goes on from
its flush. `Database`: a thread in the middle of a job goes on, with the next statement or an exception; BEGIN succeeds
or gives up, because `sqlite3` waits five seconds at most. `VaultSession`: Tk runs the lock that is queued, in the main loop or in
the nested one; nobody has to close a dialog. `Services`: the monitor's threads go on, for their waits and probes have timeouts. In `Database` nobody has to call, to nest or to close. Elsewhere weak fairness is enough: none of these steps can be disabled
again and again by somebody else, except by being done.

*Deadlock.* It is checked, except in the runs of `AuditQueue`, `Database` and `VaultSession`: the first system ends when the
logger is closed and every event has been published, the second when the database is closed or every job is
done, the third when the program has ended. That no job is stuck while the pool is in use is `JobsEnd`.

## 4. What the runs show

The core works as designed under the interleavings modelled: every deadline the
user sees is watched by a timer (`DeadlineIsArmed`); nothing
copied outlives the service's hold on it unless an adapter call failed or an alarm of the monitor let
go of it (`NoSecretLeftBehind`), and with the same two exceptions a value with a timeout is withdrawn
in the end (`EventuallyCleared`). The second exception is real: see the first run below. The log's chain and anchor survive
crashes, rolled-back rotations and interrupted migrations (`ChainSound`,
`AnchorAtHead`), a verification of the recent range never cries wolf
(`AlarmsExplained`), and the worker loses nothing silently until the logger
closes. Connections and transactions of the database come back after every
failure (`ConnectionsAccounted`), transactions are atomic once they have begun
(`AllOrNothing`), and every job comes to an end, by the timeouts of SQLite
if need be (`JobsEnd`); that they need not break a circle of waits is proved (`NoCircularWait`, section 5).

A session is whole while it is open and leaves nothing when it is locked (`SessionWhole`, `LockedHoldsNothing`), although its handlers are resumed in sessions they were not
started in and audit writes end them half way: whatever is not where it should be is in `lost`. How a session gets lost is shown by the run `SessionReentry`
below; for one that is not, its database, key and password are there until the lock, which clears them also when the unlock never came to its end. After a panic the program does not ask for a login of its own accord
(`QuietAfterPanic`), but an unlock that an audit write ended leaves the panic in force over an open vault, and its lock asks again. A lock that the activity monitor asks for happens as long as the log can be written (`LockHappens`): `_handle_security_lock` and
`_logout` write to it first, and the failure of that write is what the property has to exclude. Whatever is cut short, no row of the vault is left under a key that no password gives
(`Readable`), and to a user the vault is one that has neither keys nor transactions (`KeepsPromise`). An import that is not partial changes the vault once and completely
(`ImportWhole`), a partial one applies an entry twice only where the record of the first time was lost (`ImportedOnce`). A package is accepted once, except one that
expires while it is being decrypted, whose mark is then deleted with it (`NoReplay`); the same holds of an envelope (`OpenedOnce`), and frames are put together to what they were cut from or refused (`FramesSound`).

Four places where the code and what it says of itself disagree have a run (quotes in `PROJECT.json`):

1. `ClipboardAlarm`: a copy that overlaps a pass of the monitor raises a false alarm, which cancels the timers of the new value and
   leaves it on the clipboard for good.
2. `AuditFail`: if the rekey after a password change is cut short, the next start registers no key
   for its generation, and one failed login makes every later start raise.
3. `SessionReentry`: a login from the tray while the message of a failed one is shown loses its database to it, and its key survives the exit.
4. `SearchAfterSettings`: saving the settings empties the search index, not the list, and a search finds nothing until the list is loaded again.

Others follow from the models without a run of their own. Properties that fail in general are kept in the form that holds, and that form names the exception:

- An expired timer's thread that waits for the lock clears the value copied or prolonged meanwhile (`FireClear`, then `CopyPlace`, then `TimerClear` in `Clipboard`), and a clear does not look whether
  the clipboard is still its own: another application's text may be erased (`docs/user_guide.md:71` says it is not).
- `NoFalseAlarmAtRest` excludes the overlap of a pass and a copy that `ClipboardAlarm` shows. The late notification of an old clear can end the watch of a newer value;
  `WatchedChangeNoticed` speaks of a watch that stays.
- An event written during a full verification turns it red: `AlarmsExplained` names the case.
- An event put behind the stop marker is never done, and `close` joins for ever: `CloseEndsIfQuiet` excludes it.
- After a BEGIN that failed, the thread stays bound to its connection, and its next transactions are none: `AllOrNothing` leaves out jobs that are `loose`.
- An audit write that raises during the unlock (`main_window.py:511` or `:994`) leaves the key in memory and the vault usable under the sign "Vault is locked", whose button starts another login over it:
  `SessionWhole` asks of such a session what was made of it, and `LockedHoldsNothing` that a lock releases it.
- If `_logout` or the automatic lock cannot write to the audit log, the vault stays open and the monitor does not ask again.
- In replace mode the preview counts against the vault that is about to be emptied; `ResultAsPlanned` speaks of merges. An import whose checkpoint, history or audit
  entry fails after the commit is reported as failed though it is done. An export is in the history before its file exists.
- The window scans QR codes one frame at a time, so an envelope of several frames is refused there as incomplete; `QRCode` models the service, which takes lists.
- Deleting several entries ends at the first failure without reading the list again (`main_window.py:731`), so it goes on showing those that are gone: `ListIsCurrent` exempts it, with
  a change that was stored but not announced or not read back (`stale`). Deleting the rest again passes over what is gone and brings the list up to date.
- A secret protected while `wipe_all` runs leaves the set without being wiped (`escaped`); the program itself calls both on one thread.
- After its callback has raised, the activity monitor's thread ends while it still counts as monitoring (`broken`).
- A page of the audit viewer that fails to load leaves the old rows under the new number; a filter that is typed and followed by a reload keeps the page (`disturbed`).
- The audit viewer can skip events without any failure, and `NothingSkipped` exempts exactly these. With a date filter, rows that become too old between two pages leave the list, and
  those behind them move up, perhaps onto a page that was already turned (`MovedUp`; `audit_log_viewer.py:355`). An event written between the count and the selection of the last page may push a row off
  it to a page that the window does not count (`grown`; `audit_logger.py:263` and `:279`).
- `SearchComplete` does not speak of a table whose index the settings replaced (`unindexed`, the subject of `SearchAfterSettings`), of a text or category typed since the last search (`typed`), or of failed queries (`behind`, `partial`).

## 5. Proofs

The theorems hold for every value of the constants allowed by the assumptions named in the modules: any sets of secrets and
settings, any timeout; any rotation interval, any length of the log, any number of password changes; any producers, databases,
waiting dialogs, entries, files, contacts, packages and frames; any log and any page of it; any password asked for. Every safety property of the
runs that pass is the statement of a theorem.

`ClipboardProofs` (from `ClipboardAssumption`). The inductive invariant is

    IInv == TypeOK /\ ClosedIsEmpty /\ DeadlineIsArmed /\ StatusHonest /\ NoSecretLeftBehind

The last three are properties of the run; the first four together are `ServiceInv`, what the service knows of its own state. A report of the monitor is a step like any other, at any time. They need one another: `Tick` keeps `TypeOK` (a
countdown that missed its end would leave Nat) because `DeadlineIsArmed` ties `remaining` to a timer that `Settled`
does not let pass, and `ReplaceAdapter` keeps `NoSecretLeftBehind` because only the adapter in use
can hold the value. `ClosedIsEmpty` (a closed session has no value, no timer and no Tk step under way) is the strengthening that `UnlockVault` needs: the fresh
service takes over the variables of the old one. There is one lemma per group of actions; the
theorems `TypeCorrect`, `DeadlinesArmed`, `NothingLeftBehind`, `HonestStatus` follow, and `Refinement` shows that every step is a step of
`ClipboardPromise` or leaves it alone.

`AuditLogProofs` (from `AuditAssumption` and `UnsignedAssumption`). The inductive invariant is

    IInv == TypeOK /\ Bookkeeping /\ ChainSound /\ KeysOnlyAdvance /\ GenerationBound /\ AnchorFollows

`Bookkeeping` relates `stage` and `phase` and says when the state row exists; `GenerationBound` says that no row is signed
with a generation beyond the one the session, or the next one, signs with or moves to for that row,
which is what keeps generations from going back after a restart or a migration; `AnchorFollows` generalises `AnchorAtHead` to the stages of a migration. The
arguments about the chain rest on two lemmas: an appended entry and a newly signed first entry both leave
the hashes before them alone. `Refinement` maps the log to `AuditTrail`.

What a session may rely on needs more, and the second half of the module strengthens that invariant to

    SInv == IInv /\ KeyInv /\ ViewSound

`KeyInv` says which keys the table may hold. Two facts carry it: `KeysBounded`, that no key is of a later generation than the disk,
an open rekey or the next entry to be signed asks for, and `KeysCurrent`, that the keys the next start or rotation may meet are of the current
password. The first makes a rekey's key the only one ahead of the disk (`NoKeyAhead`), the second makes `INSERT OR IGNORE` harmless: a row
that blocks it is the key itself. Both fail after a rekey that was cut short, which is what `damage` remembers and the run `AuditFail` shows. `AlwaysWritable` follows
for an idle session, by cases on whether the next entry rotates the signer. `ViewSound` says that what a verification has read stays true while others write; with it the
chain is always found valid and only a log that grew, or a stale anchor, raises an alarm (`NoCryingWolf`).

`AuditQueueProofs` (from `QueueAssumption`): `IInv == TypeOK /\ Counted /\ Accounted`. `Counted` says that the count `join` waits for is what is in the queue
and in the worker's hands; `Accounted` that an event that was put is one of these, written, or lost with an error that is pending or was raised. When the flush of `close` returns the
count is zero, so only the last two are left (`CloseIsComplete`).

`DatabaseProofs` (from `DatabaseAssumption`): any threads, any size of the pool, any number and length of jobs. The
inductive invariant is

    IInv == TypeOK /\ Places /\ JobsOwned /\ Shared /\ TxOwned /\ TxContents /\ AllOrNothing

`Places` ties what a thread holds and is bound to to where it is; `Shared` says that pool and threads share out the
connections; `TxOwned` that a transaction is open exactly while the thread that holds its connection is in its body; `TxContents`
that it contains exactly the parts its job has executed so far, apart from what loose jobs have strayed into
it. From the last two follows the heart of `Atomicity`: a COMMIT brings all the parts of the thread's own
job to the disk and none of another strict one, and a statement that commits by itself is never one of a strict transaction. `LeaveInv` treats
the end of a job once for `Fail` and `Finish`. `PoolCorrect` and `LockCorrect` follow from `Shared` and `TxOwned`. `NoDeadlock` is the safety half of `JobsEnd`, without
its timeouts and exceptions: whoever has the write lock is in the body of a transaction and needs nothing more, and if the pool is empty somebody has a
connection (`Shared`), who has the lock, or finds it free. It takes one more invariant, `Depths`: a thread never has fewer levels to leave than its outermost call, and executes no
more statements than it has.

`VaultSessionProofs` (from `SessionAssumption` alone). The inductive invariant is

    IInv == Types /\ Accounted /\ (locked = (mgr = None)) /\ ... Whole, Visible, Asking or Ended

`Accounted` says that every key, database, logger and clipboard thread is one the window still refers to, or lost; `Whole` that a session that is not lost has its
database and key; `Visible` what an uncovered table implies, which is only true after a complete unlock; `Ended` what is left after the exit. `Asking`, without a session, needs the
stack: a database that is not lost is then that of a failed login whose message still waits, with nothing above it but login dialogs and warnings (`Reported`). Those are the only dialogs
that can be opened then, and the only ones whose end cannot give that database a key, as that of a password dialog would.

`EntryVaultProofs` (from `VaultAssumption`). The inductive invariant is

    IInv == TypeOK /\ Sound(disk) /\ Places /\ KeyCurrent /\ Decided /\ ListFollows

`Sound` says that everything is under the stored password and no entry is current and deleted at once. Instead of following the open transaction row by row, `Decided` says that it has one
`Outcome` from its beginning: every statement still in `todo` writes what the outcome has at its place, and every place without such a statement has it already
(`Leads`). So a commit, when nothing is left to do, writes the outcome, whose soundness is shown once for each operation, the change of the master password included (`Renewed`).
`KeyCurrent` says that the session's key is the stored one but between the commit and the activation. `AlwaysReadable` and `ListCorrect` follow, and `Refinement`
shows that a commit is one step of `VaultPromise` and every other step none.

The second half of `ClipboardProofs` is about the service with the real monitor (`ClipboardMonitor`, from `ClipboardAssumption` and that module's `MonitorAssumption`). The steps of the service are
those of `Clipboard`, so `ServiceInv` is kept by the lemma above; the invariant adds two facts about the token:

    MInv == ServiceInv /\ MTypeOK /\ WatchFresh /\ PassHoldsToken

`WatchFresh`: unless a copy is still to be reported to the monitor, a token it watches was read when the value it stands for was on the clipboard, and nothing has been written there
since. `PassHoldsToken`: a pass that has begun holds a token. `NoFalseAlarm` follows: for a value that is where it was put, a pass finds a difference only if a read failed, a
copy is not reported yet, or the watch moved on since the pass began. `MonitorImplements` shows that
every step of the composition is one of `Clipboard` or changes nothing there, the alarm at the end of a pass being a `ReportChange`: so `MonitoredService` (nothing left behind, deadlines, state) and `MonitoredRefinement`
(the promise) hold with the real monitor too.

`ExchangeProofs`:

- Import, from `ImportAssumption` (a readable file is a sequence of entries; a vault has room for what a file brings, so that `FreeId` finds an identifier not in use).
  `ImportInv` says where an import stands: `Histories`, that an entry up to the cursor has been applied at least once, and at most once more for every record of it that was lost, which is what
  `ImportedOnceEach` is about; `Position`, how cursor, checkpoint and counts agree with its phase; `HasRoom`, that there are identifiers left for the rest of the file. `PlanInv` adds that
  the known identities are those of the vault and of the entries applied (`KnownSoFar`), and that the counts so far are those of the plan over the beginning of the file, hence `MergeAsPlanned`.
  `WholeInv` relates, for every identity, the vault the import began with, its working copy and the file up to the cursor (`SettledFor`, and `Doubled` where duplicates
  are kept). `ImportedWhole` follows, an action property: only a commit changes the vault in an import that is not partial, and it brings the working copy.
- Export (no assumption). `ExportInv`: a package that is being written is in the history and only a complete file is about to replace another.
- Sharing, from `SharingAssumption`. `PackagesSound`: a package that was accepted and has not expired still has its row among the nonces (`Marked`), with its own expiry, which is
  why the deletion of expired rows cannot forget it; what `receive_share` is about to save was accepted more often than it was saved. `ContactsSound`: the two tables of a contact's
  key agree, and a key counts as verified only if its own fingerprint was confirmed.
- QR codes, from `QRAssumption` (`encode_chunks` cuts at least one frame). `EnvelopeOnce` follows from the same argument about nonces as for shares. `FramesPutTogether` is about the loop of
  `decode_chunks` over lists of any length: `ReadRightly` says what has been read of the first n frames, in both directions (what was read is all of them, and they are refused only if they are
  not all intact and alike). `LoopDefined` shows first that the recursive function that models the loop is one.

`ServicesProofs`, each part from the assumption of its module (`GuardAssumption`, `ActivityMonitor`'s `MonitorAssumption`, `ArchiveAssumption`, `ViewerAssumption`, `GeneratorAssumption`, `SearchAssumption`: types of
the constants, and that the values that stand for "none" are none):

- `SecretsWiped`: every block in the list of a `wipe_all` that runs is zero, still to be wiped, or in the hands of a thread that closes it under the secret's lock (`NoneLost`, `WipedBehind`), so it is zero when the
  list is done; a read in the lock finds the secret, for nobody else can write then (`Entered`).
- `OnlyIdleLocked`: an idle time that was read outside the lock is never longer than the user has really been away (`NeverOlder`), so a decision made from it later is not premature.
- `NothingUnarchived`: a rotation under way starts behind the mark and ends within the log; the archives cover what is up to the mark at each of its statements, and a
  kill in between can only repeat rows (`WholeArchive`). An export on its way to be recorded is on the disk and was
  written not before its time (`Fresh`), so the deletion by age cannot take the one the settings name, as long as the clock is not set back (`ExportsInv`).
- `WholeLogSeen`: the `Place` of a row in the order of the list never gets earlier when rows are added (`LaterPlaces`), and a row that is still due keeps it when others become too old, for these come after it
  (`PlaceKept`); so after p pages every due row whose place is on the first p has been `Seen` (`SeenStays`, `SeenKept`). The last page holds the last place, if the count it was laid out by still holds (`PagesEnough`).
  Not due is a row that moved up for a row before it that became too old; see section 4.
- `GoodPasswords`: a `Candidate` has a character of each group, and the shuffle, a sequence of swaps, keeps it one (`SwapKeeps`).
- `SearchShowsAll`: six pieces of state that ten handlers update in part are held together by four facts, `Counted` (the pages loaded are the first ones of the vault), `Indexed` (they are indexed, or the
  index is new, which the theorem exempts), `Found` (the table shows what the last search found in them) and `Whole` (that search had loaded all there is). `ApplyInv` treats every search once, whoever asks for it.

Recursion and induction. The theorems of the library about induction take an operator as their parameter, which the provers cannot instantiate; the well-foundedness of the natural
numbers, which speaks of sets, is enough in its place: `LeastMember` and `GreatestMember` of a set of numbers in `ServicesProofs`, and `AllNumbers` (a set with 0 and all successors) in `ExchangeProofs`. The loop of
`decode_chunks` is therefore a recursive function of the number of frames. What takes an operator, as `SelectSeq` and the folds do, stays as it is: the proofs
use that `Search` of equal lists is equal, and the judgement of a password's strength is not looked into.

Only model-checked are the properties that depend on fairness (`EventuallyCleared`, `WatchedChangeNoticed`, `CloseEndsIfQuiet`, `JobsEnd`, `LockHappens`, `WatchKept`): liveness is beyond the
prover. `TypeOK`, `KeysOnlyAdvance`, `LockReleased` and `NoCircularWait` are proved, and no run repeats them; where a module without proofs of its own has a `TypeOK`, it
documents the types.

## 6. Plan

All components whose state can go wrong are modelled, and the safety properties of the runs are proved. What is left, the most consequential first:

1. `Database` as an implementation of a store of atomic transactions, which is what `AuditLog` and `EntryVault` take it for.
2. `AuditQueue`: that nobody waits in a circle while `close` joins, as `NoDeadlock` shows it of the pool.
3. The archive and viewer over the same log.

## 7. Not modelled

- A second instance of the program on the same database: the code does nothing about it but rely on SQLite's locks.
- Ciphers, hashes, key derivation, signatures and the operating system's key chain (libraries; what they promise is the models' notion of a key, a hash, a token).
- File formats, the envelope of encrypted packages, the sanitizing of imported text, masking, wording and layout; URL tools: functions of their input, tested directly.
- Statistics, the dashboard, incident reports and the migration of tables of older versions (reading only, or once before anything else runs).
- Secure buffers: they have no lock or state of their own that outlives a call. Platform hardening: calls of the operating system.
- In the session: settings that cannot be read, whose message is shown in the middle of the unlock; a database that cannot be opened at all; the messages after which a handler does nothing more; the first-run wizard, the delay after failed logins, the shake gesture, the minimize and focus handlers, and `StateManager`'s inactivity timer, which the program does not use.
- The generation of key files for a contact, which overwrites an existing pair, private key first; cameras and images.
- `allow_partial` of the importer is modelled though no dialog offers it.
