------------------------------ MODULE VaultSession ------------------------------
(***************************************************************************)
(* One run of the desktop program (gui/main_window.py): login, the unlocked*)
(* session, its lock by the user, the tray, the activity monitor, a        *)
(* tampered audit trail or panic mode, and the exit.                       *)
(*                                                                         *)
(* Everything runs on the Tk thread, but a handler that shows a dialog     *)
(* waits for it in a nested event loop (wait_window): callbacks queued with*)
(* after() and events of the tray run inside, and the handler goes on with *)
(* whatever self.db, self.repo and self.entry_manager are by then.  The    *)
(* waiting handlers form a stack; only the innermost can return.           *)
(*                                                                         *)
(* Each login opens a Database with its own KeyManager; both are named by  *)
(* a handle, and so are the objects built for the session that uses them.  *)
(* Some audit events are written at once, in the handler: where such a     *)
(* write raises, the handler ends there and what it had done stays.        *)
(***************************************************************************)
EXTENDS Naturals, Sequences, SequencesExt

CONSTANTS
  Handles,          \* databases opened, each with its key manager
  None,             \* an attribute that is None
  MaxDepth,         \* bound: handlers waiting for a dialog at a time
  AuditCanFail      \* a write to the audit log may raise

ASSUME SessionAssumption ==
  /\ None \notin Handles
  /\ MaxDepth \in Nat \ {0}
  /\ AuditCanFail \in BOOLEAN

VARIABLES
  running,   \* the main window exists
  stack,     \* handlers in wait_window: which, for which database, is its dialog still there
  due,       \* callbacks queued with after() whose time has come
  db,        \* self.db and self.repo
  openDbs,   \* databases whose pool is open
  keys,      \* key managers that hold a key
  master,    \* self.master_password is set
  mgr,       \* self.entry_manager and the services made with it
  locked,    \* state_manager.is_locked()
  audit,     \* self.audit_logger and self.audit_bridge
  clip,      \* self.clipboard_service and self.clipboard_monitor
  overlay,   \* the sign "Vault is locked" covers the table
  bridges,   \* audit bridges subscribed to the event bus
  loggers,   \* audit loggers that are open
  clips,     \* clipboard services and monitors that run
  monitor,   \* the activity monitor: "none", "watching" or "fired"
  ready,     \* panic_mode exists and knows its handlers
  panicked,  \* panic_mode.activated
  periodic,  \* the periodic verification is scheduled
  tray,      \* the state shown in the tray
  auditOk,   \* writes to the audit log succeed now
  lost       \* history: what was left open when another login took its place or an audit
             \* write raised before it could be closed

vaultVars == <<db, openDbs, keys, master, mgr, locked, lost>>
serviceVars == <<audit, clip, bridges, loggers, clips, monitor, periodic, overlay, tray>>
sessionVars == <<vaultVars, serviceVars>>
panicVars == <<ready, panicked>>
vars == <<running, stack, due, sessionVars, panicVars, auditOk>>

Operations == {"edit", "settings", "export", "import"}
Kinds == Operations \cup {"password", "login", "loginError", "confirm", "failed", "message", "tamper"}
Callbacks == {"login", "verify", "lock", "tamper"}

TypeOK ==
  /\ running \in BOOLEAN
  /\ stack \in Seq([kind : Kinds, handle : Handles \cup {None}, shown : BOOLEAN])
  /\ Len(stack) <= MaxDepth
  /\ due \subseteq Callbacks
  /\ {db, mgr, audit, clip} \subseteq Handles \cup {None}
  /\ UNION {openDbs, keys, bridges, loggers, clips, lost} \subseteq Handles
  /\ {master, locked, overlay, ready, panicked, periodic, auditOk} \subseteq BOOLEAN
  /\ monitor \in {"none", "watching", "fired"}
  /\ tray \in {"locked", "unlocked", "busy"}

Init ==
  /\ running = TRUE /\ stack = <<>> /\ due = {"login"}
  /\ db = None /\ openDbs = {} /\ keys = {}
  /\ master = FALSE /\ mgr = None /\ locked = TRUE
  /\ audit = None /\ clip = None /\ overlay = TRUE
  /\ bridges = {} /\ loggers = {} /\ clips = {} /\ lost = {}
  /\ monitor = "none" /\ ready = FALSE /\ panicked = FALSE /\ periodic = FALSE
  /\ tray = "locked" /\ auditOk = TRUE

--------------------------------------------------------------------------------

Waiting(kind) == [kind |-> kind, handle |-> None, shown |-> TRUE]
Top(kind)     == running /\ stack # <<>> /\ Last(stack).kind = kind
TopShown(kind) == Top(kind) /\ Last(stack).shown
CanWait == Len(stack) < MaxDepth
WaitsIn(kind) == \E i \in DOMAIN stack : stack[i].kind = kind
auth_dialog_open == WaitsIn("login")

\* A person acts when the callbacks that are due have run.
Human == running /\ due = {}

\* Databases of which nothing is left.
Fresh == Handles \ ((UNION {openDbs, keys, bridges, loggers, clips}) \cup {db, mgr, audit, clip}
                     \cup {stack[i].handle : i \in DOMAIN stack})

\* A write to the audit log succeeds, if there is a log.
LogWrites == audit = None \/ (auditOk /\ audit \in openDbs)

\* _close_audit_subsystem: a close that raises is swallowed and the logger dropped.
CloseAudit ==
  /\ bridges' = bridges \ {audit}
  /\ loggers' = loggers \ {audit}
  /\ audit' = None
  /\ periodic' = FALSE

\* _clear_sensitive_data
ClearSensitiveData ==
  /\ master' = FALSE
  /\ monitor' = "none"
  /\ clips' = clips \ {clip}
  /\ clip' = None

\* A slip: the key stays in its manager.
CloseDatabaseOnly ==
  /\ openDbs' = openDbs \ {db}
  /\ UNCHANGED keys

\* key_manager.lock() and db.close(), for whatever self.repo and self.db are.
CloseVault ==
  /\ keys' = keys \ {db}
  /\ openDbs' = openDbs \ {db}

\* EventBus.publish: a subscribed bridge whose logger is closed raises, and the publisher
\* goes no further.
PublishRaises == ~(bridges \subseteq loggers)

\* A slip: the login dialog follows every lock.
LogoutAndAsk(reason, later) ==
  IF mgr = None \/ PublishRaises
  THEN due' = later /\ UNCHANGED sessionVars
  ELSE /\ ClearSensitiveData /\ CloseAudit /\ CloseVault
       /\ due' = later \cup {"login"}
       /\ db' = None /\ mgr' = None
       /\ locked' = TRUE /\ overlay' = TRUE /\ tray' = "locked"
       /\ UNCHANGED lost
\* _logout publishes two events first; "later" are the callbacks still due apart from the
\* login it schedules.
Logout(reason, later) ==
  IF mgr = None \/ PublishRaises
  THEN due' = later /\ UNCHANGED sessionVars
  ELSE /\ ClearSensitiveData /\ CloseAudit /\ CloseVault
       /\ due' = IF reason = "panic" \/ db = None THEN later ELSE later \cup {"login"}
       /\ db' = None /\ mgr' = None
       /\ locked' = TRUE /\ overlay' = TRUE /\ tray' = "locked"
       /\ UNCHANGED lost

\* recover, once the right master password is there.
RecoverPanic == panicked' = FALSE

\* _start_security_subsystem makes a new activity monitor and guard and registers the
\* handlers of panic mode.  When the system denies a memory control, it then writes to the
\* log, and where that raises, the last step, the end of a panic, is not reached.
StartMonitor == monitor' = "watching" /\ ready' = TRUE
StartSecurity == StartMonitor /\ RecoverPanic

StartClipboard(h) == clip' = h /\ clips' = clips \cup {h}

\* The bridge subscribes when it is constructed.
StartAudit(h) ==
  /\ audit' = h
  /\ loggers' = loggers \cup {h}
  /\ bridges' = bridges \cup {h}

\* _finish_unlock for self.db = h takes the place of whatever there was ...
OpenVault(h) ==
  /\ db' = h /\ openDbs' = openDbs \cup {h} /\ keys' = keys \cup {h}
  /\ master' = TRUE /\ mgr' = h /\ locked' = FALSE
  /\ lost' = (lost \cup ({db, mgr, audit, clip} \ {None})) \ {h}

\* A slip: the table is uncovered first.
ShowFirst(h) ==
  /\ OpenVault(h)
  /\ UNCHANGED periodic
  /\ overlay' = FALSE
  /\ \/ /\ ~auditOk
        /\ UNCHANGED <<due, audit, loggers, bridges, monitor, clip, clips, tray, panicVars>>
     \/ /\ StartAudit(h) /\ StartSecurity /\ StartClipboard(h)
        /\ tray' = "unlocked" /\ due' = due \cup {"verify"}
\* ... and starts the services one after another.  The construction of the logger and the
\* event of _start_security_subsystem write to the log: either may be as far as it comes.
FinishUnlock(h) ==
  /\ OpenVault(h)
  /\ UNCHANGED periodic
  /\ \/ /\ ~auditOk
        /\ UNCHANGED <<due, audit, loggers, bridges, monitor, clip, clips, overlay, tray, panicVars>>
     \/ /\ ~auditOk
        /\ StartAudit(h) /\ StartMonitor
        /\ UNCHANGED <<due, clip, clips, overlay, tray, panicked>>
     \/ /\ StartAudit(h) /\ StartSecurity /\ StartClipboard(h)
        /\ overlay' = FALSE /\ tray' = "unlocked"
        /\ due' = due \cup {"verify"}

--------------------------------------------------------------------------------
\* Login.

\* _show_login_dialog, from the queue: nothing happens if one is open already.
LoginDue ==
  /\ running /\ "login" \in due /\ CanWait
  /\ due' = due \ {"login"}
  /\ stack' = IF auth_dialog_open THEN stack ELSE Append(stack, Waiting("login"))
  /\ UNCHANGED <<running, sessionVars, panicVars, auditOk>>

LoginCancelled ==
  /\ Human /\ Top("login")
  /\ stack' = Front(stack)
  /\ overlay' = TRUE
  /\ UNCHANGED <<running, due, vaultVars, audit, clip, bridges, loggers, clips, monitor, periodic,
                 tray, panicVars, auditOk>>

LoginSucceeds ==
  /\ Human /\ TopShown("login")
  /\ stack' = Front(stack)
  /\ \E h \in Fresh : FinishUnlock(h)
  /\ UNCHANGED <<running, auditOk>>

\* A wrong password: the database stays open while the error is shown.  The attempt is
\* written to the log before: where that raises, nothing is shown, nothing asks again, and
\* the database stays open.
LoginFails ==
  /\ Human /\ TopShown("login")
  /\ \E h \in Fresh :
       /\ db' = h /\ openDbs' = openDbs \cup {h}
       /\ \/ /\ stack' = Append(Front(stack), [kind |-> "loginError", handle |-> h, shown |-> TRUE])
             /\ lost' = (lost \cup ({db} \ {None})) \ {h}
          \/ /\ ~auditOk
             /\ stack' = Front(stack)
             /\ lost' = lost \cup ({db} \ {None}) \cup {h}
  /\ UNCHANGED <<running, due, keys, master, mgr, locked, serviceVars, panicVars, auditOk>>

\* When the message is read, whatever self.db is then is closed, also when it is the
\* database of a session; without one the handler ends in an AttributeError.
LoginErrorRead ==
  /\ Human /\ Top("loginError")
  /\ stack' = Front(stack)
  /\ IF db = None
     THEN UNCHANGED <<db, openDbs, due, lost>>
     ELSE /\ openDbs' = openDbs \ {db}
          /\ db' = None
          /\ due' = due \cup {"login"}
          /\ lost' = lost \cup ({db} \cap keys)
  /\ UNCHANGED <<running, keys, master, mgr, locked, serviceVars, panicVars, auditOk>>

\* _unlock_from_overlay
AskAgain == stack' = IF auth_dialog_open THEN stack ELSE Append(stack, Waiting("login"))

\* The button under "Vault is locked": it is there whether or not a session is open.
UnlockFromOverlay ==
  /\ Human /\ overlay /\ stack = <<>>
  /\ AskAgain
  /\ UNCHANGED <<running, due, sessionVars, panicVars, auditOk>>

\* The tray's first item, at any time; its second branch is also Ctrl+L in the main window.
TrayLockOrUnlock ==
  /\ Human
  /\ IF locked
     THEN /\ CanWait
          /\ AskAgain
          /\ UNCHANGED <<due, sessionVars>>
     ELSE /\ Logout("system_tray", due)
          /\ UNCHANGED stack
  /\ UNCHANGED <<running, panicVars, auditOk>>

--------------------------------------------------------------------------------
\* Operations of the unlocked vault that show a dialog.

\* From the main window, which a dialog blocks; the tray reaches the settings always.  The
\* exporter and the importer are made once there is a logger.
OpenDialog(op) ==
  /\ Human /\ CanWait
  /\ mgr # None
  /\ op = "settings" => db # None
  /\ op \in {"export", "import"} => audit # None
  /\ stack = <<>> \/ op = "settings"
  /\ stack' = Append(stack, Waiting(op))
  /\ UNCHANGED <<running, due, sessionVars, panicVars, auditOk>>

\* Cancelled, closed by panic mode, or without an effect on the session.
DialogEnds ==
  /\ Human
  /\ \E kind \in Operations \cup {"password", "confirm", "message"} : Top(kind)
  /\ stack' = Front(stack)
  /\ UNCHANGED <<running, due, sessionVars, panicVars, auditOk>>

\* The settings ask for another master password.
PasswordWanted ==
  /\ Human /\ TopShown("settings")
  /\ db # None /\ audit # None
  /\ stack' = Append(Front(stack), Waiting("password"))
  /\ UNCHANGED <<running, due, sessionVars, panicVars, auditOk>>

\* _change_master_password with the right old password, for whatever self.repo is by then.
PasswordChanged ==
  /\ Human /\ TopShown("password")
  /\ stack' = Front(stack)
  /\ IF db = None
     THEN UNCHANGED <<master, keys>>
     ELSE master' = TRUE /\ keys' = keys \cup {db}
  /\ UNCHANGED <<running, due, db, openDbs, mgr, locked, lost, serviceVars, panicVars, auditOk>>

\* _open_settings: saved, and the security subsystem starts anew, as far as it comes.
SettingsSaved ==
  /\ Human /\ TopShown("settings")
  /\ stack' = Front(stack)
  /\ \/ (db = None \/ mgr = None) /\ UNCHANGED <<monitor, panicVars>>
     \/ db # None /\ mgr # None /\ StartSecurity
     \/ db # None /\ mgr # None /\ ~LogWrites /\ StartMonitor /\ UNCHANGED panicked
  /\ UNCHANGED <<running, due, vaultVars, audit, clip, bridges, loggers, clips, periodic, overlay,
                 tray, auditOk>>

\* _open_export asks for the master password next.
ExportChosen ==
  /\ Human /\ TopShown("export")
  /\ stack' = Front(stack) \o IF db = None THEN <<>> ELSE <<Waiting("confirm")>>
  /\ UNCHANGED <<running, due, sessionVars, panicVars, auditOk>>

\* _set_crypto_busy(False)
IdleAgain == tray' = IF locked THEN "locked" ELSE "unlocked"

\* The export or import itself: it fails for its own reasons, or because the vault was
\* locked meanwhile; the error is shown before the busy state ends.
Runs ==
  /\ Human /\ (TopShown("confirm") \/ TopShown("import"))
  /\ Last(stack).kind = "confirm" => db # None
  /\ \/ mgr # None /\ IdleAgain /\ stack' = Front(stack)
     \/ tray' = "busy" /\ stack' = Append(Front(stack), Waiting("failed"))
  /\ UNCHANGED <<running, due, vaultVars, audit, clip, bridges, loggers, clips, monitor, periodic,
                 overlay, panicVars, auditOk>>

FailureRead ==
  /\ Human /\ Top("failed")
  /\ stack' = Front(stack)
  /\ IdleAgain
  /\ UNCHANGED <<running, due, vaultVars, audit, clip, bridges, loggers, clips, monitor, periodic,
                 overlay, panicVars, auditOk>>

--------------------------------------------------------------------------------
\* The activity monitor.

\* evaluate_once finds the user idle or the screen locked; it will not look again.
MonitorFires ==
  /\ running /\ monitor = "watching"
  /\ monitor' = "fired"
  /\ due' = due \cup {"lock"}
  /\ UNCHANGED <<running, stack, vaultVars, audit, clip, bridges, loggers, clips, periodic, overlay,
                 tray, panicVars, auditOk>>

\* _handle_security_lock: the audit event is written first; a write that raises ends it.
\* A slip: the lock is left to the login dialog.
SecurityLockForgets ==
  /\ running /\ "lock" \in due
  /\ due' = due \ {"lock"}
  /\ UNCHANGED <<running, stack, sessionVars, panicVars, auditOk>>
SecurityLock ==
  /\ running /\ "lock" \in due
  /\ IF ~LogWrites
     THEN due' = due \ {"lock"} /\ UNCHANGED sessionVars
     ELSE Logout("inactivity", due \ {"lock"})
  /\ UNCHANGED <<running, stack, panicVars, auditOk>>

--------------------------------------------------------------------------------
\* Panic mode.

\* _activate_panic, and activate's own guard.
CanPanic == ready /\ ~locked /\ ~panicked

\* _close_sensitive_windows: the handlers that wait for them find no result.
CloseWindows == stack' = [i \in DOMAIN stack |-> [stack[i] EXCEPT !.shown = FALSE]]

\* activate: the clipboard, the memory, the windows, the vault, in this order.  Failed
\* audit writes are swallowed.
Panic ==
  /\ Human /\ CanPanic
  /\ panicked' = TRUE
  /\ CloseWindows
  /\ Logout("panic", due)
  /\ UNCHANGED <<running, ready, auditOk>>

--------------------------------------------------------------------------------
\* Verification of the audit trail.

\* What either leaves alone.
NotVerified == <<running, vaultVars, audit, clip, bridges, loggers, clips, monitor, overlay, tray,
                 panicVars, auditOk>>

\* _run_startup_audit_verification: tampering is reported through a callback; an error is
\* shown, and then nothing is scheduled.
StartupVerify ==
  /\ running /\ "verify" \in due
  /\ IF audit = None
     THEN due' = due \ {"verify"} /\ UNCHANGED <<stack, periodic>>
     ELSE IF LogWrites
     THEN /\ periodic' = TRUE
          /\ due' \in {due \ {"verify"}, (due \ {"verify"}) \cup {"tamper"}}
          /\ UNCHANGED stack
     ELSE /\ CanWait
          /\ due' = due \ {"verify"}
          /\ stack' = Append(stack, Waiting("message"))
          /\ UNCHANGED periodic
  /\ UNCHANGED NotVerified

\* _run_periodic_audit_verification: an error is recorded, and if that raises too, nothing
\* is scheduled.
PeriodicVerify ==
  /\ running /\ periodic
  /\ IF audit = None \/ db = None
     THEN periodic' = FALSE /\ UNCHANGED due
     ELSE IF LogWrites
     THEN UNCHANGED periodic /\ due' \in {due, due \cup {"tamper"}}
     ELSE periodic' \in BOOLEAN /\ UNCHANGED due
  /\ UNCHANGED <<stack, NotVerified>>

\* _handle_audit_tamper: a warning, and with lock_on_tamper a lock when it is read.
TamperNotice ==
  /\ running /\ "tamper" \in due /\ CanWait
  /\ due' = due \ {"tamper"}
  /\ stack' = Append(stack, Waiting("tamper"))
  /\ UNCHANGED <<running, sessionVars, panicVars, auditOk>>

TamperRead ==
  /\ Human /\ Top("tamper")
  /\ stack' = Front(stack)
  /\ Logout("audit_tamper", due) \/ UNCHANGED <<due, sessionVars>>
  /\ UNCHANGED <<running, panicVars, auditOk>>

--------------------------------------------------------------------------------

\* _on_close, from the menu or the tray; the nested loops end with the window.
Exit ==
  /\ Human
  /\ audit # None => ~PublishRaises
  /\ running' = FALSE
  /\ ClearSensitiveData /\ CloseAudit /\ CloseVault
  /\ stack' = <<>>
  /\ UNCHANGED <<due, db, mgr, locked, lost, overlay, tray, panicVars, auditOk>>

AuditChanges ==
  /\ AuditCanFail /\ running
  /\ auditOk' = ~auditOk
  /\ UNCHANGED <<running, stack, due, sessionVars, panicVars>>

Queued == LoginDue \/ SecurityLock \/ StartupVerify \/ PeriodicVerify \/ TamperNotice

Next ==
  \/ Queued
  \/ LoginCancelled \/ LoginSucceeds \/ LoginFails \/ LoginErrorRead
  \/ TrayLockOrUnlock \/ UnlockFromOverlay
  \/ \E op \in Operations : OpenDialog(op)
  \/ DialogEnds \/ PasswordWanted \/ PasswordChanged \/ SettingsSaved \/ ExportChosen \/ Runs \/ FailureRead
  \/ MonitorFires \/ Panic \/ TamperRead \/ Exit \/ AuditChanges

Spec == Init /\ [][Next]_vars

\* Tk runs what is due, in the main loop or in the nested one of the innermost dialog.
FairSpec == Spec /\ WF_vars(SecurityLock)

--------------------------------------------------------------------------------

\* A vault that is open and not lost to another login has its own database, its key and the
\* master password, and no service of another session but of a lost one; with an audit log
\* there is an activity monitor; and where the table can be seen, all its services run and
\* the tray does not call it locked.  Who is subscribed to the event bus can log.
SessionWhole ==
  /\ bridges \subseteq loggers
  /\ running /\ mgr # None /\ mgr \notin lost =>
       /\ db = mgr /\ mgr \in openDbs \cap keys
       /\ master /\ ~locked
       /\ {audit, clip} \subseteq {mgr, None} \cup lost
  /\ running /\ audit # None => monitor # "none"
  /\ running /\ ~overlay =>
       mgr # None /\ audit # None /\ clip # None /\ monitor # "none" /\ tray # "locked"

\* A locked vault, and a program that has ended, hold nothing but what was lost: no key, no
\* password without a key, no subscriber, no clipboard thread, and no database but one whose
\* failed login is being reported; and a locked vault is shown as one, by tray and window.
LockedHoldsNothing ==
  /\ mgr = None => tray # "unlocked" /\ overlay
  /\ mgr = None \/ ~running =>
       /\ UNION {keys, bridges, loggers, clips} \subseteq lost
       /\ master => running /\ keys # {}
       /\ monitor = "none"
       /\ openDbs \subseteq lost \cup {stack[k].handle : k \in DOMAIN stack}

\* The exit clears the active keys (File, Exit in docs/user_guide.md).
ExitClearsKeys == ~running => keys = {} /\ ~master

\* After a panic the program asks for no login of its own accord: only after a person came
\* to the login and mistyped the password, or opened the vault and an audit write that
\* raised kept the unlock from its end (which leaves the panic unrecovered), does it ask.
QuietAfterPanic ==
  [][panicked' /\ "login" \in due' \ due =>
       Top("loginError") \/ (panicked /\ mgr # None /\ overlay)]_vars

\* While the audit log can be written, a lock the activity monitor asked for happens, with
\* any dialogs open.
LockHappens == [](running /\ LogWrites) => ("lock" \in due) ~> (mgr = None)
===============================================================================
