------------------------------- MODULE Clipboard -------------------------------
(***************************************************************************)
(* The secure clipboard of one desktop: ClipboardService with its two      *)
(* threading.Timer objects, the clipboards it writes through its adapter,  *)
(* and the applications that share the system clipboard with it.           *)
(*                                                                         *)
(* Threads.  The Tk thread runs copy_text, clear, update_config, unblock   *)
(* and the vault lock.  A timer that expires starts a thread that calls    *)
(* _timer_clear or _timer_warning.  Every method does its work under the   *)
(* service's RLock, so a locked section is one step here; what is done     *)
(* before the lock (the checks of copy_text) and after it (_notify) is a   *)
(* step of its own.                                                        *)
(*                                                                         *)
(* Time is counted down in ticks of five seconds, the service's unit for   *)
(* its warning and its accelerated clear.  A tick is long compared with    *)
(* the latency of a thread: it passes only when no thread has a step ready.*)
(***************************************************************************)
EXTENDS Naturals

CONSTANTS
  Secrets,    \* the values the user copies
  Others,     \* what other applications put on the system clipboard
  Empty,      \* an empty clipboard
  NoSecret,   \* no SecureBuffer
  Never,      \* no deadline, no armed timer
  Configs     \* the settings the user can save

Adapters == {"system", "private"}
Contents == Secrets \cup Others \cup {Empty}
Statuses == {"idle", "active", "warning", "blocked", "error"}
Ticks    == Nat \cup {Never}

(***************************************************************************)
(* ClipboardConfig: the timeout is None or at least five seconds; "strict" *)
(* is block_after_suspicious_access or the paranoid level; "ephemeral"     *)
(* selects the in-process adapter.                                         *)
(***************************************************************************)
ConfigType == [timeout : Ticks \ {0}, strict : BOOLEAN, ephemeral : BOOLEAN]

ASSUME ClipboardAssumption ==
  /\ Never \notin Nat
  /\ NoSecret \notin Contents
  /\ Configs \subseteq ConfigType
  /\ Secrets \cap Others = {}
  /\ Empty \notin Secrets \cup Others

VARIABLES
  unlocked,     \* is_vault_unlocked(): the session this service belongs to is open
  config,       \* self.config and the adapter choice that goes with it
  buffer,       \* self._buffer
  status,       \* self._snapshot.state
  remaining,    \* self._snapshot.expires_at_monotonic, as ticks from now
  blocked,      \* self._blocked
  clearTimer,   \* ticks until the armed _clear_timer expires
  warnTimer,    \* ticks until the armed _warning_timer expires
  platform,     \* what each clipboard holds
  stuck,        \* history: clipboards on which the last adapter call failed
  abandoned,    \* history: clipboards that still held the value an alarm let go of
  copying,      \* the value copy_text has checked but not yet placed
  telling,      \* the state the Tk thread still has to _notify, or "none"
  clearThread,  \* the thread of an expired clear timer
  warnThread    \* the thread of an expired warning timer

sessionVars == <<unlocked, config>>
lockedVars  == <<buffer, status, remaining, blocked, clearTimer, warnTimer>>
deskVars    == <<platform, stuck, abandoned>>
threadVars  == <<copying, telling, clearThread, warnThread>>
vars == <<sessionVars, lockedVars, deskVars, threadVars>>

TypeOK ==
  /\ unlocked \in BOOLEAN
  /\ config \in Configs
  /\ buffer \in Secrets \cup {NoSecret}
  /\ status \in Statuses
  /\ remaining \in Ticks
  /\ blocked \in BOOLEAN
  /\ clearTimer \in Ticks
  /\ warnTimer \in Ticks
  /\ platform \in [Adapters -> Contents]
  /\ stuck \subseteq Adapters
  /\ abandoned \subseteq Adapters
  /\ copying \in Secrets \cup {NoSecret}
  /\ telling \in Statuses \cup {"none"}
  /\ clearThread \in {"none", "fired", "telling"}
  /\ warnThread \in {"none", "fired"}

Adapter(c) == IF c.ephemeral THEN "private" ELSE "system"
adapter    == Adapter(config)

Init ==
  /\ unlocked = TRUE
  /\ config \in Configs
  /\ buffer = NoSecret
  /\ status = "idle"
  /\ remaining = Never
  /\ blocked = FALSE
  /\ clearTimer = Never
  /\ warnTimer = Never
  /\ platform \in [Adapters -> Others \cup {Empty}]
  /\ platform["private"] = Empty
  /\ stuck = {}
  /\ abandoned = {}
  /\ copying = NoSecret
  /\ telling = "none"
  /\ clearThread = "none"
  /\ warnThread = "none"

--------------------------------------------------------------------------------
(* Helpers of the service, each used inside a locked section. *)

\* A slip: only the warning is cancelled.
CancelWarning == warnTimer' = Never /\ UNCHANGED clearTimer

\* _cancel_timers_locked.  Timer.cancel() does not stop a thread that has
\* already left its wait, so clearThread and warnThread stay.
CancelTimers == clearTimer' = Never /\ warnTimer' = Never

\* The delay of the warning timer: five seconds before the end, if that is later than now.
WarnDelay(t) == IF t = Never THEN Never ELSE IF t > 1 THEN t - 1 ELSE Never

\* A slip: the timer is set later than the deadline that is shown.
ScheduleLate(t) ==
  clearTimer' = (IF t = Never THEN Never ELSE t + 1) /\ warnTimer' = WarnDelay(t)

\* _schedule_timers_locked: the timers of the configured timeout replace the old ones.
ScheduleTimers(t) == clearTimer' = t /\ warnTimer' = WarnDelay(t)

\* adapter.clear().  The in-process adapter cannot fail.  A system call that
\* raises may or may not have emptied the clipboard (a tool that is killed by
\* its timeout does not say).
AdapterClear(ok) ==
  /\ ok \/ adapter = "system"
  /\ \E left \in (IF ok THEN {Empty} ELSE {Empty, platform[adapter]}) :
       platform' = [platform EXCEPT ![adapter] = left]
  /\ IF ok THEN stuck' = stuck \ {adapter} /\ abandoned' = abandoned \ {adapter}
           ELSE stuck' = stuck \cup {adapter} /\ UNCHANGED abandoned

\* A slip: the state after a clear is "idle" even while copying is blocked.
DropForgetsBlock(ok) ==
  /\ CancelTimers
  /\ buffer' = NoSecret
  /\ status' = IF ok THEN "idle" ELSE "error"
  /\ remaining' = Never

\* The part of _discard_current_locked that concerns the service's own state.
DropCurrent(ok) ==
  /\ CancelTimers
  /\ buffer' = NoSecret
  /\ status' = IF ~ok THEN "error" ELSE IF blocked THEN "blocked" ELSE "idle"
  /\ remaining' = Never

\* Two slips: the clipboard itself is not emptied; a failing adapter leaves all as it was.
ClearBufferOnly(ok) == DropCurrent(ok) /\ UNCHANGED <<deskVars, blocked>>
ClearIfPossible(ok) ==
  IF ok THEN DropCurrent(ok) /\ AdapterClear(ok) /\ UNCHANGED blocked
        ELSE UNCHANGED <<lockedVars, deskVars>>

\* clear(): the buffer is dropped and the clipboard emptied, whoever filled it.
ClearLocked(ok) == DropCurrent(ok) /\ AdapterClear(ok) /\ UNCHANGED blocked

--------------------------------------------------------------------------------
(* The Tk thread. *)

UIIdle == copying = NoSecret /\ telling = "none"

\* copy_text up to the lock: the vault is unlocked and copying is not blocked.
CopyCheck(v) ==
  /\ UIIdle
  /\ unlocked
  /\ ~blocked
  /\ copying' = v
  /\ UNCHANGED <<sessionVars, lockedVars, deskVars, telling, clearThread, warnThread>>

\* copy_text under the lock.  The old value is discarded first; that the
\* adapter fails to clear it is ignored, since the new value replaces it.
CopyPlace ==
  /\ copying # NoSecret
  /\ platform' = [platform EXCEPT ![adapter] = copying]
  /\ stuck' = stuck \ {adapter}
  /\ abandoned' = abandoned \ {adapter}
  /\ buffer' = copying
  /\ status' = "active"
  /\ remaining' = config.timeout
  /\ ScheduleTimers(config.timeout)
  /\ copying' = NoSecret
  /\ telling' = "active"
  /\ UNCHANGED <<sessionVars, blocked, clearThread, warnThread>>

\* copy_text when adapter.copy_text raises: nothing is retained, but the call
\* that raised may have left the value, the old content or nothing.
CopyFail ==
  /\ copying # NoSecret
  /\ adapter = "system"
  /\ \E left \in {copying, platform[adapter], Empty} :
       platform' = [platform EXCEPT ![adapter] = left]
  /\ stuck' = stuck \cup {adapter}
  /\ abandoned' = abandoned \ {adapter}
  /\ buffer' = NoSecret
  /\ status' = "error"
  /\ remaining' = Never
  /\ CancelTimers
  /\ copying' = NoSecret
  /\ telling' = "error"
  /\ UNCHANGED <<sessionVars, blocked, clearThread, warnThread>>

\* clear("manual") from the menu or the tray, clear("panic") from panic mode.
ClearNow ==
  /\ UIIdle
  /\ unlocked
  /\ \E ok \in BOOLEAN : ClearLocked(ok)
  /\ telling' = status'
  /\ UNCHANGED <<sessionVars, copying, clearThread, warnThread>>

\* update_config: the value in the buffer gets the new timeout from now on.
UpdateConfig(c) ==
  /\ UIIdle
  /\ unlocked
  /\ c.ephemeral = config.ephemeral
  /\ config' = c
  /\ IF buffer = NoSecret
       THEN UNCHANGED <<remaining, clearTimer, warnTimer>>
       ELSE remaining' = c.timeout /\ ScheduleTimers(c.timeout)
  /\ telling' = status
  /\ UNCHANGED <<unlocked, buffer, status, blocked, deskVars, copying, clearThread, warnThread>>

\* The settings change the adapter: replace_adapter clears through the old one
\* and update_config finds no buffer.  A new in-process adapter starts empty.
ReplaceAdapter(c) ==
  /\ UIIdle
  /\ unlocked
  /\ c.ephemeral # config.ephemeral
  /\ config' = c
  /\ \E ok \in BOOLEAN : ClearLocked(ok)
  /\ telling' = status'
  /\ UNCHANGED <<unlocked, copying, clearThread, warnThread>>

Unblock ==
  /\ UIIdle
  /\ unlocked
  /\ blocked' = FALSE
  /\ status' = IF status = "blocked" THEN "idle" ELSE status
  /\ telling' = status'
  /\ UNCHANGED <<sessionVars, buffer, remaining, clearTimer, warnTimer, deskVars,
                 copying, clearThread, warnThread>>

\* _clear_sensitive_data of a lock, a logout or the exit: clear("vault_lock"),
\* whose result is not looked at, and the service is dropped.
LockVault ==
  /\ UIIdle
  /\ unlocked
  /\ unlocked' = FALSE
  /\ \E ok \in BOOLEAN : ClearLocked(ok)
  /\ UNCHANGED <<config, threadVars>>

\* _start_clipboard_subsystem after a login: a fresh service.  The threads of
\* the dropped one are long gone.
UnlockVault ==
  /\ ~unlocked
  /\ clearThread = "none" /\ warnThread = "none"
  /\ unlocked' = TRUE
  /\ status' = "idle"
  /\ blocked' = FALSE
  /\ platform' = [platform EXCEPT !["private"] = Empty]
  /\ abandoned' = abandoned \ {"private"}
  /\ UNCHANGED <<config, buffer, remaining, clearTimer, warnTimer, stuck, threadVars>>

\* _notify on the Tk thread, after the lock is released.
Tell ==
  /\ telling # "none"
  /\ telling' = "none"
  /\ UNCHANGED <<sessionVars, lockedVars, deskVars, copying, clearThread, warnThread>>

--------------------------------------------------------------------------------
(* Timer threads. *)

FireClear ==
  /\ clearTimer = 0
  /\ clearThread = "none"
  /\ clearTimer' = Never
  /\ clearThread' = "fired"
  /\ UNCHANGED <<sessionVars, buffer, status, remaining, blocked, warnTimer, deskVars,
                 copying, telling, warnThread>>

FireWarn ==
  /\ warnTimer = 0
  /\ warnThread = "none"
  /\ warnTimer' = Never
  /\ warnThread' = "fired"
  /\ UNCHANGED <<sessionVars, buffer, status, remaining, blocked, clearTimer, deskVars,
                 copying, telling, clearThread>>

\* _timer_clear: clear("timer") of whatever the service holds by now.
TimerClear ==
  /\ clearThread = "fired"
  /\ \E ok \in BOOLEAN : ClearLocked(ok)
  /\ clearThread' = "telling"
  /\ UNCHANGED <<sessionVars, copying, telling, warnThread>>

TimerTell ==
  /\ clearThread = "telling"
  /\ clearThread' = "none"
  /\ UNCHANGED <<sessionVars, lockedVars, deskVars, copying, telling, warnThread>>

\* _timer_warning: nothing when the buffer is gone.
TimerWarn ==
  /\ warnThread = "fired"
  /\ warnThread' = "none"
  /\ status' = IF buffer = NoSecret THEN status ELSE "warning"
  /\ UNCHANGED <<sessionVars, buffer, remaining, blocked, clearTimer, warnTimer, deskVars,
                 copying, telling, clearThread>>

--------------------------------------------------------------------------------
(* The monitor's calls and the rest of the desktop. *)

\* external_content_changed: the buffer is dropped, the clipboard left alone,
\* whatever is on it, and the snapshot says "warning" even when copying is blocked.
ExternalContentChanged ==
  IF buffer = NoSecret
    THEN UNCHANGED <<lockedVars, deskVars>>
    ELSE /\ CancelTimers
         /\ buffer' = NoSecret
         /\ status' = "warning"
         /\ remaining' = Never
         /\ abandoned' = IF platform[adapter] = buffer THEN abandoned \cup {adapter} ELSE abandoned
         /\ UNCHANGED <<blocked, platform, stuck>>

\* The monitor's call: for the service it may come at any time, since the monitor
\* compares tokens it read earlier (ClipboardMonitor has the passes themselves).
ReportChange ==
  /\ unlocked
  /\ buffer # NoSecret
  /\ ExternalContentChanged
  /\ UNCHANGED <<sessionVars, threadVars>>

\* report_external_access of an application that is not whitelisted: unless it
\* is at most five seconds away, the clear is moved to five seconds from now.
ReportAccess ==
  /\ unlocked
  /\ buffer # NoSecret
  /\ IF remaining = Never \/ remaining > 1
       THEN clearTimer' = 1 /\ remaining' = 1
       ELSE UNCHANGED <<clearTimer, remaining>>
  /\ status' = "warning"
  /\ blocked' = (blocked \/ config.strict)
  /\ UNCHANGED <<sessionVars, buffer, warnTimer, deskVars, threadVars>>

OtherAppCopies ==
  /\ \E x \in Others : platform' = [platform EXCEPT !["system"] = x]
  /\ abandoned' = abandoned \ {"system"}
  /\ UNCHANGED <<sessionVars, lockedVars, stuck, threadVars>>

\* A deadline that is missed would go below zero.
Down(t) == IF t = Never THEN Never ELSE t - 1

\* No thread has a step to take and no armed timer has expired.
Settled ==
  /\ UIIdle
  /\ clearThread = "none" /\ warnThread = "none"
  /\ clearTimer # 0 /\ warnTimer # 0

Tick ==
  /\ Settled
  /\ remaining' = Down(remaining)
  /\ clearTimer' = Down(clearTimer)
  /\ warnTimer' = Down(warnTimer)
  /\ UNCHANGED <<sessionVars, buffer, status, blocked, deskVars, threadVars>>

--------------------------------------------------------------------------------

UserStep ==
  \/ \E v \in Secrets : CopyCheck(v)
  \/ ClearNow
  \/ \E c \in Configs : UpdateConfig(c) \/ ReplaceAdapter(c)
  \/ Unblock
  \/ LockVault
  \/ UnlockVault

UIStep == CopyPlace \/ CopyFail \/ Tell

TimerStep == FireClear \/ FireWarn \/ TimerClear \/ TimerTell \/ TimerWarn

\* Everything but what the monitor does, for the composition with it.
ServiceNext == UserStep \/ UIStep \/ TimerStep \/ ReportAccess \/ OtherAppCopies \/ Tick

Next == ServiceNext \/ ReportChange

Spec == Init /\ [][Next]_vars

--------------------------------------------------------------------------------
(* Properties. *)

\* Every deadline shown to the user is the deadline of an armed clear timer, or
\* of one whose thread is already waiting for the lock; no timer outlives the
\* value it was armed for (copy_text, update_config, report_external_access and
\* _discard_current_locked each replace or cancel timers on their own).
DeadlineIsArmed ==
  /\ buffer # NoSecret /\ remaining # Never =>
       clearTimer = remaining \/ (remaining = 0 /\ clearThread = "fired")
  /\ buffer # NoSecret /\ remaining = Never => clearTimer = Never
  /\ buffer = NoSecret => remaining = Never /\ clearTimer = Never /\ warnTimer = Never

\* A value that was copied is on a clipboard only while the service still holds
\* it and uses that clipboard, or after an adapter call on it failed, or because an
\* alarm of the monitor let go of it while it was there and nothing has cleared or
\* filled that clipboard since: no lock, timer, settings change or new copy leaves one.
NoSecretLeftBehind ==
  \A a \in Adapters :
    platform[a] \in Secrets =>
      (platform[a] = buffer /\ a = adapter) \/ a \in stuck \cup abandoned

\* The state the service reports agrees with what it holds: a value is there only
\* in "active" and "warning", and a block is never reported as "idle", nor reported
\* after it was lifted.
StatusHonest ==
  /\ buffer # NoSecret => status \in {"active", "warning"}
  /\ status = "active" => buffer # NoSecret
  /\ blocked /\ buffer = NoSecret => status # "idle"
  /\ status = "blocked" => blocked

Promise == INSTANCE ClipboardPromise WITH held <- buffer, lease <- remaining

\* The service keeps the abstract promise: one secret at a time, on a lease, and no
\* time passes once the lease is used up.
PromiseKept == Promise!PSpec

\* Once the user stops, every value that was given a deadline is withdrawn, and only
\* a value copied without a timeout, a failed adapter call or a false alarm leaves a
\* secret on the clipboard in use.
EventuallyCleared ==
  <>[][~UserStep]_vars =>
    <>[](/\ buffer # NoSecret => remaining = Never
         /\ platform[adapter] \in Secrets =>
              buffer # NoSecret \/ adapter \in stuck \cup abandoned)

===============================================================================
