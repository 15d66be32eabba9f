---------------------------- MODULE ClipboardProofs ----------------------------
(***************************************************************************)
(* The invariants of Clipboard, and that it keeps ClipboardPromise, for    *)
(* any secrets, foreign contents and settings, whatever its monitor        *)
(* reports; then that the composition with the real monitor implements     *)
(* Clipboard, and when that monitor raises a false alarm.                  *)
(***************************************************************************)
EXTENDS ClipboardMonitor, TLAPS

\* Between two sessions nothing is held and nothing is about to be placed.
ClosedIsEmpty == ~unlocked => buffer = NoSecret /\ copying = NoSecret

\* What the service knows of its own state ...
ServiceInv == TypeOK /\ ClosedIsEmpty /\ DeadlineIsArmed /\ StatusHonest

\* ... and with what is on the clipboards the inductive invariant.
IInv == ServiceInv /\ NoSecretLeftBehind

\* What the settings can be: the facts about a configuration the steps need.
LEMMA ConfigFacts ==
  ASSUME NEW c \in Configs
  PROVE  /\ c.timeout \in Ticks
         /\ c.timeout # 0
         /\ c.strict \in BOOLEAN
         /\ Adapter(c) \in Adapters
  BY ClipboardAssumption DEF ConfigType, Adapter, Adapters, Ticks

\* A warning timer is armed for a time like any other.
LEMMA WarnDelayType ==
  ASSUME NEW t \in Ticks
  PROVE  WarnDelay(t) \in Ticks
  BY ClipboardAssumption DEF WarnDelay, Ticks

\* A tick before the deadline leaves a deadline.
LEMMA DownType ==
  ASSUME NEW t \in Ticks \ {0}
  PROVE  Down(t) \in Ticks
  BY ClipboardAssumption DEF Down, Ticks

\* The initial states satisfy the inductive invariant.
LEMMA InitIInv == Init => IInv
  BY ClipboardAssumption
  DEF Init, IInv, ServiceInv, TypeOK, ClosedIsEmpty, DeadlineIsArmed, StatusHonest,
      NoSecretLeftBehind, Statuses, Ticks, Adapters, Contents

\* clear(), the locked section most steps share: it leaves no value, no timer and
\* no secret on the clipboard in use, unless the adapter failed.
LEMMA ClearLockedStep ==
  ASSUME ServiceInv, NEW ok \in BOOLEAN, ClearLocked(ok)
  PROVE  /\ buffer' = NoSecret
         /\ status' \in Statuses \ {"active", "warning"}
         /\ blocked => status' # "idle"
         /\ status' = "blocked" => blocked
         /\ remaining' = Never /\ clearTimer' = Never /\ warnTimer' = Never
         /\ blocked' = blocked
         /\ platform' \in [Adapters -> Contents]
         /\ stuck' \subseteq Adapters /\ abandoned' \subseteq Adapters
         /\ NoSecretLeftBehind =>
              \A a \in Adapters : platform'[a] \in Secrets => a \in stuck' \cup abandoned'
  <1> USE ClipboardAssumption
  <1>1. adapter \in Adapters
    BY ConfigFacts DEF ServiceInv, TypeOK, adapter
  <1>2. /\ buffer' = NoSecret
        /\ status' = IF ~ok THEN "error" ELSE IF blocked THEN "blocked" ELSE "idle"
        /\ remaining' = Never /\ clearTimer' = Never /\ warnTimer' = Never
        /\ blocked' = blocked
    BY DEF ClearLocked, DropCurrent, CancelTimers
  <1>3. PICK left \in {Empty, platform[adapter]} :
          /\ platform' = [platform EXCEPT ![adapter] = left]
          /\ ok => left = Empty
    BY DEF ClearLocked, AdapterClear
  <1>4. IF ok THEN stuck' = stuck \ {adapter} /\ abandoned' = abandoned \ {adapter}
              ELSE stuck' = stuck \cup {adapter} /\ abandoned' = abandoned
    BY DEF ClearLocked, AdapterClear
  <1>5. platform' \in [Adapters -> Contents]
    BY <1>1, <1>3 DEF ServiceInv, TypeOK, Contents
  <1>6. stuck' \subseteq Adapters /\ abandoned' \subseteq Adapters
    BY <1>1, <1>4 DEF ServiceInv, TypeOK
  <1>7. ASSUME NoSecretLeftBehind, NEW a \in Adapters, platform'[a] \in Secrets
        PROVE  a \in stuck' \cup abandoned'
    <2>1. CASE a = adapter
      BY <2>1, <1>1, <1>3, <1>4, <1>7 DEF ServiceInv, TypeOK
    <2>2. CASE a # adapter
      BY <2>2, <1>3, <1>4, <1>7 DEF ServiceInv, TypeOK, NoSecretLeftBehind
    <2> QED BY <2>1, <2>2
  <1> QED BY <1>2, <1>5, <1>6, <1>7 DEF Statuses

\* Every step of the service preserves its own part of the invariant, and so does a report
\* of the monitor, whether it is right or not.
LEMMA StepServiceInv == ServiceInv /\ Next => ServiceInv'
  <1> SUFFICES ASSUME ServiceInv, Next PROVE ServiceInv'
    OBVIOUS
  <1> USE ClipboardAssumption
  <1>0. adapter \in Adapters /\ config.timeout \in Ticks \ {0}
    BY ConfigFacts DEF ServiceInv, TypeOK, adapter
  <1>1. ASSUME NEW v \in Secrets, CopyCheck(v) PROVE ServiceInv'
    BY <1>1 DEF ServiceInv, TypeOK, ClosedIsEmpty, DeadlineIsArmed, StatusHonest,
         CopyCheck, sessionVars, lockedVars, deskVars, UIIdle
  <1>2. CASE CopyPlace
    <2>1. TypeOK'
      BY <1>0, <1>2, WarnDelayType
      DEF ServiceInv, TypeOK, CopyPlace, ScheduleTimers, sessionVars, Contents, Statuses
    <2>2. ClosedIsEmpty'
      BY <1>2 DEF ServiceInv, TypeOK, ClosedIsEmpty, CopyPlace, sessionVars
    <2>3. DeadlineIsArmed'
      BY <1>2 DEF ServiceInv, TypeOK, DeadlineIsArmed, CopyPlace, ScheduleTimers
    <2>4. StatusHonest'
      BY <1>2 DEF ServiceInv, TypeOK, StatusHonest, CopyPlace
    <2> QED BY <2>1, <2>2, <2>3, <2>4 DEF ServiceInv
  <1>3. CASE CopyFail
    <2>1. TypeOK'
      BY <1>0, <1>3
      DEF ServiceInv, TypeOK, CopyFail, CancelTimers, sessionVars, Contents, Statuses, Ticks
    <2>2. ClosedIsEmpty' /\ DeadlineIsArmed' /\ StatusHonest'
      BY <1>3 DEF ClosedIsEmpty, DeadlineIsArmed, StatusHonest, CopyFail, CancelTimers
    <2> QED BY <2>1, <2>2 DEF ServiceInv
  <1>4. CASE ClearNow
    <2>1. PICK ok \in BOOLEAN : ClearLocked(ok)
      BY <1>4 DEF ClearNow
    <2> QED BY <1>4, <2>1, ClearLockedStep
        DEF ServiceInv, TypeOK, ClosedIsEmpty, DeadlineIsArmed, StatusHonest,
            ClearNow, sessionVars, Ticks, Statuses
  <1>5. ASSUME NEW c \in Configs, UpdateConfig(c) PROVE ServiceInv'
    <2>1. c.timeout \in Ticks
      BY ConfigFacts
    <2>2. TypeOK'
      BY <1>5, <2>1, WarnDelayType
      DEF ServiceInv, TypeOK, UpdateConfig, ScheduleTimers, deskVars, Statuses
    <2>3. DeadlineIsArmed'
      BY <1>5 DEF ServiceInv, DeadlineIsArmed, UpdateConfig, ScheduleTimers
    <2>4. ClosedIsEmpty' /\ StatusHonest'
      BY <1>5 DEF ServiceInv, ClosedIsEmpty, StatusHonest, UpdateConfig
    <2> QED BY <2>2, <2>3, <2>4 DEF ServiceInv
  <1>6. ASSUME NEW c \in Configs, ReplaceAdapter(c) PROVE ServiceInv'
    <2>1. PICK ok \in BOOLEAN : ClearLocked(ok)
      BY <1>6 DEF ReplaceAdapter
    <2> QED BY <1>6, <2>1, ClearLockedStep
        DEF ServiceInv, TypeOK, ClosedIsEmpty, DeadlineIsArmed, StatusHonest,
            ReplaceAdapter, Ticks, Statuses
  <1>7. CASE Unblock
    BY <1>7 DEF ServiceInv, TypeOK, ClosedIsEmpty, DeadlineIsArmed, StatusHonest,
         Unblock, sessionVars, deskVars, Statuses
  <1>8. CASE LockVault
    <2>1. PICK ok \in BOOLEAN : ClearLocked(ok)
      BY <1>8 DEF LockVault
    <2> QED BY <1>8, <2>1, ClearLockedStep
        DEF ServiceInv, TypeOK, ClosedIsEmpty, DeadlineIsArmed, StatusHonest,
            LockVault, UIIdle, threadVars, Ticks, Statuses
  <1>9. CASE UnlockVault
    <2>1. TypeOK'
      BY <1>9 DEF ServiceInv, TypeOK, UnlockVault, threadVars, Contents, Adapters, Statuses
    <2>2. ClosedIsEmpty' /\ DeadlineIsArmed' /\ StatusHonest'
      BY <1>9 DEF ServiceInv, ClosedIsEmpty, DeadlineIsArmed, StatusHonest, UnlockVault
    <2> QED BY <2>1, <2>2 DEF ServiceInv
  <1>10. CASE Tell
    BY <1>10 DEF ServiceInv, TypeOK, ClosedIsEmpty, DeadlineIsArmed, StatusHonest,
         Tell, sessionVars, lockedVars, deskVars
  <1>11. CASE FireClear
    BY <1>11 DEF ServiceInv, TypeOK, ClosedIsEmpty, DeadlineIsArmed, StatusHonest,
         FireClear, sessionVars, deskVars, Ticks
  <1>12. CASE FireWarn
    BY <1>12 DEF ServiceInv, TypeOK, ClosedIsEmpty, DeadlineIsArmed, StatusHonest,
         FireWarn, sessionVars, deskVars, Ticks
  <1>13. CASE TimerClear
    <2>1. PICK ok \in BOOLEAN : ClearLocked(ok)
      BY <1>13 DEF TimerClear
    <2> QED BY <1>13, <2>1, ClearLockedStep
        DEF ServiceInv, TypeOK, ClosedIsEmpty, DeadlineIsArmed, StatusHonest,
            TimerClear, sessionVars, Ticks, Statuses
  <1>14. CASE TimerTell
    BY <1>14 DEF ServiceInv, TypeOK, ClosedIsEmpty, DeadlineIsArmed, StatusHonest,
         TimerTell, sessionVars, lockedVars, deskVars
  <1>15. CASE TimerWarn
    BY <1>15 DEF ServiceInv, TypeOK, ClosedIsEmpty, DeadlineIsArmed, StatusHonest,
         TimerWarn, sessionVars, deskVars, Statuses
  <1>16. CASE ReportChange
    <2>1. TypeOK'
      BY <1>0, <1>16 DEF ServiceInv, TypeOK, ReportChange, ExternalContentChanged, CancelTimers,
           sessionVars, threadVars, deskVars, lockedVars, Statuses, Ticks
    <2>2. ClosedIsEmpty' /\ DeadlineIsArmed' /\ StatusHonest'
      BY <1>16 DEF ServiceInv, ClosedIsEmpty, DeadlineIsArmed, StatusHonest, ReportChange,
           ExternalContentChanged, CancelTimers, sessionVars, threadVars, lockedVars
    <2> QED BY <2>1, <2>2 DEF ServiceInv
  <1>17. CASE ReportAccess
    <2>1. TypeOK'
      BY <1>17, ConfigFacts
      DEF ServiceInv, TypeOK, ReportAccess, sessionVars, threadVars, deskVars, Statuses, Ticks
    <2>2. ClosedIsEmpty' /\ StatusHonest'
      BY <1>17 DEF ServiceInv, ClosedIsEmpty, StatusHonest, ReportAccess, sessionVars, threadVars
    <2>3. DeadlineIsArmed'
      BY <1>17 DEF ServiceInv, DeadlineIsArmed, ReportAccess, threadVars
    <2> QED BY <2>1, <2>2, <2>3 DEF ServiceInv
  <1>18. CASE OtherAppCopies
    <2>1. PICK x \in Others : platform' = [platform EXCEPT !["system"] = x]
      BY <1>18 DEF OtherAppCopies
    <2>2. TypeOK'
      BY <1>18, <2>1
      DEF ServiceInv, TypeOK, OtherAppCopies, sessionVars, lockedVars, threadVars, Contents
    <2>3. ClosedIsEmpty' /\ DeadlineIsArmed' /\ StatusHonest'
      BY <1>18 DEF ServiceInv, ClosedIsEmpty, DeadlineIsArmed, StatusHonest, OtherAppCopies,
           sessionVars, lockedVars, threadVars
    <2> QED BY <2>2, <2>3 DEF ServiceInv
  <1>19. CASE Tick
    <2>1. TypeOK'
      <3>1. remaining # 0 /\ clearTimer # 0 /\ warnTimer # 0
        BY <1>19 DEF ServiceInv, TypeOK, DeadlineIsArmed, Tick, Settled, Ticks
      <3> QED BY <1>19, <3>1, DownType DEF ServiceInv, TypeOK, Tick, sessionVars, threadVars, deskVars
    <2>2. ClosedIsEmpty' /\ StatusHonest'
      BY <1>19 DEF ServiceInv, ClosedIsEmpty, StatusHonest, Tick, sessionVars, threadVars
    <2>3. DeadlineIsArmed'
      BY <1>19 DEF ServiceInv, TypeOK, DeadlineIsArmed, Tick, Settled, Down, threadVars, Ticks
    <2> QED BY <2>1, <2>2, <2>3 DEF ServiceInv
  <1> QED
    BY <1>1, <1>2, <1>3, <1>4, <1>5, <1>6, <1>7, <1>8, <1>9, <1>10, <1>11, <1>12, <1>13, <1>14,
       <1>15, <1>16, <1>17, <1>18, <1>19
    DEF Next, ServiceNext, UserStep, UIStep, TimerStep

\* Every step preserves the inductive invariant.
LEMMA NextIInv == IInv /\ [Next]_vars => IInv'
  <1> SUFFICES ASSUME IInv, [Next]_vars PROVE IInv'
    OBVIOUS
  <1> USE ClipboardAssumption
  <1>0. /\ adapter \in Adapters
        /\ platform \in [Adapters -> Contents]
        /\ stuck \subseteq Adapters /\ abandoned \subseteq Adapters
        /\ NoSecretLeftBehind
    BY ConfigFacts DEF IInv, ServiceInv, TypeOK, adapter
  <1>1. ServiceInv'
    <2>1. CASE Next
      BY <2>1, StepServiceInv DEF IInv
    <2>2. CASE UNCHANGED vars
      BY <2>2 DEF IInv, ServiceInv, TypeOK, ClosedIsEmpty, DeadlineIsArmed, StatusHonest,
           vars, sessionVars, lockedVars, deskVars, threadVars
    <2> QED BY <2>1, <2>2
  <1>2. ASSUME NEW ok \in BOOLEAN, ClearLocked(ok) PROVE NoSecretLeftBehind'
    BY <1>0, <1>2, ClearLockedStep DEF IInv, NoSecretLeftBehind
  <1>3. ASSUME CopyPlace PROVE NoSecretLeftBehind'
    BY <1>0, <1>3 DEF IInv, ServiceInv, TypeOK, NoSecretLeftBehind, CopyPlace, sessionVars, adapter
  <1>4. ASSUME CopyFail PROVE NoSecretLeftBehind'
    BY <1>0, <1>4 DEF IInv, ServiceInv, TypeOK, NoSecretLeftBehind, CopyFail
  <1>5. ASSUME NEW c \in Configs, UpdateConfig(c) PROVE NoSecretLeftBehind'
    BY <1>0, <1>5, ConfigFacts DEF NoSecretLeftBehind, UpdateConfig, deskVars, adapter, Adapter
  <1>6. ASSUME UnlockVault PROVE NoSecretLeftBehind'
    BY <1>0, <1>6 DEF IInv, ServiceInv, TypeOK, ClosedIsEmpty, NoSecretLeftBehind, UnlockVault, adapter
  <1>7. ASSUME ReportChange PROVE NoSecretLeftBehind'
    <2>1. /\ UNCHANGED <<platform, stuck, config>>
          /\ abandoned' = IF platform[adapter] = buffer THEN abandoned \cup {adapter} ELSE abandoned
      BY <1>7 DEF ReportChange, ExternalContentChanged, sessionVars
    <2> QED BY <1>0, <2>1 DEF NoSecretLeftBehind
  <1>8. ASSUME OtherAppCopies PROVE NoSecretLeftBehind'
    BY <1>0, <1>8 DEF IInv, ServiceInv, TypeOK, NoSecretLeftBehind, OtherAppCopies, sessionVars, lockedVars,
         adapter
  <1>9. ASSUME UNCHANGED <<platform, stuck, abandoned, buffer, config>> PROVE NoSecretLeftBehind'
    BY <1>0, <1>9 DEF NoSecretLeftBehind, adapter
  <1>10. ASSUME \/ \E v \in Secrets : CopyCheck(v)
                \/ Unblock \/ Tell \/ FireClear \/ FireWarn \/ TimerTell \/ TimerWarn
                \/ ReportAccess \/ Tick \/ UNCHANGED vars
         PROVE  UNCHANGED <<platform, stuck, abandoned, buffer, config>>
    BY <1>10 DEF CopyCheck, Unblock, Tell, FireClear, FireWarn, TimerTell, TimerWarn, ReportAccess,
      Tick, vars, sessionVars, lockedVars, deskVars
  <1>11. ASSUME ClearNow \/ LockVault \/ TimerClear \/ \E c \in Configs : ReplaceAdapter(c)
         PROVE  NoSecretLeftBehind'
    BY <1>2, <1>11 DEF ClearNow, LockVault, TimerClear, ReplaceAdapter
  <1>12. NoSecretLeftBehind'
    BY <1>3, <1>4, <1>5, <1>6, <1>7, <1>8, <1>9, <1>10, <1>11
    DEF Next, ServiceNext, UserStep, UIStep, TimerStep
  <1> QED BY <1>1, <1>12 DEF IInv

\* The inductive invariant always holds.
THEOREM Invariance == Spec => []IInv
  BY InitIInv, NextIInv, PTL DEF Spec

\* Every variable keeps its type.
THEOREM TypeCorrect == Spec => []TypeOK
  BY Invariance, PTL DEF IInv, ServiceInv

\* A deadline is always the deadline of an armed timer, or of one that has expired
\* and whose thread is about to clear: _schedule_timers_locked,
\* report_external_access and _discard_current_locked never lose it.
THEOREM DeadlinesArmed == Spec => []DeadlineIsArmed
  BY Invariance, PTL DEF IInv, ServiceInv

\* No path of the service leaves a copied value on a clipboard it no longer looks after,
\* unless an adapter call failed or an alarm of the monitor let go of the value while it
\* was there.
THEOREM NothingLeftBehind == Spec => []NoSecretLeftBehind
  BY Invariance, PTL DEF IInv, ServiceInv

\* The reported state agrees with the buffer and the block.
THEOREM HonestStatus == Spec => []StatusHonest
  BY Invariance, PTL DEF IInv, ServiceInv

--------------------------------------------------------------------------------
(* Clipboard implements ClipboardPromise. *)

\* Each step of the service is a step of the promise, or changes neither the
\* exposed value nor its lease.  That time passes only with lease left is where
\* DeadlineIsArmed is needed: Settled rules out an expired timer, not a deadline
\* that nobody watches.
LEMMA StepKeepsPromise ==
  ASSUME ServiceInv, [Next]_vars
  PROVE  [Promise!PNext]_(Promise!promiseVars)
  <1> USE ClipboardAssumption DEF Promise!promiseVars
  <1>0. /\ config.timeout \in Ticks \ {0}
        /\ remaining \in Ticks
        /\ buffer \in Secrets \cup {NoSecret}
    BY ConfigFacts DEF ServiceInv, TypeOK
  <1>1. ASSUME buffer' = NoSecret, remaining' = Never
        PROVE  Promise!PNext \/ UNCHANGED Promise!promiseVars
    <2>1. CASE buffer = NoSecret
      BY <1>1, <2>1 DEF ServiceInv, DeadlineIsArmed
    <2>2. CASE buffer # NoSecret
      BY <1>1, <2>2 DEF Promise!PNext, Promise!Withdraw
    <2> QED BY <2>1, <2>2
  <1>2. ASSUME NEW ok \in BOOLEAN, ClearLocked(ok)
        PROVE  Promise!PNext \/ UNCHANGED Promise!promiseVars
    BY <1>1, <1>2 DEF ClearLocked, DropCurrent
  <1>3. CASE CopyPlace
    <2>1. copying \in Secrets
      BY <1>3 DEF ServiceInv, TypeOK, CopyPlace
    <2>2. Promise!Expose(copying)
      BY <1>0, <1>3 DEF CopyPlace, Promise!Expose, Promise!Lease, Ticks
    <2> QED BY <2>1, <2>2 DEF Promise!PNext
  <1>4. CASE CopyFail
    BY <1>1, <1>4 DEF CopyFail
  <1>5. ASSUME NEW c \in Configs, UpdateConfig(c)
        PROVE  Promise!PNext \/ UNCHANGED Promise!promiseVars
    <2>1. CASE buffer = NoSecret
      BY <1>5, <2>1 DEF UpdateConfig
    <2>2. CASE buffer # NoSecret
      BY <1>5, <2>2, ConfigFacts
      DEF UpdateConfig, Promise!PNext, Promise!ChangeLease, Promise!Lease, Ticks
    <2> QED BY <2>1, <2>2
  <1>6. CASE ReportChange
    BY <1>1, <1>6 DEF ReportChange, ExternalContentChanged
  <1>7. CASE ReportAccess
    BY <1>0, <1>7 DEF ReportAccess, Promise!PNext, Promise!ChangeLease, Promise!Lease, Ticks
  <1>8. CASE Tick
    <2>1. CASE remaining = Never
      BY <1>8, <2>1 DEF Tick, Down
    <2>2. CASE remaining # Never
      <3>1. buffer # NoSecret /\ remaining \in Nat \ {0}
        BY <1>0, <1>8, <2>2 DEF ServiceInv, DeadlineIsArmed, Tick, Settled, Ticks
      <3>2. Promise!PTick
        BY <1>8, <3>1 DEF Tick, Down, Promise!PTick
      <3> QED BY <3>2 DEF Promise!PNext
    <2> QED BY <2>1, <2>2
  <1>9. ASSUME \/ \E v \in Secrets : CopyCheck(v)
               \/ Unblock \/ UnlockVault \/ Tell
               \/ FireClear \/ FireWarn \/ TimerTell \/ TimerWarn
               \/ OtherAppCopies \/ UNCHANGED vars
        PROVE  UNCHANGED Promise!promiseVars
    BY <1>9 DEF CopyCheck, Unblock, UnlockVault, Tell, FireClear, FireWarn, TimerTell,
      TimerWarn, OtherAppCopies, vars, lockedVars
  <1>10. CASE ClearNow \/ LockVault \/ TimerClear \/ \E c \in Configs : ReplaceAdapter(c)
    BY <1>2, <1>10 DEF ClearNow, LockVault, TimerClear, ReplaceAdapter
  <1> QED
    BY <1>3, <1>4, <1>5, <1>6, <1>7, <1>8, <1>9, <1>10
    DEF Next, ServiceNext, UserStep, UIStep, TimerStep

\* At most one value is exposed, on a lease, and no time passes once it has run out.
THEOREM Refinement == Spec => PromiseKept
  <1>1. Init => Promise!PInit
    BY DEF Init, Promise!PInit
  <1>2. IInv /\ [Next]_vars => [Promise!PNext]_(Promise!promiseVars)
    BY StepKeepsPromise DEF IInv
  <1> QED
    BY <1>1, <1>2, Invariance, PTL DEF Spec, PromiseKept, Promise!PSpec
--------------------------------------------------------------------------------
(* The service with the real monitor. *)

\* Unless an active value is still to be reported, a token that is watched was read when
\* the value that is there was on the clipboard, and nothing has been written since.
WatchFresh ==
  expected \in ReadTokens /\ platform[adapter] = buffer /\ telling # "active" =>
    expected.content = buffer /\ ~expected.stale

\* A pass that has begun holds a token.
PassHoldsToken == phase = "reading" => seen # NoToken

\* The inductive invariant of the composition.
MInv == ServiceInv /\ MTypeOK /\ WatchFresh /\ PassHoldsToken

\* What change_token can return is a token, of what is on the clipboard and not stale
\* unless the read failed.
LEMMA ChangeTokensType ==
  ASSUME TypeOK, NEW t \in ChangeTokens
  PROVE  /\ t \in Tokens
         /\ t # Unreadable => t.content = platform[adapter] /\ ~t.stale
  <1>1. adapter \in Adapters
    BY ConfigFacts DEF TypeOK, adapter
  <1>2. [content |-> platform[adapter], stale |-> FALSE] \in ReadTokens
    BY <1>1 DEF TypeOK, ReadTokens
  <1>3. t = [content |-> platform[adapter], stale |-> FALSE] \/ t = Unreadable
    BY DEF ChangeTokens
  <1>4. CASE t = [content |-> platform[adapter], stale |-> FALSE]
    BY <1>2, <1>4 DEF Tokens
  <1> QED BY <1>3, <1>4 DEF Tokens

\* A token that ages keeps its kind.
LEMMA AgedType ==
  ASSUME NEW t \in Tokens \cup {NoToken}
  PROVE  /\ Aged(t) \in Tokens \cup {NoToken}
         /\ Aged(t) = NoToken => t = NoToken
  BY MonitorAssumption DEF Aged, Tokens, ReadTokens

\* Each step of the composition is a step of the service: a pass that ends in an alarm is
\* a report, if there is still something to let go of.
LEMMA MonitorStepIsService == ServiceInv /\ [MNext]_allVars => [Next]_vars
  <1> SUFFICES ASSUME ServiceInv, [MNext]_allVars PROVE [Next]_vars
    OBVIOUS
  <1>1. ASSUME PollAlarm PROVE [Next]_vars
    <2>1. CASE buffer = NoSecret
      BY <1>1, <2>1 DEF PollAlarm, ExternalContentChanged, vars
    <2>2. CASE buffer # NoSecret
      BY <1>1, <2>2 DEF PollAlarm, ReportChange, Next, ServiceInv, TypeOK, ClosedIsEmpty
    <2> QED BY <2>1, <2>2
  <1> QED
    BY <1>1
    DEF MNext, MTell, MTimerTell, MRestart, MQuiet, MWrite, PollStep, PollRead, PollCompare,
        Next, ServiceNext, UserStep, UIStep, TimerStep, allVars

\* Every step of the composition preserves its inductive invariant.
LEMMA MonitorStepInv == MInv /\ [MNext]_allVars => MInv'
  <1> SUFFICES ASSUME MInv, [MNext]_allVars PROVE MInv'
    OBVIOUS
  <1> USE ClipboardAssumption, MonitorAssumption
  <1>0. /\ TypeOK /\ adapter \in Adapters
        /\ expected \in Tokens \cup {NoToken} /\ seen \in Tokens \cup {NoToken}
        /\ phase \in {"waiting", "reading", "alarmed"}
        /\ PassHoldsToken /\ WatchFresh
    BY ConfigFacts DEF MInv, MTypeOK, TypeOK, adapter
  <1>1. ServiceInv'
    <2>1. CASE UNCHANGED vars
      BY <2>1 DEF MInv, ServiceInv, TypeOK, ClosedIsEmpty, DeadlineIsArmed, StatusHonest,
           vars, sessionVars, lockedVars, deskVars, threadVars
    <2> QED BY <2>1, MonitorStepIsService, StepServiceInv DEF MInv
  <1>t. TypeOK'
    BY <1>1 DEF ServiceInv
  <1>2. SUFFICES MTypeOK' /\ WatchFresh' /\ PassHoldsToken'
    BY <1>1 DEF MInv
  \* A value that has left the buffer is not on the clipboard.
  <1>3. ASSUME buffer' = NoSecret PROVE WatchFresh'
    <2>1. adapter' \in Adapters
      BY <1>t, ConfigFacts DEF TypeOK, adapter
    <2>2. platform'[adapter'] # NoSecret
      BY <1>t, <2>1 DEF TypeOK
    <2> QED BY <1>3, <2>2 DEF WatchFresh
  <1>4. ASSUME MTell \/ MTimerTell PROVE MTypeOK' /\ WatchFresh' /\ PassHoldsToken'
    <2>1. PICK state \in Statuses :
            /\ StateChanged(state)
            /\ MTell => state = telling
            /\ UNCHANGED <<seen, phase, platform, config, buffer>>
            /\ MTimerTell => state = "idle" /\ telling' = telling
      BY <1>0, <1>4 DEF MTell, MTimerTell, Tell, TimerTell, TypeOK, Statuses, deskVars, lockedVars,
        sessionVars
    <2>2. adapter' = adapter
      BY <2>1 DEF adapter
    <2>3. CASE state = "active"
      <3>1. expected' \in ChangeTokens
        BY <2>1, <2>3 DEF StateChanged
      <3> QED BY <1>0, <1>t, <2>1, <2>2, <3>1, ChangeTokensType
          DEF MTypeOK, WatchFresh, PassHoldsToken
    <2>4. CASE state = "warning"
      BY <1>0, <1>t, <1>4, <2>1, <2>2, <2>4 DEF StateChanged, MTypeOK, WatchFresh, PassHoldsToken
    <2>5. CASE state \notin {"active", "warning"}
      <3>1. expected' = NoToken
        BY <2>1, <2>5 DEF StateChanged
      <3> QED BY <1>0, <1>t, <2>1, <3>1 DEF MTypeOK, WatchFresh, PassHoldsToken, Tokens
    <2> QED BY <2>3, <2>4, <2>5
  <1>5. ASSUME MRestart PROVE MTypeOK' /\ WatchFresh' /\ PassHoldsToken'
    BY <1>0, <1>t, <1>5 DEF MRestart, MTypeOK, WatchFresh, PassHoldsToken, Tokens
  <1>6. ASSUME MQuiet PROVE MTypeOK' /\ WatchFresh' /\ PassHoldsToken'
    <2>1. UNCHANGED monitorVars
      BY <1>6 DEF MQuiet
    <2>2. MTypeOK' /\ PassHoldsToken'
      BY <1>0, <1>t, <2>1 DEF MTypeOK, PassHoldsToken, monitorVars
    <2>3. ASSUME UNCHANGED <<platform, buffer, adapter>>, telling' = "active" \/ telling # "active"
          PROVE  WatchFresh'
      BY <1>0, <2>1, <2>3 DEF WatchFresh, monitorVars
    <2>4. ASSUME NEW v \in Secrets, CopyCheck(v) PROVE WatchFresh'
      BY <2>3, <2>4 DEF CopyCheck, sessionVars, lockedVars, deskVars, adapter, UIIdle
    <2>5. ASSUME Unblock PROVE WatchFresh'
      BY <2>3, <2>5 DEF Unblock, sessionVars, deskVars, adapter, UIIdle
    <2>6. ASSUME NEW c \in Configs, UpdateConfig(c) PROVE WatchFresh'
      BY <2>3, <2>6 DEF UpdateConfig, deskVars, adapter, Adapter, UIIdle
    <2>7. ASSUME FireClear \/ FireWarn \/ TimerWarn \/ ReportAccess PROVE WatchFresh'
      BY <2>3, <2>7 DEF FireClear, FireWarn, TimerWarn, ReportAccess, sessionVars, deskVars,
        threadVars, adapter
    <2>8. ASSUME adapter = "private", OtherAppCopies PROVE WatchFresh'
      <3>1. adapter' = adapter /\ platform'[adapter'] = platform[adapter]
        BY <1>0, <2>8 DEF OtherAppCopies, sessionVars, adapter, TypeOK
      <3> QED BY <1>0, <2>1, <2>8, <3>1
          DEF OtherAppCopies, lockedVars, threadVars, WatchFresh, monitorVars
    <2>9. ASSUME Tick PROVE WatchFresh'
      BY <2>3, <2>9 DEF Tick, sessionVars, deskVars, threadVars, adapter
    <2> QED BY <1>6, <2>2, <2>4, <2>5, <2>6, <2>7, <2>8, <2>9 DEF MQuiet
  <1>7. ASSUME MWrite PROVE MTypeOK' /\ WatchFresh' /\ PassHoldsToken'
    <2>1. expected' = Aged(expected) /\ seen' = Aged(seen) /\ phase' = phase
      BY <1>7 DEF MWrite
    <2>2. MTypeOK' /\ PassHoldsToken'
      BY <1>0, <1>t, <2>1, AgedType DEF MTypeOK, PassHoldsToken
    <2>3. CASE CopyPlace
      BY <2>2, <2>3 DEF CopyPlace, WatchFresh
    <2>4. CASE CopyFail
      BY <1>3, <2>2, <2>4 DEF CopyFail
    <2>5. CASE ClearNow \/ TimerClear
      BY <1>3, <2>2, <2>5 DEF ClearNow, TimerClear, ClearLocked, DropCurrent
    <2>6. CASE adapter = "system" /\ OtherAppCopies
      <3>1. adapter' = adapter /\ buffer' = buffer /\ platform'[adapter'] \in Others
        BY <1>0, <2>6 DEF OtherAppCopies, sessionVars, lockedVars, adapter, TypeOK
      <3>2. platform'[adapter'] # buffer'
        BY <1>0, <3>1 DEF TypeOK, Contents
      <3> QED BY <2>2, <3>2 DEF WatchFresh
    <2> QED BY <1>7, <2>3, <2>4, <2>5, <2>6 DEF MWrite
  <1>8. ASSUME PollRead PROVE MTypeOK' /\ WatchFresh' /\ PassHoldsToken'
    BY <1>0, <1>t, <1>8 DEF PollRead, MTypeOK, WatchFresh, PassHoldsToken, vars, sessionVars,
      lockedVars, deskVars, threadVars, adapter
  <1>9. ASSUME PollCompare PROVE MTypeOK' /\ WatchFresh' /\ PassHoldsToken'
    <2>1. PICK current \in ChangeTokens :
            \/ phase' = "alarmed" /\ expected' = NoToken /\ seen' = current
            \/ phase' = "waiting" /\ expected' = expected /\ seen' = NoToken
      BY <1>9 DEF PollCompare
    <2>2. UNCHANGED <<platform, buffer, telling, adapter>>
      BY <1>9 DEF PollCompare, vars, sessionVars, lockedVars, deskVars, threadVars, adapter
    <2> QED BY <1>0, <1>t, <2>1, <2>2, ChangeTokensType
        DEF MTypeOK, WatchFresh, PassHoldsToken, Tokens
  <1>10. ASSUME PollAlarm PROVE MTypeOK' /\ WatchFresh' /\ PassHoldsToken'
    <2>1. phase' = "waiting" /\ seen' = NoToken /\ expected' = expected
      BY <1>10 DEF PollAlarm
    <2>2. buffer' = NoSecret
      BY <1>10 DEF PollAlarm, ExternalContentChanged, lockedVars
    <2> QED BY <1>0, <1>t, <1>3, <2>1, <2>2 DEF MTypeOK, PassHoldsToken
  <1>11. ASSUME UNCHANGED allVars PROVE MTypeOK' /\ WatchFresh' /\ PassHoldsToken'
    BY <1>0, <1>t, <1>11 DEF allVars, monitorVars, vars, sessionVars, lockedVars, deskVars,
      threadVars, MTypeOK, WatchFresh, PassHoldsToken, adapter
  <1> QED
    BY <1>4, <1>5, <1>6, <1>7, <1>8, <1>9, <1>10, <1>11 DEF MNext, PollStep

\* The inductive invariant of the composition always holds.
THEOREM MonitorInvariance == MSpec => []MInv
  <1>1. MInit => MInv
    <2>1. MInit => ServiceInv
      BY InitIInv DEF MInit, IInv
    <2> QED BY <2>1, MonitorAssumption
        DEF MInit, MInv, MTypeOK, ServiceInv, WatchFresh, PassHoldsToken, Tokens
  <1> QED BY <1>1, MonitorStepInv, PTL DEF MSpec

\* A pass finds a difference, for a value that is where it was put, only if a read failed,
\* a copy is not reported yet, or the watch has moved on since the pass began.
LEMMA AlarmStep ==
  ASSUME MInv, [MNext]_allVars,
         phase = "reading", phase' = "alarmed", platform[adapter] = buffer
  PROVE  Unreadable \in {seen, seen'} \/ telling # "none" \/ expected # seen
  <1> USE MonitorAssumption
  <1>1. PollCompare
    BY DEF MNext, MTell, MTimerTell, MRestart, MQuiet, MWrite, PollStep, PollRead, PollAlarm,
      monitorVars, allVars
  <1>2. PICK current \in ChangeTokens : TRUE \in Differs(current, seen) /\ seen' = current
    BY <1>1 DEF PollCompare
  <1>3. SUFFICES ASSUME Unreadable \notin {seen, current}, telling = "none", expected = seen
                 PROVE  FALSE
    BY <1>2
  <1>4. seen \in ReadTokens
    BY <1>3 DEF MInv, MTypeOK, PassHoldsToken, Tokens
  <1>5. seen.content = buffer /\ ~seen.stale
    BY <1>3, <1>4 DEF MInv, WatchFresh
  <1>6. current.content = buffer
    BY <1>3, ChangeTokensType DEF MInv, MTypeOK
  <1> QED BY <1>2, <1>3, <1>5, <1>6 DEF Differs

\* The monitor raises no false alarm at rest, however the service, its timers, the user and
\* other applications interleave with its passes.
THEOREM NoFalseAlarm == MSpec => NoFalseAlarmAtRest
  <1>1. MInv /\ [MNext]_allVars =>
          [phase = "reading" /\ phase' = "alarmed" /\ platform[adapter] = buffer =>
             Unreadable \in {seen, seen'} \/ telling # "none" \/ expected # seen]_allVars
    BY AlarmStep
  <1> QED BY <1>1, MonitorInvariance, PTL DEF MSpec, NoFalseAlarmAtRest

\* The service with its monitor implements the service that is told anything at any time ...
THEOREM MonitorImplements == MSpec => Spec
  <1>1. MInit => Init
    BY DEF MInit
  <1>2. MInv /\ [MNext]_allVars => [Next]_vars
    BY MonitorStepIsService DEF MInv
  <1> QED
    BY <1>1, <1>2, MonitorInvariance, PTL DEF MSpec, Spec

\* ... so with the real monitor too no deadline is lost, the reported state is right, and a
\* secret is left behind only by a failed adapter call or by an alarm, ...
THEOREM MonitoredService ==
  MSpec => [](TypeOK /\ DeadlineIsArmed /\ StatusHonest /\ NoSecretLeftBehind)
  <1>1. IInv => TypeOK /\ DeadlineIsArmed /\ StatusHonest /\ NoSecretLeftBehind
    BY DEF IInv, ServiceInv
  <1> QED BY <1>1, MonitorImplements, Invariance, PTL

\* ... and the service keeps its promise.
THEOREM MonitoredRefinement == MSpec => PromiseKept
  BY MonitorImplements, Refinement, PTL
===============================================================================
