----------------------------- MODULE ActivityMonitor -----------------------------
(***************************************************************************)
(* ActivityMonitor: threads that probe the system, decide under the lock   *)
(* whether the vault has been idle for too long, and call back outside it. *)
(* Activity, a change of the settings, stop and start, and resume come from*)
(* another thread between any two of these steps.  stop() waits two seconds*)
(* for the thread and then goes on, so an old thread may live on.          *)
(***************************************************************************)
EXTENDS Integers, FiniteSets

CONSTANTS
  Watchers,     \* threads, each started once
  Timeouts,     \* auto_lock_timeout_seconds, in ticks
  Kinds,        \* the kinds of activity
  AcceptedKinds,\* those the sensitivity lets through
  MaxClock      \* bound: ticks of the clock

ASSUME MonitorAssumption == Timeouts \subseteq Nat

VARIABLES
  clock,
  lastActivity,  \* _last_activity
  timeout,       \* config.auto_lock_timeout_seconds
  locked,        \* _locked
  monitoring,    \* _monitoring
  stopping,      \* _stop_event
  watcher,       \* the step each thread is at: [at, idle, screen, reason]
  sinceInput,    \* history: ticks since the user did anything that counts
  systemIdle,    \* what the system would answer
  request,       \* history: the last request to lock: [reason, quiet, needed], and how many since resume
  broken         \* history: a callback raised, and the thread ended with it

monitorVars == <<clock, lastActivity, timeout, locked, monitoring, stopping, watcher,
                 sinceInput, systemIdle, request, broken>>

Unknown == -1   \* a probe that failed, or a system that cannot tell
At(step) == [at |-> step, idle |-> Unknown, screen |-> FALSE, reason |-> "none"]
NoRequest == [reason |-> "none", quiet |-> 0, needed |-> 0, count |-> 0]

MonitorInit ==
  /\ clock = 0 /\ lastActivity = 0 /\ timeout \in Timeouts
  /\ locked = FALSE /\ monitoring = FALSE /\ stopping = FALSE
  /\ watcher = [w \in Watchers |-> At("unborn")]
  /\ sinceInput = 0 /\ systemIdle = 0
  /\ request = NoRequest /\ broken = FALSE

ClockTicks ==
  /\ clock < MaxClock
  /\ clock' = clock + 1
  /\ sinceInput' = sinceInput + 1
  /\ systemIdle' = systemIdle + 1
  /\ UNCHANGED <<lastActivity, timeout, locked, monitoring, stopping, watcher, request, broken>>

\* The user does something in another program: only the system knows.
SystemInput ==
  /\ systemIdle > 0
  /\ systemIdle' = 0
  /\ UNCHANGED <<clock, lastActivity, timeout, locked, monitoring, stopping, watcher,
                 sinceInput, request, broken>>

--------------------------------------------------------------------------------

Accepts(kind) == kind \in AcceptedKinds

RecordActivity(kind) ==
  /\ Accepts(kind) /\ ~locked
  /\ lastActivity' = clock
  /\ sinceInput' = 0 /\ systemIdle' = 0
  /\ UNCHANGED <<clock, timeout, locked, monitoring, stopping, watcher, request, broken>>

UpdateConfig(t) ==
  /\ timeout' = t /\ lastActivity' = clock /\ sinceInput' = 0
  /\ UNCHANGED <<clock, locked, monitoring, stopping, watcher, systemIdle, request, broken>>

Resume ==
  /\ locked' = FALSE /\ lastActivity' = clock
  /\ sinceInput' = 0 /\ request' = NoRequest
  /\ UNCHANGED <<clock, timeout, monitoring, stopping, watcher, systemIdle, broken>>

\* A slip: the event of the last stop is not cleared.
StartStopped(w) ==
  /\ ~monitoring /\ watcher[w].at = "unborn"
  /\ monitoring' = TRUE /\ UNCHANGED stopping
  /\ watcher' = [watcher EXCEPT ![w] = At("wait")]
  /\ UNCHANGED <<clock, lastActivity, timeout, locked, sinceInput, systemIdle, request, broken>>

Start(w) ==
  /\ ~monitoring /\ watcher[w].at = "unborn"
  /\ monitoring' = TRUE /\ stopping' = FALSE
  /\ watcher' = [watcher EXCEPT ![w] = At("wait")]
  /\ UNCHANGED <<clock, lastActivity, timeout, locked, sinceInput, systemIdle, request, broken>>

Stop ==
  /\ monitoring
  /\ monitoring' = FALSE /\ stopping' = TRUE
  /\ UNCHANGED <<clock, lastActivity, timeout, locked, watcher, sinceInput, systemIdle, request, broken>>

--------------------------------------------------------------------------------
\* The thread

Wake(w) ==
  /\ watcher[w].at = "wait"
  /\ watcher' = [watcher EXCEPT ![w] = At(IF stopping THEN "ended" ELSE "probe")]
  /\ UNCHANGED <<clock, lastActivity, timeout, locked, monitoring, stopping, sinceInput,
                 systemIdle, request, broken>>

\* The system is asked outside the lock; an answer may be missing.
Probe(w) ==
  /\ watcher[w].at = "probe"
  /\ \E idle \in {systemIdle, Unknown}, screen \in BOOLEAN :
       watcher' = [watcher EXCEPT ![w] = [at |-> "decide", idle |-> idle, screen |-> screen, reason |-> "none"]]
  /\ UNCHANGED <<clock, lastActivity, timeout, locked, monitoring, stopping, sinceInput,
                 systemIdle, request, broken>>

InternalIdle == clock - lastActivity
SystemIsFresher(w) == watcher[w].idle # Unknown /\ watcher[w].idle < InternalIdle
Quiet(w) == IF SystemIsFresher(w) THEN watcher[w].idle ELSE InternalIdle

\* A slip: what the system said counts although the user has been active since.
ReasonSystemOnly(w) ==
  IF watcher[w].screen THEN "screen_lock"
  ELSE IF watcher[w].idle >= timeout \/ Quiet(w) >= timeout THEN "inactivity" ELSE "none"

Reason(w) ==
  IF watcher[w].screen THEN "screen_lock" ELSE IF Quiet(w) >= timeout THEN "inactivity" ELSE "none"

\* The decision, in the lock.  Who decides for a lock marks it, so that nobody else asks.
Decide(w) ==
  /\ watcher[w].at = "decide"
  /\ LET reason == IF locked THEN "none" ELSE Reason(w)
     IN /\ watcher' = [watcher EXCEPT ![w] = IF reason = "none" THEN At("wait") ELSE [At("call") EXCEPT !.reason = reason]]
        /\ locked' = (locked \/ reason # "none")
        /\ request' = IF reason = "none" THEN request
                      ELSE [reason |-> reason, quiet |-> sinceInput, needed |-> timeout, count |-> request.count + 1]
  /\ lastActivity' = IF ~locked /\ SystemIsFresher(w) THEN clock - watcher[w].idle ELSE lastActivity
  /\ UNCHANGED <<clock, timeout, monitoring, stopping, sinceInput, systemIdle, broken>>

\* lock_callback returns, or raises: then it is called once more, and the thread ends.
Call(w) ==
  /\ watcher[w].at = "call"
  /\ \/ watcher' = [watcher EXCEPT ![w] = At("wait")] /\ UNCHANGED <<locked, broken>>
     \/ /\ watcher' = [watcher EXCEPT ![w] = At("ended")]
        /\ broken' = TRUE
        /\ locked' \in {locked, TRUE}
  /\ UNCHANGED <<clock, lastActivity, timeout, monitoring, stopping, sinceInput, systemIdle, request>>

Watch(w) == Wake(w) \/ Probe(w) \/ Decide(w) \/ Call(w)

MonitorNext ==
  \/ ClockTicks \/ SystemInput \/ Resume \/ Stop
  \/ \E kind \in Kinds : RecordActivity(kind)
  \/ \E t \in Timeouts : UpdateConfig(t)
  \/ \E w \in Watchers : Start(w) \/ Watch(w)

MonitorSpec == MonitorInit /\ [][MonitorNext]_monitorVars

\* A thread that has not ended is scheduled and its waits and probes return.
MonitorFairness == \A w \in Watchers : WF_monitorVars(Watch(w))

--------------------------------------------------------------------------------

\* A lock for inactivity is asked for only when the user was quiet for the whole timeout
\* that held at the decision, whatever came in between probe and decision, and it is asked
\* for once until resume, also when an old thread lives on beside a new one.
LockJustified ==
  /\ request.reason = "inactivity" => request.quiet >= request.needed
  /\ request.count <= 1 /\ (request.count = 1 => locked)

\* While the monitor runs and no callback has failed, a vault that stays idle past the
\* timeout is locked, through every sequence of stops, starts and slow threads.
WatchKept ==
  (monitoring /\ ~locked /\ InternalIdle >= timeout)
    ~> (locked \/ ~monitoring \/ InternalIdle < timeout \/ broken)
================================================================================
