--------------------------- MODULE ClipboardMonitor ---------------------------
(***************************************************************************)
(* Clipboard composed with the real ClipboardMonitor: an observer of the   *)
(* service that remembers a token of the clipboard, and a thread that      *)
(* compares it with the clipboard about once a second.  The token is read  *)
(* and written without the service's lock, so a pass of the thread is      *)
(* three steps, between which the service and the desktop go on.           *)
(*                                                                         *)
(* A token is a hash of the text on some platforms and a change counter on *)
(* others: two tokens differ if the content does, and may differ if the    *)
(* clipboard was written between the two readings.  A read that fails      *)
(* yields a fresh object, which differs from every token.                  *)
(***************************************************************************)
EXTENDS Clipboard

CONSTANTS NoToken,     \* _expected_token is None
          Unreadable,  \* the token of a read that failed
          ReadsFail    \* whether reading the system clipboard can fail

\* "stale": the clipboard was written after the token was read.
ReadTokens == [content : Contents, stale : BOOLEAN]
Tokens     == ReadTokens \cup {Unreadable}

ASSUME MonitorAssumption ==
  /\ NoToken \notin Tokens
  /\ Unreadable \notin ReadTokens
  /\ ReadsFail \in BOOLEAN

VARIABLES expected,  \* _expected_token
          seen,      \* the token the thread holds: the expected one, then the current one
          phase      \* where the thread is in its pass

monitorVars == <<expected, seen, phase>>
allVars == <<vars, monitorVars>>

MTypeOK ==
  /\ TypeOK
  /\ expected \in Tokens \cup {NoToken}
  /\ seen \in Tokens \cup {NoToken}
  /\ phase \in {"waiting", "reading", "alarmed"}

MInit == Init /\ expected = NoToken /\ seen = NoToken /\ phase = "waiting"

\* The tokens change_token() may return now.
ChangeTokens ==
  {[content |-> platform[adapter], stale |-> FALSE]}
    \cup (IF ReadsFail /\ adapter = "system" THEN {Unreadable} ELSE {})

\* A slip for the runs to catch: only an emptied clipboard counts as changed.
EmptyDiffers(current, token) ==
  IF Unreadable \in {current, token} THEN {TRUE}
  ELSE {current.content = Empty /\ token.content # Empty}

\* The possible outcomes of current != expected.
Differs(current, token) ==
  IF Unreadable \in {current, token} \/ current.content # token.content THEN {TRUE}
  ELSE IF token.stale THEN BOOLEAN ELSE {FALSE}

Aged(token) == IF token \in ReadTokens THEN [token EXCEPT !.stale = TRUE] ELSE token

\* A slip: a token that is already there is kept for the next value.
StateChangedOnce(state) ==
  CASE state = "active"  -> expected' \in IF expected = NoToken THEN ChangeTokens ELSE {expected}
    [] state = "warning" -> expected' = expected
    [] OTHER             -> expected' = NoToken

\* clipboard_state_changed: an active value is watched from now on, the states
\* without a value end the watch, a warning leaves it alone.
StateChanged(state) ==
  CASE state = "active"  -> expected' \in ChangeTokens
    [] state = "warning" -> expected' = expected
    [] OTHER             -> expected' = NoToken

\* _notify reaches the monitor on whichever thread changed the state; the
\* clear timer's thread always reports a state without a value.
MTell      == Tell /\ StateChanged(telling) /\ UNCHANGED <<seen, phase>>
MTimerTell == TimerTell /\ StateChanged("idle") /\ UNCHANGED <<seen, phase>>

\* stop() joins the thread, which finishes its pass first; the next session, or
\* the new adapter, gets a new monitor.
MRestart == /\ phase = "waiting"
            /\ LockVault \/ UnlockVault \/ (\E c \in Configs : ReplaceAdapter(c))
            /\ expected' = NoToken
            /\ UNCHANGED <<seen, phase>>

\* The steps of the service and the desktop that do not write the clipboard in use ...
MQuiet ==
  /\ \/ \E v \in Secrets : CopyCheck(v)
     \/ Unblock
     \/ \E c \in Configs : UpdateConfig(c)
     \/ FireClear \/ FireWarn \/ TimerWarn
     \/ ReportAccess
     \/ adapter = "private" /\ OtherAppCopies
     \/ (phase = "waiting" /\ Tick)
  /\ UNCHANGED monitorVars

\* ... and those that do.
MWrite ==
  /\ CopyPlace \/ CopyFail \/ ClearNow \/ TimerClear \/ (adapter = "system" /\ OtherAppCopies)
  /\ expected' = Aged(expected)
  /\ seen' = Aged(seen)
  /\ UNCHANGED phase

\* A pass begins: there is something to watch.
PollRead ==
  /\ phase = "waiting"
  /\ unlocked
  /\ expected # NoToken
  /\ buffer # NoSecret
  /\ seen' = expected
  /\ phase' = "reading"
  /\ UNCHANGED <<vars, expected>>

PollCompare ==
  /\ phase = "reading"
  /\ \E current \in ChangeTokens : \E differs \in Differs(current, seen) :
       IF differs
         THEN phase' = "alarmed" /\ expected' = NoToken /\ seen' = current
         ELSE phase' = "waiting" /\ expected' = expected /\ seen' = NoToken
  /\ UNCHANGED vars

PollAlarm ==
  /\ phase = "alarmed"
  /\ ExternalContentChanged
  /\ phase' = "waiting"
  /\ seen' = NoToken
  /\ UNCHANGED <<sessionVars, threadVars, expected>>

PollStep == PollRead \/ PollCompare \/ PollAlarm

MNext == MTell \/ MTimerTell \/ MRestart \/ MQuiet \/ MWrite \/ PollStep

MSpec == MInit /\ [][MNext]_allVars

(***************************************************************************)
(* Threads that are ready run, time passes, and the monitor's thread keeps *)
(* polling.  It waits a second between two passes, so passes do not keep   *)
(* time from passing.  Nobody has to copy, lock or report.                 *)
(***************************************************************************)
MFairness ==
  /\ WF_allVars(MTell)
  /\ WF_allVars((CopyPlace \/ CopyFail) /\ MWrite)
  /\ WF_allVars(MTimerTell)
  /\ WF_allVars((FireClear \/ FireWarn \/ TimerWarn) /\ MQuiet)
  /\ WF_allVars(TimerClear /\ MWrite)
  /\ SF_allVars(Tick /\ MQuiet)
  /\ WF_allVars(PollStep)

MFairSpec == MSpec /\ MFairness

--------------------------------------------------------------------------------
(* Properties. *)

\* The monitor raises a false alarm, for a value that is where it was put, only
\* in a pass that overlaps a copy: the watch has moved on since the pass began, or
\* the copying thread has not told the monitor yet; or when the clipboard could not
\* be read.
NoFalseAlarmAtRest ==
  [][ phase = "reading" /\ phase' = "alarmed" /\ platform[adapter] = buffer =>
        Unreadable \in {seen, seen'} \/ telling # "none" \/ expected # seen ]_allVars

\* Nothing the user or other applications do any more.
DeskQuiet == <>[][~(UserStep \/ OtherAppCopies)]_vars

\* The buffer's value is the one the monitor watches.
Watched == expected \in ReadTokens /\ expected.content = buffer

\* A watched value that another application has replaced leaves the buffer.
WatchedChangeNoticed ==
  DeskQuiet => <>[](buffer # NoSecret /\ Watched => platform[adapter] = buffer)

\* What README.md:115 says of the timer: where every setting has a timeout, no copied
\* value stays on the system clipboard, unless an adapter call on it failed.
CopyTimesOut ==
  DeskQuiet => <>[](platform["system"] \in Secrets => "system" \in stuck)
===============================================================================
