------------------------------- MODULE AuditQueue -------------------------------
(***************************************************************************)
(* The threads around the audit log: producers that hand events to         *)
(* log_event_async (the Tk thread, the clipboard's timers and its monitor),*)
(* the worker that writes them, and the Tk thread that flushes the queue   *)
(* and closes the logger.  What a write does is module AuditLog; here it   *)
(* succeeds or raises.                                                     *)
(*                                                                         *)
(* queue.Queue counts unfinished tasks: put adds one, task_done removes    *)
(* one, join waits for zero.                                               *)
(***************************************************************************)
EXTENDS Naturals, Sequences, Functions

CONSTANTS
  Producers,  \* threads that publish events
  Events,     \* the events they publish, each once
  NoEvent,    \* nothing in hand
  Stop        \* _QUEUE_STOP

ASSUME QueueAssumption ==
  /\ NoEvent \notin Events
  /\ Stop \notin Events \cup {NoEvent}
  /\ Events \cap {"waiting", "stopped"} = {}

VARIABLES
  queue,       \* self._queue
  unfinished,  \* its count of unfinished tasks
  hand,        \* the event a producer has found the logger open for, not yet put
  worker,      \* "waiting", "stopped" or the event it is writing
  closed,      \* self._closed
  error,       \* self._worker_error is set
  closer,      \* where the Tk thread is in close()
  sent,        \* history: the events, in the order they were put
  written,     \* history: the events in the log, in its order
  dropped,     \* history: the events whose write raised
  reported     \* history: the dropped events an error was raised for

queueVars == <<queue, unfinished>>
histVars  == <<sent, written, dropped, reported>>
vars == <<queueVars, hand, worker, closed, error, closer, histVars>>

TypeOK ==
  /\ queue \in Seq(Events \cup {Stop})
  /\ unfinished \in Nat
  /\ hand \in [Producers -> Events \cup {NoEvent}]
  /\ worker \in Events \cup {"waiting", "stopped"}
  /\ closed \in BOOLEAN
  /\ error \in BOOLEAN
  /\ closer \in {"open", "flushed", "marked", "joining", "joined", "done", "abandoned"}
  /\ sent \in Seq(Events)
  /\ written \in Seq(Events)
  /\ dropped \subseteq Events
  /\ reported \subseteq Events

Init ==
  /\ queue = <<>> /\ unfinished = 0
  /\ hand = [p \in Producers |-> NoEvent]
  /\ worker = "waiting"
  /\ closed = FALSE /\ error = FALSE
  /\ closer = "open"
  /\ sent = <<>> /\ written = <<>> /\ dropped = {} /\ reported = {}

--------------------------------------------------------------------------------

\* log_event_async: the logger is open ...
FindOpen(p, e) ==
  /\ hand[p] = NoEvent
  /\ e \notin Range(sent) /\ \A q \in Producers : hand[q] # e
  /\ ~closed
  /\ hand' = [hand EXCEPT ![p] = e]
  /\ UNCHANGED <<queueVars, worker, closed, error, closer, histVars>>

\* ... and, possibly much later, the event is put.
Put(p) ==
  /\ hand[p] # NoEvent
  /\ queue' = Append(queue, hand[p])
  /\ unfinished' = unfinished + 1
  /\ sent' = Append(sent, hand[p])
  /\ hand' = [hand EXCEPT ![p] = NoEvent]
  /\ UNCHANGED <<worker, closed, error, closer, written, dropped, reported>>

\* _worker_loop: the next event is taken.
Take ==
  /\ worker = "waiting"
  /\ queue # <<>>
  /\ Head(queue) # Stop
  /\ worker' = Head(queue)
  /\ queue' = Tail(queue)
  /\ UNCHANGED <<unfinished, hand, closed, error, closer, histVars>>

\* A slip: the worker leaves its loop without task_done.
TakeStopOnly ==
  /\ worker = "waiting"
  /\ queue # <<>>
  /\ Head(queue) = Stop
  /\ worker' = "stopped"
  /\ queue' = Tail(queue)
  /\ UNCHANGED <<unfinished, hand, closed, error, closer, histVars>>

\* The marker ends the worker; its task is done as well.
TakeStop ==
  /\ worker = "waiting"
  /\ queue # <<>>
  /\ Head(queue) = Stop
  /\ worker' = "stopped"
  /\ queue' = Tail(queue)
  /\ unfinished' = unfinished - 1
  /\ UNCHANGED <<hand, closed, error, closer, histVars>>

Written ==
  /\ worker \in Events
  /\ ~closed
  /\ written' = Append(written, worker)
  /\ worker' = "waiting"
  /\ unfinished' = unfinished - 1
  /\ UNCHANGED <<queue, hand, closed, error, closer, sent, dropped, reported>>

\* A slip: the exception is swallowed.
DroppedSilently ==
  /\ worker \in Events
  /\ dropped' = dropped \cup {worker}
  /\ worker' = "waiting"
  /\ unfinished' = unfinished - 1
  /\ UNCHANGED <<queue, hand, closed, error, closer, sent, written, reported>>

\* log_event raises, because the write failed or the logger was closed meanwhile; the
\* exception replaces one that is still waiting to be reported.
Dropped ==
  /\ worker \in Events
  /\ error' = TRUE
  /\ dropped' = dropped \cup {worker}
  /\ worker' = "waiting"
  /\ unfinished' = unfinished - 1
  /\ UNCHANGED <<queue, hand, closed, closer, sent, written, reported>>

--------------------------------------------------------------------------------
(* The Tk thread. *)

\* A slip: an empty queue is taken for finished work.
QueueEmpty == queue = <<>>

\* flush: join returns, and a pending error is raised and forgotten.
Joined == unfinished = 0
Report == error' = FALSE /\ reported' = IF error THEN dropped ELSE reported

\* The flush of a verification, a query or an export.
Flush ==
  /\ closer = "open"
  /\ Joined
  /\ Report
  /\ UNCHANGED <<queueVars, hand, worker, closed, closer, sent, written, dropped>>

\* close() begins with a flush; if that raises, the GUI drops the logger as it is.
CloseFlush ==
  /\ closer = "open"
  /\ Joined
  /\ Report
  /\ closer' = IF error THEN "abandoned" ELSE "flushed"
  /\ UNCHANGED <<queueVars, hand, worker, closed, sent, written, dropped>>

CloseMark ==
  /\ closer = "flushed"
  /\ closed' = TRUE
  /\ closer' = "marked"
  /\ UNCHANGED <<queueVars, hand, worker, error, histVars>>

CloseStop ==
  /\ closer = "marked"
  /\ queue' = Append(queue, Stop)
  /\ unfinished' = unfinished + 1
  /\ closer' = "joining"
  /\ UNCHANGED <<hand, worker, closed, error, histVars>>

CloseJoin ==
  /\ closer = "joining"
  /\ Joined
  /\ closer' = "joined"
  /\ UNCHANGED <<queueVars, hand, worker, closed, error, histVars>>

\* The worker has ended, or two seconds have passed.
CloseEnd ==
  /\ closer = "joined"
  /\ closer' = "done"
  /\ UNCHANGED <<queueVars, hand, worker, closed, error, histVars>>

--------------------------------------------------------------------------------

ProducerStep(p) == (\E e \in Events : FindOpen(p, e)) \/ Put(p)
WorkerStep      == Take \/ TakeStop \/ Written \/ Dropped
CloseStep       == CloseFlush \/ CloseMark \/ CloseStop \/ CloseJoin \/ CloseEnd

Next == (\E p \in Producers : ProducerStep(p)) \/ WorkerStep \/ Flush \/ CloseStep

Spec == Init /\ [][Next]_vars

(***************************************************************************)
(* The threads run: a put that was begun ends, the worker works, and a     *)
(* close that was begun goes on.  Nobody has to publish or to close.       *)
(***************************************************************************)
Fairness ==
  /\ \A p \in Producers : WF_vars(Put(p))
  /\ WF_vars(WorkerStep)
  /\ WF_vars(CloseMark \/ CloseStop \/ CloseJoin \/ CloseEnd)

FairSpec == Spec /\ Fairness

--------------------------------------------------------------------------------
(* Properties. *)

\* While the logger is in use, an accepted event is on its way, in the log, or its loss
\* has been reported or is about to be: with one error slot for any number of losses.
NoSilentLoss ==
  closer = "open" =>
    \A i \in DOMAIN sent :
      \/ sent[i] \in Range(queue) \cup {worker} \cup Range(written)
      \/ sent[i] \in dropped /\ (error \/ sent[i] \in reported)

\* Closing the logger loses nothing that was accepted before its flush ended: what is
\* missing from the log afterwards was put later than that, or was reported.
ClosedComplete ==
  [][closer = "open" /\ closer' = "flushed" =>
       \A i \in DOMAIN sent : sent[i] \in Range(written) \cup reported]_vars

\* close() returns if no event arrives behind the stop marker.
CloseEndsIfQuiet ==
  (closer = "joining" /\ (\A p \in Producers : hand[p] = NoEvent)
     /\ (queue # <<>> => queue[Len(queue)] = Stop) /\ (queue = <<>> => unfinished = 0))
    ~> closer = "done"

=================================================================================
