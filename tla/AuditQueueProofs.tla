---------------------------- MODULE AuditQueueProofs ----------------------------
(***************************************************************************)
(* Theorems about AuditQueue: for any producers and any number of events.  *)
(***************************************************************************)
EXTENDS AuditQueue, TLAPS

\* join waits for exactly what is in the queue and in the worker's hands.
Counted == unfinished = Len(queue) + IF worker \in Events THEN 1 ELSE 0

\* An event that was put is on its way, written, or lost with an error that is pending or
\* was raised: whatever has become of the logger.
Accounted ==
  \A e \in Range(sent) :
    \/ e \in Range(queue) \cup {worker} \cup Range(written)
    \/ e \in dropped /\ (error \/ e \in reported)

IInv == TypeOK /\ Counted /\ Accounted

--------------------------------------------------------------------------------
\* Sequences.

LEMMA AppendRange ==
  ASSUME NEW S, NEW s \in Seq(S), NEW e \in S
  PROVE  Append(s, e) \in Seq(S) /\ Len(Append(s, e)) = Len(s) + 1
         /\ Range(Append(s, e)) = Range(s) \cup {e}
<1>1. /\ Append(s, e) \in Seq(S) /\ Len(s) \in Nat /\ Len(Append(s, e)) = Len(s) + 1
      /\ DOMAIN s = 1..Len(s) /\ DOMAIN Append(s, e) = 1..(Len(s) + 1)
      /\ \A n \in 1..Len(s) : Append(s, e)[n] = s[n]
      /\ Append(s, e)[Len(s) + 1] = e
  OBVIOUS
<1>2. ASSUME NEW n \in DOMAIN Append(s, e)
      PROVE  Append(s, e)[n] \in Range(s) \cup {e}
  BY <1>1 DEF Range
<1>3. ASSUME NEW n \in DOMAIN s
      PROVE  s[n] \in Range(Append(s, e))
  <2>1. n \in DOMAIN Append(s, e) /\ Append(s, e)[n] = s[n]
    BY <1>1
  <2>2. QED
    BY <2>1 DEF Range
<1>4. e \in Range(Append(s, e))
  <2>1. Len(s) + 1 \in DOMAIN Append(s, e)
    BY <1>1
  <2>2. QED
    BY <1>1, <2>1 DEF Range
<1>5. QED
  BY <1>1, <1>2, <1>3, <1>4 DEF Range

LEMMA TailRange ==
  ASSUME NEW S, NEW s \in Seq(S), s # <<>>
  PROVE  /\ Head(s) \in S /\ Tail(s) \in Seq(S) /\ Len(s) = Len(Tail(s)) + 1
         /\ Len(Tail(s)) \in Nat
         /\ Range(s) \subseteq Range(Tail(s)) \cup {Head(s)}
<1>1. /\ Head(s) \in S /\ Tail(s) \in Seq(S) /\ Head(s) = s[1] /\ Len(s) \in Nat \ {0}
      /\ Len(Tail(s)) = Len(s) - 1
  OBVIOUS
<1>2. DOMAIN s = 1..Len(s) /\ DOMAIN Tail(s) = 1..(Len(s) - 1)
  BY <1>1
<1>3. \A n \in 1..(Len(s) - 1) : Tail(s)[n] = s[n + 1]
  BY <1>1
<1>4. ASSUME NEW n \in DOMAIN s
      PROVE  s[n] \in Range(Tail(s)) \cup {Head(s)}
  <2>1. CASE n = 1
    BY <2>1, <1>1
  <2>2. CASE n # 1
    <3>1. n - 1 \in DOMAIN Tail(s) /\ Tail(s)[n - 1] = s[n]
      BY <2>2, <1>1, <1>2, <1>3
    <3>2. QED
      BY <3>1 DEF Range
  <2>3. QED
    BY <2>1, <2>2
<1>5. QED
  BY <1>1, <1>4 DEF Range

--------------------------------------------------------------------------------

LEMMA QueueStart ==
  ASSUME Init
  PROVE  IInv
<1> USE DEF Init
<1>1. <<>> \in Seq(Events) /\ <<>> \in Seq(Events \cup {Stop}) /\ Len(<<>>) = 0
  OBVIOUS
<1>2. TypeOK
  BY <1>1 DEF TypeOK
<1>3. Counted
  BY <1>1, QueueAssumption DEF Counted
<1>4. Accounted
  BY DEF Accounted, Range
<1>5. QED
  BY <1>2, <1>3, <1>4 DEF IInv

\* An event is put, wherever the worker and the Tk thread are.
LEMMA ProducerInv ==
  ASSUME IInv, NEW p \in Producers, ProducerStep(p)
  PROVE  IInv'
<1> USE DEF queueVars, histVars
<1>1. ASSUME NEW e \in Events, FindOpen(p, e)
      PROVE  IInv'
  BY <1>1 DEF FindOpen, IInv, TypeOK, Counted, Accounted
<1>2. CASE Put(p)
  <2>1. hand[p] \in Events /\ queue \in Seq(Events \cup {Stop}) /\ sent \in Seq(Events)
        /\ unfinished \in Nat
    BY <1>2 DEF Put, IInv, TypeOK
  <2>2. /\ queue' \in Seq(Events \cup {Stop}) /\ Len(queue') = Len(queue) + 1
        /\ Range(queue') = Range(queue) \cup {hand[p]}
    <3> DEFINE S == Events \cup {Stop}
    <3>1. queue \in Seq(S) /\ hand[p] \in S /\ queue' = Append(queue, hand[p])
      BY <1>2, <2>1 DEF Put
    <3> HIDE DEF S
    <3>2. /\ Append(queue, hand[p]) \in Seq(S) /\ Len(Append(queue, hand[p])) = Len(queue) + 1
          /\ Range(Append(queue, hand[p])) = Range(queue) \cup {hand[p]}
      BY <3>1, AppendRange
    <3>3. QED
      BY <3>1, <3>2 DEF S
  <2>3. sent' \in Seq(Events) /\ Range(sent') = Range(sent) \cup {hand[p]}
    BY <1>2, <2>1, AppendRange DEF Put
  <2>4. TypeOK'
    BY <1>2, <2>1, <2>2, <2>3 DEF Put, IInv, TypeOK
  <2>5. Counted'
    <3>1. Len(queue) \in Nat
      BY <2>1
    <3>2. QED
      BY <1>2, <2>1, <2>2, <3>1 DEF Put, IInv, Counted
  <2>6. Accounted'
    BY <1>2, <2>2, <2>3 DEF Put, IInv, Accounted
  <2>7. QED
    BY <2>4, <2>5, <2>6 DEF IInv
<1>3. QED
  BY <1>1, <1>2 DEF ProducerStep

\* The worker takes an event, or the marker that ends it.
LEMMA TakeInv ==
  ASSUME IInv, Take \/ TakeStop
  PROVE  IInv'
<1> USE DEF Take, TakeStop, queueVars, histVars
<1>1. /\ worker = "waiting" /\ queue # <<>> /\ queue \in Seq(Events \cup {Stop})
      /\ worker \notin Events /\ unfinished \in Nat
  BY QueueAssumption DEF IInv, TypeOK
<1>2. /\ Head(queue) \in Events \cup {Stop} /\ queue' \in Seq(Events \cup {Stop})
      /\ Len(queue) = Len(queue') + 1 /\ Len(queue') \in Nat
      /\ Range(queue) \subseteq Range(queue') \cup {Head(queue)}
  <2> DEFINE S == Events \cup {Stop}
  <2>1. queue \in Seq(S) /\ queue # <<>> /\ queue' = Tail(queue)
    BY <1>1
  <2> HIDE DEF S
  <2>2. /\ Head(queue) \in S /\ Tail(queue) \in Seq(S) /\ Len(queue) = Len(Tail(queue)) + 1
        /\ Len(Tail(queue)) \in Nat
        /\ Range(queue) \subseteq Range(Tail(queue)) \cup {Head(queue)}
    BY <2>1, TailRange
  <2>3. QED
    BY <2>1, <2>2 DEF S
<1>3. unfinished = Len(queue)
  BY <1>1, <1>2 DEF IInv, Counted
<1>4. CASE Take
  <2>1. worker' \in Events /\ worker' = Head(queue)
    BY <1>2, <1>4
  <2>2. TypeOK' /\ Counted'
    BY <1>1, <1>2, <1>3, <1>4, <2>1 DEF IInv, TypeOK, Counted
  <2>3. \A e \in Events : e # worker
    BY <1>1
  <2>4. Range(sent) \subseteq Events
    BY DEF IInv, TypeOK, Range
  <2>5. Accounted'
    BY <1>2, <1>4, <2>1, <2>3, <2>4 DEF IInv, Accounted
  <2>6. QED
    BY <2>2, <2>5 DEF IInv
<1>5. CASE TakeStop
  <2>1. worker' = "stopped" /\ worker' \notin Events /\ Head(queue) = Stop
    BY <1>5, QueueAssumption
  <2>2. TypeOK' /\ Counted'
    BY <1>1, <1>2, <1>3, <1>5, <2>1 DEF IInv, TypeOK, Counted
  <2>3. \A e \in Events : e # worker /\ e # Stop
    BY <1>1, QueueAssumption
  <2>4. Range(sent) \subseteq Events
    BY DEF IInv, TypeOK, Range
  <2>5. Accounted'
    BY <1>2, <1>5, <2>1, <2>3, <2>4 DEF IInv, Accounted
  <2>6. QED
    BY <2>2, <2>5 DEF IInv
<1>6. QED
  BY <1>4, <1>5

\* The write of the event in hand succeeds or raises.
LEMMA WriteInv ==
  ASSUME IInv, Written \/ Dropped
  PROVE  IInv'
<1> USE DEF Written, Dropped, queueVars, histVars
<1>1. /\ worker \in Events /\ worker' = "waiting" /\ worker' \notin Events
      /\ unfinished' = unfinished - 1 /\ queue' = queue
  BY QueueAssumption
<1>2. /\ written \in Seq(Events) /\ queue \in Seq(Events \cup {Stop})
      /\ Len(queue) \in Nat
  BY DEF IInv, TypeOK
<1>3. unfinished = Len(queue) + 1
  BY <1>1 DEF IInv, Counted
<1>4. Counted' /\ unfinished' \in Nat
  BY <1>1, <1>2, <1>3 DEF Counted
<1>5. CASE Written
  <2>1. written' \in Seq(Events) /\ Range(written') = Range(written) \cup {worker}
    BY <1>1, <1>2, <1>5, AppendRange
  <2>2. TypeOK'
    BY <1>1, <1>4, <1>5, <2>1 DEF IInv, TypeOK
  <2>3. Accounted'
    BY <1>1, <1>5, <2>1 DEF IInv, Accounted
  <2>4. QED
    BY <1>4, <2>2, <2>3 DEF IInv
<1>6. CASE Dropped
  <2>1. TypeOK'
    BY <1>1, <1>4, <1>6 DEF IInv, TypeOK
  <2>2. Accounted'
    BY <1>1, <1>6 DEF IInv, Accounted
  <2>3. QED
    BY <1>4, <2>1, <2>2 DEF IInv
<1>7. QED
  BY <1>5, <1>6

\* A flush raises the pending error for all losses so far.
LEMMA FlushInv ==
  ASSUME IInv, Flush \/ CloseFlush
  PROVE  IInv'
<1> USE DEF Flush, CloseFlush, Report, queueVars
<1>1. TypeOK'
  BY DEF IInv, TypeOK
<1>2. Counted'
  BY DEF IInv, Counted
<1>3. Accounted'
  BY DEF IInv, Accounted
<1>4. QED
  BY <1>1, <1>2, <1>3 DEF IInv

\* The rest of close: a marker is put, nothing else changes.
LEMMA CloseInv ==
  ASSUME IInv, CloseMark \/ CloseStop \/ CloseJoin \/ CloseEnd
  PROVE  IInv'
<1> USE DEF CloseMark, CloseStop, CloseJoin, CloseEnd, queueVars, histVars
<1>1. CASE CloseStop
  <2>1. queue \in Seq(Events \cup {Stop}) /\ unfinished \in Nat /\ Len(queue) \in Nat
    BY DEF IInv, TypeOK
  <2>2. /\ queue' \in Seq(Events \cup {Stop}) /\ Len(queue') = Len(queue) + 1
        /\ Range(queue') = Range(queue) \cup {Stop}
    BY <1>1, <2>1, AppendRange
  <2>3. TypeOK'
    BY <1>1, <2>1, <2>2 DEF IInv, TypeOK
  <2>4. Counted'
    BY <1>1, <2>1, <2>2 DEF IInv, Counted
  <2>5. Accounted'
    BY <1>1, <2>2 DEF IInv, Accounted
  <2>6. QED
    BY <2>3, <2>4, <2>5 DEF IInv
<1>2. CASE CloseMark \/ CloseJoin \/ CloseEnd
  <2>1. TypeOK'
    BY <1>2 DEF IInv, TypeOK
  <2>2. Counted' /\ Accounted'
    BY <1>2 DEF IInv, Counted, Accounted
  <2>3. QED
    BY <2>1, <2>2 DEF IInv
<1>3. QED
  BY <1>1, <1>2

LEMMA NextInv ==
  ASSUME IInv, [Next]_vars
  PROVE  IInv'
<1>1. CASE \E p \in Producers : ProducerStep(p)
  BY <1>1, ProducerInv
<1>2. CASE WorkerStep
  BY <1>2, TakeInv, WriteInv DEF WorkerStep
<1>3. CASE Flush \/ CloseStep
  BY <1>3, FlushInv, CloseInv DEF CloseStep
<1>4. CASE UNCHANGED vars
  <2>1. TypeOK'
    BY <1>4 DEF vars, queueVars, histVars, IInv, TypeOK
  <2>2. Counted' /\ Accounted'
    BY <1>4 DEF vars, queueVars, histVars, IInv, Counted, Accounted
  <2>3. QED
    BY <2>1, <2>2 DEF IInv
<1>5. QED
  BY <1>1, <1>2, <1>3, <1>4 DEF Next

LEMMA Invariant == Spec => []IInv
  BY QueueStart, NextInv, PTL DEF Spec

\* Every variable keeps its type: in particular the count of unfinished tasks is never
\* negative, so task_done never raises.
THEOREM TypeCorrect == Spec => []TypeOK
<1>1. IInv => TypeOK
  BY DEF IInv
<1>2. QED
  BY <1>1, Invariant, PTL

\* An event that was accepted is on its way, in the log, or its loss is reported, with one
\* error slot for any number of losses: for any producers and events.
THEOREM NothingLostSilently == Spec => []NoSilentLoss
<1>1. ASSUME IInv
      PROVE  NoSilentLoss
  BY <1>1 DEF IInv, Accounted, NoSilentLoss, Range
<1>2. QED
  BY <1>1, Invariant, PTL

\* When the flush of close has returned, everything accepted so far is in the log or was
\* reported: for any producers and events.
THEOREM CloseIsComplete == Spec => ClosedComplete
<1>1. ASSUME IInv, [Next]_vars, closer = "open", closer' = "flushed"
      PROVE  \A i \in DOMAIN sent : sent[i] \in Range(written) \cup reported
  <2>1. CloseFlush
    BY <1>1 DEF Next, ProducerStep, FindOpen, Put, WorkerStep, Take, TakeStop, Written, Dropped,
       Flush, CloseStep, CloseMark, CloseStop, CloseJoin, CloseEnd, vars, queueVars, histVars
  <2>2. unfinished = 0 /\ ~error
    BY <1>1, <2>1 DEF CloseFlush, Joined
  <2>3. queue \in Seq(Events \cup {Stop}) /\ Len(queue) \in Nat
    BY <1>1 DEF IInv, TypeOK
  <2>4. Len(queue) = 0 /\ worker \notin Events
    BY <1>1, <2>2, <2>3 DEF IInv, Counted
  <2>5. Range(queue) = {}
    BY <2>3, <2>4 DEF Range
  <2>6. \A i \in DOMAIN sent : sent[i] \in Events /\ sent[i] \in Range(sent)
    BY <1>1 DEF IInv, TypeOK, Range
  <2>7. QED
    BY <1>1, <2>2, <2>4, <2>5, <2>6 DEF IInv, Accounted
<1>2. QED
  BY <1>1, Invariant, PTL DEF Spec, ClosedComplete
===============================================================================
