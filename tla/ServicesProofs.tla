----------------------------- MODULE ServicesProofs -----------------------------
(***************************************************************************)
(* Proofs about the services beside the vault: wiped memory, the activity  *)
(* monitor, the archives of the audit log, its viewer, the password        *)
(* generator and the search, each for every value of its constants.        *)
(***************************************************************************)
EXTENDS MemoryGuard, ActivityMonitor, AuditArchive, AuditViewer, PasswordGenerator, SearchTable, Integers,
        FiniteSetTheorems, SequenceTheorems, WellFoundedInduction, TLAPS
--------------------------------------------------------------------------------
\* MemoryGuard

Contents == {"unmapped", "secret", "noise", "zero"}
Tasks == [does : {"nothing", "track", "close", "wipe", "closing"}, block : Blocks \cup {Free},
          todo : SUBSET Blocks, wiped : SUBSET Blocks]

GuardTypes ==
  /\ content \in [Blocks -> Contents] /\ canaries \subseteq Blocks
  /\ released \subseteq Blocks /\ closed \subseteq Blocks
  /\ holder \in [Blocks -> Threads \cup {Free}]
  /\ tracked \subseteq Blocks /\ escaped \subseteq Blocks /\ promised \subseteq Blocks
  /\ task \in [Threads -> Tasks]
  /\ seen \subseteq {"secret"}

\* Released memory is zero and no other is; a secret that counts as closed is released; and
\* noise is left only while somebody is in the lock of the secret.
Zeroed ==
  /\ \A b \in Blocks : b \in released <=> content[b] = "zero"
  /\ closed \subseteq released
  /\ \A b \in Blocks : content[b] = "noise" => holder[b] # Free

\* Who closes a secret is in its lock, and who tracks one has written it.
Entered == \A t \in Threads :
  /\ task[t].does \in {"track", "close", "closing"} => task[t].block \in Blocks
  /\ task[t].does = "track" => content[task[t].block] # "unmapped"
  /\ task[t].does \in {"close", "closing"} => holder[task[t].block] = t

\* What a wipe_all has gone past is zero; what it or the set knows was written.
WipedBehind == \A t \in Threads : task[t].does \in {"wipe", "closing"} =>
  \A b \in task[t].wiped \ task[t].todo :
    content[b] = "zero" \/ (task[t].does = "closing" /\ task[t].block = b)
Written ==
  /\ \A b \in tracked \cup escaped \cup promised : content[b] # "unmapped"
  /\ \A t \in Threads : task[t].todo \subseteq task[t].wiped /\ \A b \in task[t].wiped : content[b] # "unmapped"

NoneLost == \A b \in Blocks :
  content[b] = "secret" => b \in tracked \cup escaped \/ \E t \in Threads : Does(t, "track") /\ task[t].block = b
Promised == \A b \in promised : content[b] = "zero"

GuardInv == GuardTypes /\ Zeroed /\ Entered /\ WipedBehind /\ Written /\ NoneLost /\ Promised

LEMMA GuardInitial == GuardInit => GuardInv
  BY GuardAssumption DEF GuardInit, GuardInv, GuardTypes, Zeroed, Entered, WipedBehind, Written, NoneLost,
    Promised, Contents, Tasks, Idle

LEMMA ProtectInv == ASSUME GuardInv, NEW t \in Threads, NEW b \in Blocks, Protect(t, b) PROVE GuardInv'
<1> DEFINE next == [Idle EXCEPT !.does = "track", !.block = b]
<1>1. next \in Tasks /\ next.does = "track" /\ next.block = b /\ next.todo = {} /\ next.wiped = {}
  BY DEF Idle, Tasks
<1> HIDE DEF next
<1>2. /\ task' = [task EXCEPT ![t] = next] /\ content' = [content EXCEPT ![b] = "secret"]
      /\ content[b] = "unmapped" /\ task[t].does = "nothing"
      /\ UNCHANGED <<canaries, released, closed, holder, tracked, seen, escaped, promised>>
  BY DEF Protect, Does, next
<1>4. GuardTypes'
  BY <1>1, <1>2 DEF GuardInv, GuardTypes, Contents
<1>5. Zeroed'
  BY <1>2 DEF GuardInv, GuardTypes, Zeroed
<1>6. Entered'
  BY <1>1, <1>2 DEF GuardInv, GuardTypes, Entered
<1>7. WipedBehind'
  BY <1>1, <1>2 DEF GuardInv, GuardTypes, WipedBehind, Written, Tasks
<1>8. Written'
  BY <1>1, <1>2 DEF GuardInv, GuardTypes, Written
<1>9. NoneLost'
  BY <1>1, <1>2 DEF GuardInv, GuardTypes, NoneLost, Does
<1>10. Promised'
  BY <1>2 DEF GuardInv, GuardTypes, Promised
<1> QED BY <1>4, <1>5, <1>6, <1>7, <1>8, <1>9, <1>10 DEF GuardInv

LEMMA TrackInv == ASSUME GuardInv, NEW t \in Threads, Track(t) PROVE GuardInv'
<1>1. /\ task' = [task EXCEPT ![t] = Idle] /\ task[t].does = "track" /\ tracked' = tracked \cup {task[t].block}
      /\ UNCHANGED <<content, canaries, released, closed, holder, seen, escaped, promised>>
  BY DEF Track, Does
<1>2. Idle \in Tasks /\ Idle.does = "nothing" /\ Idle.wiped = {} /\ Idle.todo = {}
  BY DEF Idle, Tasks
<1>3. task[t].block \in Blocks /\ content[task[t].block] # "unmapped"
  BY <1>1 DEF GuardInv, Entered
<1>4. GuardTypes'
  BY <1>1, <1>2, <1>3 DEF GuardInv, GuardTypes
<1>5. Zeroed' /\ Promised'
  BY <1>1 DEF GuardInv, Zeroed, Promised
<1>6. Entered' /\ WipedBehind'
  BY <1>1, <1>2 DEF GuardInv, GuardTypes, Entered, WipedBehind
<1>7. Written'
  <2>1. ASSUME NEW u \in Threads
        PROVE  /\ task'[u].todo \subseteq task'[u].wiped
               /\ \A c \in task'[u].wiped : content[c] # "unmapped"
    BY <1>1, <1>2 DEF GuardInv, GuardTypes, Written
  <2> QED BY <1>1, <1>3, <2>1 DEF GuardInv, Written
<1>8. NoneLost'
  BY <1>1, <1>2 DEF GuardInv, GuardTypes, NoneLost, Does
<1> QED BY <1>4, <1>5, <1>6, <1>7, <1>8 DEF GuardInv

\* A reader outside the lock of an open, intact secret finds the secret.
LEMMA ReadInv == ASSUME GuardInv, NEW t \in Threads, NEW b \in Blocks, Read(t, b) PROVE GuardInv'
<1>1. /\ UNCHANGED <<content, canaries, released, closed, holder, tracked, task, escaped, promised>>
      /\ holder[b] = Free /\ b \in promised \cup tracked \cup escaped
      /\ seen' = seen \/ (b \notin closed \cup released /\ seen' = seen \cup {content[b]})
  BY DEF Read
<1>2. b \notin closed \cup released => content[b] = "secret"
  BY <1>1 DEF GuardInv, GuardTypes, Zeroed, Written, Contents
<1>3. GuardTypes'
  BY <1>1, <1>2 DEF GuardInv, GuardTypes
<1>4. Zeroed' /\ Entered' /\ WipedBehind' /\ Written' /\ NoneLost' /\ Promised'
  BY <1>1 DEF GuardInv, Zeroed, Entered, WipedBehind, Written, NoneLost, Promised, Does
<1> QED BY <1>3, <1>4 DEF GuardInv

\* The first part of a close, on its own or in a wipe_all; after is what the thread does next.
LEMMA BeginInv ==
  ASSUME GuardInv, NEW t \in Threads, NEW b \in Blocks, content[b] # "unmapped",
         NEW after \in Tasks, BeginClose(t, b, after),
         task[t].does \in {"nothing", "wipe"}, after.does \in {"close", "closing"}, after.block = b,
         after.does = "closing" => task[t].does = "wipe" /\ task[t].todo \ {b} = after.todo,
         task[t].does = "wipe" => task[t].wiped = after.wiped,
         after.does = "close" => after.wiped = {}, after.todo \subseteq after.wiped
  PROVE  GuardInv'
<1>1. /\ holder[b] = Free /\ holder' = [holder EXCEPT ![b] = t] /\ task' = [task EXCEPT ![t] = after]
      /\ content' = [content EXCEPT ![b] = Wipe(b)]
      /\ UNCHANGED <<canaries, released, closed, tracked, seen, escaped, promised>>
  BY DEF BeginClose, Enter
<1>2. /\ Wipe(b) \in Contents \ {"unmapped"}
      /\ content[b] = "zero" => Wipe(b) = "zero"
      /\ content[b] # "zero" => Wipe(b) # "zero"
      /\ Wipe(b) = "secret" => content[b] = "secret"
  BY DEF GuardInv, GuardTypes, Zeroed, Wipe, Mapped, Contents
<1>3. GuardTypes'
  BY <1>1, <1>2 DEF GuardInv, GuardTypes
<1>4. Zeroed'
  BY <1>1, <1>2, GuardAssumption DEF GuardInv, GuardTypes, Zeroed
<1>5. Entered'
  <2> SUFFICES ASSUME NEW u \in Threads
               PROVE  /\ (task[u].does \in {"track", "close", "closing"} => task[u].block \in Blocks)'
                      /\ (task[u].does = "track" => content[task[u].block] # "unmapped")'
                      /\ (task[u].does \in {"close", "closing"} => holder[task[u].block] = u)'
    BY DEF Entered
  <2>1. CASE u = t
    BY <2>1, <1>1 DEF GuardInv, GuardTypes
  <2>2. CASE u # t
    <3>1. task'[u] = task[u]
      BY <2>2, <1>1 DEF GuardInv, GuardTypes
    <3>2. \A c \in Blocks : content[c] # "unmapped" => content'[c] # "unmapped"
      BY <1>1, <1>2 DEF GuardInv, GuardTypes
    <3>3. task[u].does \in {"close", "closing"} => task[u].block # b
      BY <1>1, GuardAssumption DEF GuardInv, Entered
    <3> QED BY <1>1, <3>1, <3>2, <3>3 DEF GuardInv, GuardTypes, Entered
  <2> QED BY <2>1, <2>2
<1>6. \A c \in Blocks : (content[c] = "zero" => content'[c] = "zero") /\ (content[c] # "unmapped" => content'[c] # "unmapped")
  BY <1>1, <1>2 DEF GuardInv, GuardTypes
<1>7. WipedBehind'
  <2> SUFFICES ASSUME NEW u \in Threads, task'[u].does \in {"wipe", "closing"},
                      NEW c \in task'[u].wiped \ task'[u].todo
               PROVE  content'[c] = "zero" \/ (task'[u].does = "closing" /\ task'[u].block = c)
    BY DEF WipedBehind
  <2>1. CASE u = t
    <3>1. task'[u] = after /\ after.does = "closing"
      BY <2>1, <1>1 DEF GuardInv, GuardTypes
    <3>2. c = b \/ c \in task[t].wiped \ task[t].todo
      BY <3>1
    <3>3. c \in Blocks
      BY <3>1 DEF Tasks
    <3> QED BY <3>1, <3>2, <3>3, <1>6 DEF GuardInv, WipedBehind
  <2>2. CASE u # t
    <3>1. task'[u] = task[u] /\ task[u] \in Tasks
      BY <2>2, <1>1 DEF GuardInv, GuardTypes
    <3>2. c \in Blocks
      BY <3>1 DEF Tasks
    <3> QED BY <3>1, <3>2, <1>6 DEF GuardInv, WipedBehind
  <2> QED BY <2>1, <2>2
<1>8. Written'
  <2>1. \A c \in tracked \cup escaped \cup promised : content'[c] # "unmapped"
    BY <1>6 DEF GuardInv, GuardTypes, Written
  <2>2. ASSUME NEW u \in Threads, NEW c \in task'[u].wiped PROVE content'[c] # "unmapped"
    <3>1. c \in task[u].wiped /\ task[u] \in Tasks
      BY <1>1 DEF GuardInv, GuardTypes
    <3> QED BY <3>1, <1>6 DEF GuardInv, Written, Tasks
  <2>3. ASSUME NEW u \in Threads PROVE task'[u].todo \subseteq task'[u].wiped
    BY <1>1 DEF GuardInv, GuardTypes, Written
  <2> QED BY <2>1, <2>2, <2>3, <1>1 DEF Written
<1>9. NoneLost'
  BY <1>1, <1>2 DEF GuardInv, GuardTypes, NoneLost, Does
<1>10. Promised'
  BY <1>1, <1>6 DEF GuardInv, GuardTypes, Promised
<1> QED BY <1>3, <1>4, <1>5, <1>7, <1>8, <1>9, <1>10 DEF GuardInv

LEMMA CloseInv == ASSUME GuardInv, NEW t \in Threads, NEW b \in Blocks, Close(t, b) PROVE GuardInv'
<1> DEFINE after == [Idle EXCEPT !.does = "close", !.block = b]
<1>1. after \in Tasks /\ after.does = "close" /\ after.block = b /\ after.todo = {} /\ after.wiped = {}
  BY DEF Idle, Tasks
<1>2. BeginClose(t, b, after) /\ task[t].does = "nothing" /\ b \in promised \cup tracked \cup escaped
  BY DEF Close, Does
<1> HIDE DEF after
<1>3. content[b] # "unmapped"
  BY <1>2 DEF GuardInv, Written
<1> QED BY <1>1, <1>2, <1>3, BeginInv

LEMMA WipeNextInv == ASSUME GuardInv, NEW t \in Threads, NEW b \in Blocks, WipeNext(t, b) PROVE GuardInv'
<1> DEFINE rest == [task[t] EXCEPT !.todo = @ \ {b}]
           after == [rest EXCEPT !.does = "closing", !.block = b]
<1>1. task[t] \in Tasks /\ task[t].does = "wipe" /\ b \in task[t].todo
  BY DEF GuardInv, GuardTypes, WipeNext, Does
<1>2. /\ rest \in Tasks /\ rest.does = "wipe" /\ rest.todo = task[t].todo \ {b} /\ rest.wiped = task[t].wiped
      /\ rest.block = task[t].block
  BY <1>1 DEF Tasks
<1>3. /\ after \in Tasks /\ after.does = "closing" /\ after.todo = task[t].todo \ {b}
      /\ after.wiped = task[t].wiped /\ after.block = b
  <2> HIDE DEF rest
  <2> QED BY <1>2 DEF Tasks
<1>4. \/ b \in closed /\ task' = [task EXCEPT ![t] = rest]
         /\ UNCHANGED <<content, canaries, released, closed, holder, tracked, seen, escaped, promised>>
      \/ BeginClose(t, b, after)
  BY DEF WipeNext
<1> HIDE DEF rest, after
<1>5. CASE BeginClose(t, b, after)
  <2>1. content[b] # "unmapped"
    BY <1>1 DEF GuardInv, Written
  <2>2. after.todo \subseteq after.wiped
    BY <1>3 DEF GuardInv, Written
  <2> QED BY <1>1, <1>3, <1>5, <2>1, <2>2, BeginInv
<1>6. CASE b \in closed /\ task' = [task EXCEPT ![t] = rest]
           /\ UNCHANGED <<content, canaries, released, closed, holder, tracked, seen, escaped, promised>>
  <2>1. content[b] = "zero"
    BY <1>6 DEF GuardInv, Zeroed
  <2>2. GuardTypes'
    BY <1>2, <1>6 DEF GuardInv, GuardTypes
  <2>3. Zeroed' /\ Promised'
    BY <1>6 DEF GuardInv, Zeroed, Promised
  <2>4. Entered'
    BY <1>1, <1>2, <1>6 DEF GuardInv, GuardTypes, Entered
  <2>5. WipedBehind'
    BY <1>1, <1>2, <1>6, <2>1 DEF GuardInv, GuardTypes, WipedBehind
  <2>6. Written'
    BY <1>2, <1>6 DEF GuardInv, GuardTypes, Written
  <2>7. NoneLost'
    BY <1>1, <1>2, <1>6 DEF GuardInv, GuardTypes, NoneLost, Does
  <2> QED BY <2>2, <2>3, <2>4, <2>5, <2>6, <2>7 DEF GuardInv
<1> QED BY <1>4, <1>5, <1>6

\* The second part zeroes the block, damaged or not, and leaves the lock.
LEMMA FinishInv == ASSUME GuardInv, NEW t \in Threads, FinishClose(t) PROVE GuardInv'
<1> DEFINE b == task[t].block
           next == IF task[t].does = "close" THEN Idle ELSE [task[t] EXCEPT !.does = "wipe", !.block = Free]
<1>1. task[t] \in Tasks /\ task[t].does \in {"close", "closing"} /\ b \in Blocks /\ holder[b] = t
  BY DEF GuardInv, GuardTypes, Entered, FinishClose
<1>2. /\ next \in Tasks /\ next.does \in {"nothing", "wipe"} /\ next.todo \subseteq next.wiped
      /\ next.wiped \subseteq task[t].wiped
      /\ next.does = "wipe" => task[t].does = "closing" /\ next.todo = task[t].todo
  <2>1. task[t].todo \subseteq task[t].wiped
    BY DEF GuardInv, Written
  <2>2. CASE task[t].does = "close"
    BY <2>2 DEF Idle, Tasks
  <2>3. CASE task[t].does = "closing"
    BY <1>1, <2>1, <2>3 DEF Tasks
  <2> QED BY <1>1, <2>2, <2>3
<1>3. /\ content' = [content EXCEPT ![b] = "zero"] /\ released' = released \cup {b}
      /\ closed' \in {closed, closed \cup {b}} /\ holder' = [holder EXCEPT ![b] = Free]
      /\ task' = [task EXCEPT ![t] = next]
      /\ UNCHANGED <<canaries, tracked, seen, escaped, promised>>
  BY DEF FinishClose
<1> HIDE DEF b, next
<1>4. GuardTypes'
  BY <1>1, <1>2, <1>3 DEF GuardInv, GuardTypes, Contents
<1>5. Zeroed'
  BY <1>1, <1>3 DEF GuardInv, GuardTypes, Zeroed
<1>6. \A c \in Blocks : (content[c] = "zero" => content'[c] = "zero") /\ (content[c] # "unmapped" => content'[c] # "unmapped")
  BY <1>3 DEF GuardInv, GuardTypes
<1>7. \A u \in Threads \ {t} : task'[u] = task[u] /\ task[u] \in Tasks
  BY <1>3 DEF GuardInv, GuardTypes
<1>8. task'[t] = next
  BY <1>3 DEF GuardInv, GuardTypes
<1>9. Entered'
  <2> SUFFICES ASSUME NEW u \in Threads
               PROVE  /\ (task[u].does \in {"track", "close", "closing"} => task[u].block \in Blocks)'
                      /\ (task[u].does = "track" => content[task[u].block] # "unmapped")'
                      /\ (task[u].does \in {"close", "closing"} => holder[task[u].block] = u)'
    BY DEF Entered
  <2>1. CASE u = t
    BY <2>1, <1>2, <1>8
  <2>2. CASE u # t
    <3>1. task'[u] = task[u]
      BY <2>2, <1>7
    <3>2. task[u].does \in {"close", "closing"} => task[u].block # b
      BY <1>1, <2>2 DEF GuardInv, Entered
    <3> QED BY <1>3, <1>6, <3>1, <3>2 DEF GuardInv, GuardTypes, Entered
  <2> QED BY <2>1, <2>2
<1>10. WipedBehind'
  <2> SUFFICES ASSUME NEW u \in Threads, task'[u].does \in {"wipe", "closing"},
                      NEW c \in task'[u].wiped \ task'[u].todo
               PROVE  content'[c] = "zero" \/ (task'[u].does = "closing" /\ task'[u].block = c)
    BY DEF WipedBehind
  <2>1. CASE u = t
    <3>1. c \in task[t].wiped \ task[t].todo /\ task[t].does = "closing" /\ c \in Blocks
      BY <1>1, <1>2, <1>8, <2>1 DEF Tasks
    <3>2. content[c] = "zero" \/ c = b
      BY <3>1 DEF GuardInv, WipedBehind, b
    <3> QED BY <1>1, <1>3, <1>6, <3>1, <3>2 DEF GuardInv, GuardTypes
  <2>2. CASE u # t
    <3>1. task'[u] = task[u] /\ c \in Blocks
      BY <1>7, <2>2 DEF Tasks
    <3> QED BY <3>1, <1>6 DEF GuardInv, WipedBehind
  <2> QED BY <2>1, <2>2
<1>11. Written'
  <2>1. \A c \in tracked \cup escaped \cup promised : content'[c] # "unmapped"
    BY <1>6 DEF GuardInv, GuardTypes, Written
  <2>2. ASSUME NEW u \in Threads PROVE task'[u].wiped \subseteq task[u].wiped /\ task'[u].todo \subseteq task'[u].wiped
    BY <1>2, <1>7, <1>8 DEF GuardInv, Written
  <2>3. ASSUME NEW u \in Threads, NEW c \in task[u].wiped PROVE content'[c] # "unmapped"
    <3>1. c \in Blocks
      BY DEF GuardInv, GuardTypes, Tasks
    <3> QED BY <3>1, <1>6 DEF GuardInv, Written
  <2> QED BY <2>1, <2>2, <2>3, <1>3 DEF Written
<1>12. NoneLost'
  BY <1>1, <1>3, <1>7 DEF GuardInv, GuardTypes, NoneLost, Does
<1>13. Promised'
  BY <1>3, <1>6 DEF GuardInv, GuardTypes, Promised
<1> QED BY <1>4, <1>5, <1>9, <1>10, <1>11, <1>12, <1>13 DEF GuardInv

LEMMA WipeBeginsInv == ASSUME GuardInv, NEW t \in Threads, WipeBegins(t) PROVE GuardInv'
<1> DEFINE all == [does |-> "wipe", block |-> Free, todo |-> tracked, wiped |-> tracked]
<1>1. /\ task[t].does = "nothing" /\ task' = [task EXCEPT ![t] = all]
      /\ UNCHANGED <<content, canaries, released, closed, holder, tracked, seen, escaped, promised>>
  BY DEF WipeBegins, Does
<1>2. all \in Tasks /\ all.does = "wipe" /\ all.todo = tracked /\ all.wiped = tracked
  BY DEF Tasks, GuardInv, GuardTypes
<1> HIDE DEF all
<1>3. GuardTypes'
  BY <1>1, <1>2 DEF GuardInv, GuardTypes
<1>4. Zeroed' /\ Promised'
  BY <1>1 DEF GuardInv, Zeroed, Promised
<1>5. Entered' /\ WipedBehind'
  BY <1>1, <1>2 DEF GuardInv, GuardTypes, Entered, WipedBehind
<1>6. Written'
  BY <1>1, <1>2 DEF GuardInv, GuardTypes, Written
<1>7. NoneLost'
  BY <1>1, <1>2 DEF GuardInv, GuardTypes, NoneLost, Does
<1> QED BY <1>3, <1>4, <1>5, <1>6, <1>7 DEF GuardInv

\* Everything in the list is zero by now, so what leaves the set unwiped came into it since.
LEMMA WipeEndsInv == ASSUME GuardInv, NEW t \in Threads, WipeEnds(t) PROVE GuardInv'
<1>1. /\ task[t].does = "wipe" /\ task[t].todo = {} /\ tracked' = {} /\ task' = [task EXCEPT ![t] = Idle]
      /\ escaped' = escaped \cup (tracked \ task[t].wiped) /\ promised' = promised \cup task[t].wiped
      /\ UNCHANGED <<content, canaries, released, closed, holder, seen>>
  BY DEF WipeEnds, Does
<1>2. Idle \in Tasks /\ Idle.does = "nothing" /\ Idle.wiped = {} /\ Idle.todo = {}
  BY DEF Idle, Tasks
<1>3. task[t].wiped \subseteq Blocks /\ \A b \in task[t].wiped : content[b] = "zero"
  BY <1>1 DEF GuardInv, GuardTypes, WipedBehind, Tasks
<1>4. GuardTypes'
  BY <1>1, <1>2, <1>3 DEF GuardInv, GuardTypes
<1>5. Zeroed' /\ Promised'
  BY <1>1, <1>3 DEF GuardInv, Zeroed, Promised
<1>6. Entered' /\ WipedBehind'
  BY <1>1, <1>2 DEF GuardInv, GuardTypes, Entered, WipedBehind
<1>7. Written'
  BY <1>1, <1>2, <1>3 DEF GuardInv, GuardTypes, Written
<1>8. NoneLost'
  BY <1>1, <1>2, <1>3 DEF GuardInv, GuardTypes, NoneLost, Does
<1> QED BY <1>4, <1>5, <1>6, <1>7, <1>8 DEF GuardInv

LEMMA CollectedInv == ASSUME GuardInv, NEW b \in Blocks, Collected(b) PROVE GuardInv'
<1>1. /\ content' = [content EXCEPT ![b] = "zero"] /\ released' = released \cup {b}
      /\ closed' \in {closed, closed \cup {b}} /\ tracked' = tracked \ {b}
      /\ UNCHANGED <<canaries, holder, task, seen, escaped, promised>>
  BY DEF Collected
<1>2. \A c \in Blocks : (content[c] = "zero" => content'[c] = "zero") /\ (content[c] # "unmapped" => content'[c] # "unmapped")
  BY <1>1 DEF GuardInv, GuardTypes
<1>3. GuardTypes'
  BY <1>1 DEF GuardInv, GuardTypes, Contents
<1>4. Zeroed'
  BY <1>1 DEF GuardInv, GuardTypes, Zeroed
<1>5. Entered'
  BY <1>1, <1>2 DEF GuardInv, Entered
<1>6. WipedBehind'
  BY <1>1, <1>2 DEF GuardInv, GuardTypes, WipedBehind, Tasks
<1>7. Written'
  BY <1>1, <1>2 DEF GuardInv, GuardTypes, Written, Tasks
<1>8. NoneLost'
  BY <1>1 DEF GuardInv, GuardTypes, NoneLost, Does
<1>9. Promised'
  BY <1>1, <1>2 DEF GuardInv, GuardTypes, Promised
<1> QED BY <1>3, <1>4, <1>5, <1>6, <1>7, <1>8, <1>9 DEF GuardInv

LEMMA GuardStep == GuardInv /\ [GuardNext]_guardVars => GuardInv'
<1> SUFFICES ASSUME GuardInv, [GuardNext]_guardVars PROVE GuardInv'
  OBVIOUS
<1>1. CASE UNCHANGED guardVars
  BY <1>1 DEF guardVars, GuardInv, GuardTypes, Zeroed, Entered, WipedBehind, Written, NoneLost, Promised, Does
<1>2. ASSUME NEW b \in Blocks, Damage(b) PROVE GuardInv'
  BY <1>2 DEF Damage, GuardInv, GuardTypes, Zeroed, Entered, WipedBehind, Written, NoneLost, Promised, Does
<1> QED BY <1>1, <1>2, TrackInv, FinishInv, WipeBeginsInv, WipeEndsInv, ProtectInv, ReadInv, CloseInv, WipeNextInv,
           CollectedInv DEF GuardNext

\* Whatever the threads do, and wherever a canary is damaged: what a wipe_all found is zero when it returns, no
\* secret in memory is unknown to the set unless it came in meanwhile, and nobody reads a half-wiped value.
THEOREM SecretsWiped == GuardSpec => []WipedForGood
<1>1. GuardInv => WipedForGood
  BY DEF GuardInv, GuardTypes, Zeroed, NoneLost, Promised, WipedForGood
<1> QED BY <1>1, GuardInitial, GuardStep, PTL DEF GuardSpec
--------------------------------------------------------------------------------
\* ActivityMonitor

Reasons == {"none", "inactivity", "screen_lock"}
Watches == [at : {"unborn", "wait", "probe", "decide", "call", "ended"}, idle : Int, screen : BOOLEAN, reason : Reasons]
Requests == [reason : Reasons, quiet : Nat, needed : Nat, count : 0..1]

MonitorTypes ==
  /\ clock \in Nat /\ lastActivity \in Int /\ sinceInput \in Nat /\ systemIdle \in Nat
  /\ timeout \in Nat /\ locked \in BOOLEAN
  /\ watcher \in [Watchers -> Watches]
  /\ request \in Requests

\* What the monitor takes for activity is never older than the last real one, whatever a
\* late answer of the system has put in its place.
NeverOlder == InternalIdle <= sinceInput

MonitorInv == MonitorTypes /\ NeverOlder /\ LockJustified

\* The records a thread and a request start from.
LEMMA Resting ==
  /\ \A step \in {"unborn", "wait", "probe", "ended", "call"} : At(step) \in Watches
  /\ NoRequest \in Requests /\ NoRequest.reason = "none" /\ NoRequest.count = 0
  BY DEF At, Unknown, Watches, Reasons, NoRequest, Requests

LEMMA MonitorInitial == MonitorInit => MonitorInv
<1> SUFFICES ASSUME MonitorInit PROVE MonitorInv
  OBVIOUS
<1>1. watcher \in [Watchers -> Watches]
  BY Resting DEF MonitorInit
<1>2. request \in Requests /\ locked \in BOOLEAN
  <2>1. request = NoRequest /\ locked = FALSE
    BY DEF MonitorInit
  <2> QED BY <2>1, Resting
<1>3. MonitorTypes
  BY <1>1, <1>2, MonitorAssumption DEF MonitorInit, MonitorTypes
<1>4. NeverOlder
  BY DEF MonitorInit, NeverOlder, InternalIdle
<1>5. LockJustified
  BY Resting DEF MonitorInit, LockJustified
<1> QED BY <1>3, <1>4, <1>5 DEF MonitorInv

\* However old the answer of the system is, the user has been quiet for as long as is decided on.
LEMMA QuietIsReal == ASSUME MonitorInv, NEW w \in Watchers PROVE Quiet(w) \in Int /\ Quiet(w) <= sinceInput
  BY DEF MonitorInv, MonitorTypes, Watches, NeverOlder, Quiet, SystemIsFresher, InternalIdle

LEMMA DecideInv == ASSUME MonitorInv, NEW w \in Watchers, Decide(w) PROVE MonitorInv'
<1> DEFINE reason == IF locked THEN "none" ELSE Reason(w)
           next == IF reason = "none" THEN At("wait") ELSE [At("call") EXCEPT !.reason = reason]
           made == [reason |-> reason, quiet |-> sinceInput, needed |-> timeout, count |-> request.count + 1]
<1>1. /\ reason \in {"none", "inactivity", "screen_lock"}
      /\ reason # "none" => ~locked
      /\ reason = "inactivity" => Quiet(w) >= timeout
  BY DEF Reason
<1>2. next \in Watches
  <2>1. reason \in Reasons
    BY DEF Reason, Reasons
  <2>2. At("wait") \in Watches /\ At("call") \in Watches
    BY Resting
  <2> HIDE DEF reason
  <2> QED BY <2>1, <2>2 DEF Watches
<1>3. /\ watcher' = [watcher EXCEPT ![w] = next]
      /\ locked' = (locked \/ reason # "none")
      /\ request' = IF reason = "none" THEN request ELSE made
      /\ lastActivity' = IF ~locked /\ SystemIsFresher(w) THEN clock - watcher[w].idle ELSE lastActivity
      /\ UNCHANGED <<clock, timeout, monitoring, stopping, sinceInput, systemIdle, broken>>
  BY DEF Decide
<1>4. reason # "none" => request.count = 0
  BY <1>1 DEF MonitorInv, MonitorTypes, Requests, LockJustified
<1>5. reason # "none" => made \in Requests /\ made.count = 1
  BY <1>1, <1>4 DEF MonitorInv, MonitorTypes, Requests, Reasons
<1>6. reason = "inactivity" => sinceInput >= timeout
  BY <1>1, QuietIsReal DEF MonitorInv, MonitorTypes
<1>7. made.reason = reason /\ made.quiet = sinceInput /\ made.needed = timeout
  OBVIOUS
<1> HIDE DEF reason, next, made
<1>8. MonitorTypes'
  BY <1>2, <1>3, <1>5 DEF MonitorInv, MonitorTypes
<1>9. NeverOlder'
  BY <1>3 DEF MonitorInv, MonitorTypes, Watches, NeverOlder, SystemIsFresher, InternalIdle
<1>10. LockJustified'
  <2>1. CASE reason = "none"
    BY <2>1, <1>3 DEF MonitorInv, LockJustified
  <2>2. CASE reason # "none"
    <3>1. request' = made /\ locked'
      BY <2>2, <1>3
    <3> QED BY <2>2, <3>1, <1>5, <1>6, <1>7 DEF LockJustified
  <2> QED BY <2>1, <2>2
<1> QED BY <1>8, <1>9, <1>10 DEF MonitorInv

LEMMA MonitorStep == MonitorInv /\ [MonitorNext]_monitorVars => MonitorInv'
<1> SUFFICES ASSUME MonitorInv, [MonitorNext]_monitorVars PROVE MonitorInv'
  OBVIOUS
<1> USE DEF MonitorInv, NeverOlder, InternalIdle
<1>1. CASE UNCHANGED monitorVars
  BY <1>1 DEF monitorVars, MonitorTypes, LockJustified
<1>2. CASE ClockTicks
  BY <1>2 DEF ClockTicks, MonitorTypes, LockJustified
<1>3. CASE SystemInput
  BY <1>3 DEF SystemInput, MonitorTypes, LockJustified
<1>4. CASE Resume
  <2>1. request' = NoRequest /\ locked' = FALSE
    BY <1>4 DEF Resume
  <2>2. request' \in Requests /\ locked' \in BOOLEAN
    BY <2>1, Resting
  <2>3. MonitorTypes'
    BY <1>4, <2>2 DEF Resume, MonitorTypes
  <2>4. NeverOlder'
    BY <1>4 DEF Resume, MonitorTypes
  <2>5. LockJustified'
    BY <2>1, Resting DEF LockJustified
  <2> QED BY <2>3, <2>4, <2>5
<1>5. CASE Stop
  BY <1>5 DEF Stop, MonitorTypes, LockJustified
<1>6. ASSUME NEW kind \in Kinds, RecordActivity(kind) PROVE MonitorInv'
  BY <1>6 DEF RecordActivity, MonitorTypes, LockJustified
<1>7. ASSUME NEW t \in Timeouts, UpdateConfig(t) PROVE MonitorInv'
  BY <1>7, MonitorAssumption DEF UpdateConfig, MonitorTypes, LockJustified
<1>8. ASSUME NEW w \in Watchers, Start(w) PROVE MonitorInv'
  BY <1>8, Resting DEF Start, MonitorTypes, LockJustified
<1>9. ASSUME NEW w \in Watchers, Wake(w) PROVE MonitorInv'
  BY <1>9, Resting DEF Wake, MonitorTypes, LockJustified
<1>10. ASSUME NEW w \in Watchers, Probe(w) PROVE MonitorInv'
  BY <1>10 DEF Probe, Unknown, MonitorTypes, Watches, Reasons, LockJustified
<1>11. ASSUME NEW w \in Watchers, Call(w) PROVE MonitorInv'
  BY <1>11, Resting DEF Call, MonitorTypes, LockJustified
<1> QED BY <1>1, <1>2, <1>3, <1>4, <1>5, <1>6, <1>7, <1>8, <1>9, <1>10, <1>11, DecideInv DEF MonitorNext, Watch

\* A lock for inactivity is asked for only after the whole timeout without activity, and once until resume, for
\* any number of threads that live on and answers that come late.
THEOREM OnlyIdleLocked == MonitorSpec => []LockJustified
<1>1. MonitorInv => LockJustified
  BY DEF MonitorInv
<1> QED BY <1>1, MonitorInitial, MonitorStep, PTL DEF MonitorSpec
--------------------------------------------------------------------------------
\* Least and greatest members

\* The order of the natural numbers is well-founded.
LEMMA NatOrderFounded == IsWellFoundedOn({ss \in Nat \X Nat : ss[1] < ss[2]}, Nat)
  BY NatLessThanWellFounded DEF OpToRel

\* A set of natural numbers has a least member: the one instance of well-foundedness used below.
LEMMA LeastMember == ASSUME NEW T \in SUBSET Nat, T # {} PROVE \E x \in T : \A y \in T : x <= y
<1> DEFINE R == {ss \in Nat \X Nat : ss[1] < ss[2]}
<1>1. PICK x \in T : \A y \in T : ~ (<<y, x>> \in R)
  <2> HIDE DEF R
  <2> QED BY NatOrderFounded, WFMin DEF R
<1>2. \A y \in T : y < x => <<y, x>> \in R
  OBVIOUS
<1>3. \A y \in T : ~(y < x)
  <2> HIDE DEF R
  <2> QED BY <1>1, <1>2
<1> QED BY <1>3

\* A bounded one has a greatest.
LEMMA GreatestMember ==
  ASSUME NEW N \in Nat, NEW T \in SUBSET (0..N), T # {}
  PROVE  \E x \in T : \A y \in T : x >= y
<1> DEFINE D == {d \in Nat : N - d \in T}
<1>1. D # {}
  <2>1. PICK x \in T : TRUE
    OBVIOUS
  <2>2. N - x \in Nat /\ N - (N - x) = x
    OBVIOUS
  <2> QED BY <2>1, <2>2
<1>2. PICK d \in D : \A e \in D : d <= e
  <2> HIDE DEF D
  <2>1. D \in SUBSET Nat
    BY DEF D
  <2> QED BY <1>1, <2>1, LeastMember
<1>3. ASSUME NEW y \in T PROVE N - d >= y
  <2>1. N - y \in Nat /\ N - (N - y) = y
    OBVIOUS
  <2>2. N - y \in D
    BY <2>1
  <2>3. d <= N - y
    BY <1>2, <2>2
  <2> QED BY <2>3
<1> QED BY <1>3

\* Max and Min of the library choose such a member.
LEMMA MaxIs ==
  ASSUME NEW T \in SUBSET Int, NEW x \in T, \A y \in T : x >= y
  PROVE  Max(T) = x
<1>1. \A z \in T : (\A y \in T : z >= y) => z = x
  OBVIOUS
<1>2. Max(T) \in T /\ \A y \in T : Max(T) >= y
  BY DEF Max
<1> QED BY <1>1, <1>2

\* And the least.
LEMMA MinIs ==
  ASSUME NEW T \in SUBSET Int, NEW x \in T, \A y \in T : x <= y
  PROVE  Min(T) = x
<1>1. \A z \in T : (\A y \in T : z <= y) => z = x
  OBVIOUS
<1>2. Min(T) \in T /\ \A y \in T : Min(T) <= y
  BY DEF Min
<1> QED BY <1>1, <1>2

--------------------------------------------------------------------------------
\* AuditArchive

Rotations == [step : {"insert", "mark"}, from : Nat, upto : Nat]
Archives == [start : Nat, end : Nat, rows : SUBSET Nat]
Files == [named : Int, written : Int]
Exportings == [step : {"write", "record", "delete"}, now : Int]

ArchiveTypes ==
  /\ log \in Seq(Int) /\ wall \in Int /\ mark \in 0..Len(log)
  /\ archives \subseteq Archives
  /\ rotation # NoRotation => rotation \in Rotations
  /\ killed \in BOOLEAN
  /\ exports \subseteq Files
  /\ exporting # Never => exporting \in Exportings
  /\ setBack \in BOOLEAN

\* A rotation takes the rows from the mark on, and the log only grows meanwhile.
RotationSound == rotation # NoRotation =>
  rotation.from = mark /\ mark < rotation.upto /\ rotation.upto <= Len(log)

\* An archive has the rows its bounds name, which are rows of the log.
ArchivesSound == \A a \in archives : a.start <= a.end /\ a.rows = a.start..a.end /\ a.rows \subseteq DOMAIN log

\* The archive a rotation is about.
Made(a) == a.start = rotation.from + 1 /\ a.end = rotation.upto
MadeBeforeMark == Archiving("mark") => \E a \in archives : Made(a)

\* Unless a rotation was cut off, no archive goes beyond the mark but the one just inserted.
BehindMark == ~killed => \A a \in archives : a.end <= mark \/ (Archiving("mark") /\ Made(a))

Covered == \A n \in 1..mark : \E a \in archives : n \in a.rows
Apart == ~killed => \A a, b \in archives : a # b => a.rows \cap b.rows = {}

ArchiveInv ==
  ArchiveTypes /\ RotationSound /\ ArchivesSound /\ MadeBeforeMark /\ BehindMark /\ Covered /\ Apart

\* An export on its way to be recorded is on the disk and not too old, unless the clock was set back.
Named(t) == \E f \in exports : f.named = t
Fresh == \E f \in exports : f.named = exporting.now /\ f.written >= exporting.now
ExportsInv == ~setBack =>
  /\ lastExport # Never => Named(lastExport)
  /\ exporting # Never => wall >= exporting.now
  /\ Exporting("record") \/ Exporting("delete") => Fresh
  /\ Exporting("delete") => lastExport = exporting.now

WholeArchive == ArchiveInv /\ ExportsInv

\* Where an archive ends is a row of the log, or none.
LEMMA CutoffBounded == ASSUME ArchiveTypes PROVE EndSequence \in 0..Len(log)
<1> DEFINE T == {0} \cup {n \in DOMAIN log : log[n] + MaxAge < wall}
<1>1. Len(log) \in Nat /\ DOMAIN log = 1..Len(log)
  BY DEF ArchiveTypes
<1>2. T \in SUBSET (0..Len(log)) /\ T # {}
  BY <1>1
<1> HIDE DEF T
<1>3. PICK x \in T : \A y \in T : x >= y
  BY <1>1, <1>2, GreatestMember
<1>4. Max(T) = x
  BY <1>2, <1>3, MaxIs
<1>5. AgeSequence \in 0..Len(log)
  BY <1>2, <1>3, <1>4 DEF AgeSequence, T
<1>6. EntryCutoff \in 0..Len(log)
  BY <1>1, ArchiveAssumption DEF EntryCutoff
<1>7. PICK c, a \in 0..Len(log) : c = EntryCutoff /\ a = AgeSequence
  BY <1>5, <1>6
<1>8. Max({c, a}) \in {c, a}
  <2>1. {c, a} \in SUBSET Int
    OBVIOUS
  <2>2. CASE c >= a
    <3>1. \A y \in {c, a} : c >= y
      BY <2>2
    <3> QED BY <2>1, <3>1, MaxIs
  <2>3. CASE a >= c
    <3>1. \A y \in {c, a} : a >= y
      BY <2>3
    <3> QED BY <2>1, <3>1, MaxIs
  <2> QED BY <2>2, <2>3
<1> QED BY <1>7, <1>8 DEF EndSequence

\* The archive of a rotation under way holds the rows after the mark, and no others.
LEMMA ArchiveIs ==
  ASSUME ArchiveTypes, RotationSound, rotation # NoRotation
  PROVE  /\ Selected = (rotation.from + 1)..rotation.upto
         /\ Archive = [start |-> rotation.from + 1, end |-> rotation.upto, rows |-> (rotation.from + 1)..rotation.upto]
         /\ Archive \in Archives
<1>1. rotation.from \in Nat /\ rotation.upto \in Nat /\ rotation.from < rotation.upto /\ rotation.upto <= Len(log)
  BY DEF ArchiveTypes, RotationSound, Rotations
<1>2. DOMAIN log = 1..Len(log) /\ Len(log) \in Nat
  BY DEF ArchiveTypes
<1>3. Selected = (rotation.from + 1)..rotation.upto
  BY <1>1, <1>2 DEF Selected
<1>4. PICK f, u \in Nat : f = rotation.from + 1 /\ u = rotation.upto
  BY <1>1
<1>5. f..u \in SUBSET Int /\ f \in f..u /\ u \in f..u
  BY <1>1, <1>4
<1>6. Min(f..u) = f
  <2>1. \A y \in f..u : f <= y
    OBVIOUS
  <2> QED BY <1>5, <2>1, MinIs
<1>7. Max(f..u) = u
  <2>1. \A y \in f..u : u >= y
    OBVIOUS
  <2> QED BY <1>5, <2>1, MaxIs
<1> QED BY <1>1, <1>3, <1>4, <1>6, <1>7 DEF Archive, Archives

LEMMA ArchiveInitial == ArchiveInit => WholeArchive
<1> SUFFICES ASSUME ArchiveInit PROVE WholeArchive
  OBVIOUS
<1>1. /\ log = << >> /\ wall \in Stamps /\ archives = {} /\ mark = 0 /\ rotation = NoRotation /\ killed = FALSE
      /\ exports = {} /\ lastExport = Never /\ exporting = Never /\ setBack = FALSE
  BY DEF ArchiveInit
<1>2. ArchiveTypes
  <2>1. log \in Seq(Int) /\ Len(log) = 0
    BY <1>1
  <2>3. killed \in BOOLEAN /\ setBack \in BOOLEAN
    BY <1>1
  <2>2. wall \in Int /\ archives \subseteq Archives /\ exports \subseteq Files /\ mark \in 0..Len(log)
    BY <1>1, <2>1, ArchiveAssumption
  <2> QED BY <1>1, <2>1, <2>2, <2>3 DEF ArchiveTypes
<1>3. RotationSound /\ ArchivesSound /\ MadeBeforeMark /\ BehindMark /\ Covered /\ Apart
  BY <1>1 DEF RotationSound, ArchivesSound, MadeBeforeMark, BehindMark, Covered, Apart, Archiving
<1>4. ExportsInv
  BY <1>1 DEF ExportsInv, Exporting
<1> QED BY <1>2, <1>3, <1>4 DEF WholeArchive, ArchiveInv

\* One more row changes nothing about the archives.
LEMMA LongerLog ==
  ASSUME ArchiveInv, NEW row \in Int, log' = Append(log, row), UNCHANGED <<wall, rotationVars>>,
         exports' \subseteq Files, exporting' # Never => exporting' \in Exportings, setBack' \in BOOLEAN
  PROVE  ArchiveInv'
<1>1. Len(log) \in Nat /\ log' \in Seq(Int) /\ Len(log') = Len(log) + 1 /\ DOMAIN log \subseteq DOMAIN log'
  BY DEF ArchiveInv, ArchiveTypes
<1>2. ArchiveTypes'
  BY <1>1 DEF ArchiveInv, ArchiveTypes, rotationVars
<1>3. RotationSound'
  <2> USE DEF rotationVars
  <2>1. CASE rotation = NoRotation
    BY <2>1 DEF RotationSound
  <2>2. CASE rotation # NoRotation
    <3>1. rotation.upto \in Nat
      BY <2>2 DEF ArchiveInv, ArchiveTypes, Rotations
    <3> QED BY <1>1, <2>2, <3>1 DEF ArchiveInv, RotationSound
  <2> QED BY <2>1, <2>2
<1>4. ArchivesSound'
  BY <1>1 DEF ArchiveInv, ArchivesSound, rotationVars
<1>5. MadeBeforeMark' /\ BehindMark' /\ Covered' /\ Apart'
  BY DEF ArchiveInv, MadeBeforeMark, BehindMark, Covered, Apart, Made, Archiving, rotationVars
<1> QED BY <1>2, <1>3, <1>4, <1>5 DEF ArchiveInv

\* A step of the exports, or of the clock, that writes no row.
LEMMA SameArchives ==
  ASSUME ArchiveInv, wall' \in Int, UNCHANGED <<log, rotationVars>>,
         exports' \subseteq Files, exporting' # Never => exporting' \in Exportings, setBack' \in BOOLEAN
  PROVE  ArchiveInv'
<1>1. ArchiveTypes'
  BY DEF ArchiveInv, ArchiveTypes, rotationVars
<1>2. RotationSound' /\ ArchivesSound' /\ MadeBeforeMark' /\ BehindMark' /\ Covered' /\ Apart'
  BY DEF ArchiveInv, RotationSound, ArchivesSound, MadeBeforeMark, BehindMark, Covered, Apart, Made, Archiving,
    rotationVars
<1> QED BY <1>1, <1>2 DEF ArchiveInv

LEMMA SameExports == ASSUME ExportsInv, UNCHANGED <<wall, exportVars>> PROVE ExportsInv'
  BY DEF ExportsInv, Named, Fresh, Exporting, exportVars

LEMMA ReadsInv == ASSUME ArchiveInv, RotateReads PROVE ArchiveInv'
<1> DEFINE next == [step |-> "insert", from |-> mark, upto |-> EndSequence]
<1>1. /\ EndSequence > mark /\ rotation' = next
      /\ UNCHANGED <<log, wall, archives, mark, killed, exportVars>>
  BY DEF RotateReads
<1>2. EndSequence \in 0..Len(log) /\ Len(log) \in Nat /\ mark \in Nat
  BY CutoffBounded DEF ArchiveInv, ArchiveTypes
<1>3. next \in Rotations /\ next.step = "insert" /\ next.from = mark /\ mark < next.upto /\ next.upto <= Len(log)
  BY <1>1, <1>2 DEF Rotations
<1> HIDE DEF next
<1>4. rotation = NoRotation \/ ~Archiving("mark") => BehindMark'
  BY <1>1 DEF ArchiveInv, BehindMark, Archiving, exportVars
<1>5. rotation = NoRotation
  BY DEF RotateReads
<1>6. ArchiveTypes'
  BY <1>1, <1>3 DEF ArchiveInv, ArchiveTypes, exportVars
<1>7. RotationSound'
  BY <1>1, <1>3 DEF RotationSound
<1>8. ArchivesSound' /\ Covered' /\ Apart'
  BY <1>1 DEF ArchiveInv, ArchivesSound, Covered, Apart
<1>9. MadeBeforeMark'
  BY <1>1, <1>3 DEF MadeBeforeMark, Archiving
<1> QED BY <1>4, <1>5, <1>6, <1>7, <1>8, <1>9 DEF ArchiveInv

\* An archive with the same bounds that is there already holds the same rows.
LEMMA InsertInv == ASSUME ArchiveInv, InsertArchive PROVE ArchiveInv'
<1> DEFINE next == [rotation EXCEPT !.step = "mark"]
           from == rotation.from
           upto == rotation.upto
<1>1. /\ rotation # NoRotation /\ rotation.step = "insert" /\ rotation' = next
      /\ \/ archives' = archives /\ \E a \in archives : a.start = Archive.start /\ a.end = Archive.end
         \/ archives' = archives \cup {Archive}
      /\ UNCHANGED <<log, wall, mark, killed, exportVars>>
  BY DEF InsertArchive, Archiving
<1>2. /\ rotation \in Rotations /\ from \in Nat /\ upto \in Nat /\ from = mark /\ mark < upto /\ upto <= Len(log)
      /\ Len(log) \in Nat /\ DOMAIN log = 1..Len(log)
  BY <1>1 DEF ArchiveInv, ArchiveTypes, RotationSound, Rotations
<1>3. next \in Rotations /\ next.step = "mark" /\ next.from = from /\ next.upto = upto
  BY <1>2 DEF Rotations
<1>4. Archive = [start |-> from + 1, end |-> upto, rows |-> (from + 1)..upto] /\ Archive \in Archives
  BY <1>1, ArchiveIs DEF ArchiveInv
<1>5. PICK new \in Archives : new = Archive /\ new.start = from + 1 /\ new.end = upto /\ new.rows = (from + 1)..upto
  BY <1>4
<1>6. \/ archives' = archives /\ \E a \in archives : a.start = from + 1 /\ a.end = upto
      \/ archives' = archives \cup {new}
  BY <1>1, <1>5
<1> HIDE DEF next
<1>7. ArchiveTypes'
  BY <1>1, <1>3, <1>6 DEF ArchiveInv, ArchiveTypes, exportVars
<1>8. RotationSound'
  BY <1>1, <1>2, <1>3 DEF RotationSound
<1>9. ArchivesSound'
  BY <1>1, <1>2, <1>5, <1>6 DEF ArchiveInv, ArchivesSound
<1>10. MadeBeforeMark'
  BY <1>1, <1>3, <1>5, <1>6 DEF MadeBeforeMark, Made
<1>11. killed \/ \A a \in archives : a.end <= mark
  BY <1>1 DEF ArchiveInv, BehindMark, Archiving
<1>12. BehindMark'
  <2>1. Archiving("mark")'
    BY <1>1, <1>3, ArchiveAssumption DEF Archiving, Rotations
  <2> QED BY <1>1, <1>3, <1>5, <1>6, <1>11, <2>1 DEF BehindMark, Made
<1>13. Covered'
  BY <1>1, <1>6 DEF ArchiveInv, Covered
<1>14. Apart'
  <2> SUFFICES ASSUME ~killed, NEW a \in archives', NEW b \in archives', a # b PROVE a.rows \cap b.rows = {}
    BY <1>1 DEF Apart
  <2>1. CASE a \in archives /\ b \in archives
    BY <2>1 DEF ArchiveInv, Apart
  <2>2. ASSUME NEW c \in archives PROVE c.rows \cap new.rows = {}
    <3>1. c.rows = c.start..c.end /\ c.end <= mark /\ c.start \in Nat /\ c.end \in Nat
      BY <1>11 DEF ArchiveInv, ArchiveTypes, ArchivesSound, Archives
    <3> QED BY <1>2, <1>5, <3>1
  <2> QED BY <1>6, <2>1, <2>2
<1> QED BY <1>7, <1>8, <1>9, <1>10, <1>12, <1>13, <1>14 DEF ArchiveInv

LEMMA MoveInv == ASSUME ArchiveInv, MoveMark PROVE ArchiveInv'
<1>1. /\ Archiving("mark") /\ rotation # NoRotation /\ mark' = Archive.end /\ rotation' = NoRotation
      /\ UNCHANGED <<log, wall, archives, killed, exportVars>>
  BY DEF MoveMark, Archiving
<1>2. /\ rotation.from \in Nat /\ rotation.upto \in Nat /\ rotation.from = mark /\ mark < rotation.upto
      /\ rotation.upto <= Len(log) /\ Len(log) \in Nat
  BY <1>1 DEF ArchiveInv, ArchiveTypes, RotationSound, Rotations
<1>3. mark' = rotation.upto
  BY <1>1, ArchiveIs DEF ArchiveInv
<1>4. ArchiveTypes'
  BY <1>1, <1>2, <1>3 DEF ArchiveInv, ArchiveTypes, exportVars
<1>5. RotationSound' /\ MadeBeforeMark'
  BY <1>1 DEF RotationSound, MadeBeforeMark, Archiving
<1>6. ArchivesSound' /\ Apart'
  BY <1>1 DEF ArchiveInv, ArchivesSound, Apart
<1>7. PICK made \in archives : Made(made)
  BY <1>1 DEF ArchiveInv, MadeBeforeMark
<1>8. Covered'
  <2> SUFFICES ASSUME NEW n \in 1..rotation.upto PROVE \E a \in archives : n \in a.rows
    BY <1>1, <1>3 DEF Covered
  <2>1. CASE n <= mark
    BY <1>2, <2>1 DEF ArchiveInv, Covered
  <2>2. CASE n > mark
    <3>1. made.rows = (rotation.from + 1)..rotation.upto
      BY <1>7 DEF ArchiveInv, ArchivesSound, Made
    <3> QED BY <1>2, <2>2, <3>1
  <2> QED BY <1>2, <2>1, <2>2
<1>9. BehindMark'
  <2> SUFFICES ASSUME ~killed, NEW a \in archives PROVE a.end <= mark'
    BY <1>1 DEF BehindMark
  <2>1. a.end \in Nat
    BY DEF ArchiveInv, ArchiveTypes, Archives
  <2> QED BY <1>2, <1>3, <2>1 DEF ArchiveInv, BehindMark, Made
<1> QED BY <1>4, <1>5, <1>6, <1>8, <1>9 DEF ArchiveInv

LEMMA FailsInv == ASSUME ArchiveInv, RotateFails PROVE ArchiveInv'
<1>1. /\ rotation' = NoRotation /\ killed' = (killed \/ Archiving("mark"))
      /\ UNCHANGED <<log, wall, archives, mark, exportVars>>
  BY DEF RotateFails
<1>2. ArchiveTypes'
  BY <1>1 DEF ArchiveInv, ArchiveTypes, exportVars
<1>3. RotationSound' /\ MadeBeforeMark'
  BY <1>1 DEF RotationSound, MadeBeforeMark, Archiving
<1>4. ArchivesSound' /\ Covered'
  BY <1>1 DEF ArchiveInv, ArchivesSound, Covered
<1>5. BehindMark' /\ Apart'
  BY <1>1 DEF ArchiveInv, BehindMark, Apart, Made
<1> QED BY <1>2, <1>3, <1>4, <1>5 DEF ArchiveInv

--------------------------------------------------------------------------------
\* The scheduled exports

ExportTypes == exports \subseteq Files /\ (exporting # Never => exporting \in Exportings) /\ setBack \in BOOLEAN

LEMMA DueInv == ASSUME WholeArchive, ExportDue PROVE WholeArchive'
<1> DEFINE next == [step |-> "write", now |-> wall]
<1>1. exporting' = next /\ UNCHANGED <<log, wall, rotationVars, exports, lastExport, setBack>>
  BY DEF ExportDue
<1>2. wall \in Int /\ exports \subseteq Files /\ setBack \in BOOLEAN
  BY DEF WholeArchive, ArchiveInv, ArchiveTypes
<1>3. next \in Exportings /\ next.step = "write" /\ next.now = wall
  BY <1>2 DEF Exportings
<1> HIDE DEF next
<1>4. ArchiveInv'
  BY <1>1, <1>2, <1>3, SameArchives DEF WholeArchive
<1>5. ExportsInv'
  BY <1>1, <1>2, <1>3 DEF WholeArchive, ExportsInv, Named, Exporting
<1> QED BY <1>4, <1>5 DEF WholeArchive

\* The new file replaces one of the same name.
LEMMA WithExportNames ==
  ASSUME ArchiveTypes, Exporting("write"), exports' = WithExport
  PROVE  /\ exports' \subseteq Files
         /\ \A t : Named(t) => Named(t)'
         /\ \E f \in exports' : f.named = exporting.now /\ f.written = wall
<1> DEFINE new == [named |-> exporting.now, written |-> wall]
<1>1. new \in Files /\ new.named = exporting.now /\ new.written = wall
  BY DEF ArchiveTypes, Exporting, Exportings, Files
<1>2. exports' = {f \in exports : f.named # exporting.now} \cup {new}
  BY DEF WithExport
<1> HIDE DEF new
<1> QED BY <1>1, <1>2 DEF ArchiveTypes, Named

LEMMA WriteExportInv == ASSUME WholeArchive, WriteExport PROVE WholeArchive'
<1> DEFINE next == [exporting EXCEPT !.step = "record"]
<1>1. /\ exporting # Never /\ exports' = WithExport /\ log' = Append(log, wall) /\ exporting' = next
      /\ UNCHANGED <<wall, rotationVars, lastExport, setBack>>
  BY DEF WriteExport, Exporting
<1>2. wall \in Int /\ exporting \in Exportings /\ setBack \in BOOLEAN
  BY <1>1 DEF WholeArchive, ArchiveInv, ArchiveTypes
<1>3. next \in Exportings /\ next.step = "record" /\ next.now = exporting.now
  BY <1>2 DEF Exportings
<1> HIDE DEF next
<1>4. /\ exports' \subseteq Files
      /\ \A t : Named(t) => Named(t)'
      /\ \E f \in exports' : f.named = exporting.now /\ f.written = wall
  BY WithExportNames DEF WriteExport, WholeArchive, ArchiveInv
<1>5. ArchiveInv'
  BY <1>1, <1>2, <1>3, <1>4, LongerLog DEF WholeArchive
<1>6. ExportsInv'
  <2> SUFFICES ASSUME ~setBack PROVE /\ lastExport # Never => Named(lastExport)'
                                     /\ wall >= next.now
                                     /\ \E f \in exports' : f.named = next.now /\ f.written >= next.now
    BY <1>1, <1>3 DEF ExportsInv, Named, Fresh, Exporting
  <2>1. wall >= exporting.now
    BY <1>1 DEF WholeArchive, ExportsInv
  <2>2. lastExport # Never => Named(lastExport)
    BY DEF WholeArchive, ExportsInv
  <2>3. lastExport # Never => \E f \in exports' : f.named = lastExport
    BY <1>4, <2>2 DEF Named
  <2>4. lastExport # Never => Named(lastExport)'
    BY <1>1, <2>3 DEF Named
  <2> QED BY <1>3, <1>4, <2>1, <2>4
<1> QED BY <1>5, <1>6 DEF WholeArchive

LEMMA RecordInv == ASSUME WholeArchive, RecordExport PROVE WholeArchive'
<1> DEFINE next == [exporting EXCEPT !.step = "delete"]
<1>1. /\ exporting # Never /\ exporting.step = "record" /\ lastExport' = exporting.now /\ exporting' = next
      /\ UNCHANGED <<log, wall, rotationVars, exports, setBack>>
  BY DEF RecordExport, Exporting
<1>2. wall \in Int /\ exporting \in Exportings /\ exports \subseteq Files /\ setBack \in BOOLEAN
  BY <1>1 DEF WholeArchive, ArchiveInv, ArchiveTypes
<1>3. next \in Exportings /\ next.step = "delete" /\ next.now = exporting.now
  BY <1>2 DEF Exportings
<1> HIDE DEF next
<1>4. ArchiveInv'
  BY <1>1, <1>2, <1>3, SameArchives DEF WholeArchive
<1>5. ExportsInv'
  <2> SUFFICES ASSUME ~setBack PROVE wall >= next.now /\ \E f \in exports : f.named = next.now /\ f.written >= next.now
    BY <1>1, <1>3 DEF ExportsInv, Named, Fresh, Exporting
  <2> QED BY <1>1, <1>3 DEF WholeArchive, ExportsInv, Fresh, Exporting
<1> QED BY <1>4, <1>5 DEF WholeArchive

\* Whatever expired files go, the one just written stays.
LEMMA DeletedInv ==
  ASSUME WholeArchive, Exporting("delete"), NEW d \in SUBSET Expired, exports' = exports \ d, exporting' = Never,
         UNCHANGED <<log, wall, rotationVars, lastExport, setBack>>
  PROVE  WholeArchive'
<1>1. ArchiveInv'
  BY SameArchives DEF WholeArchive, ArchiveInv, ArchiveTypes
<1>2. ASSUME ~setBack PROVE Named(lastExport)'
  <2>1. lastExport = exporting.now /\ Fresh /\ exporting \in Exportings /\ exports \subseteq Files
    BY <1>2 DEF WholeArchive, ExportsInv, ArchiveInv, ArchiveTypes, Exporting
  <2>2. PICK f \in exports : f.named = exporting.now /\ f.written >= exporting.now
    BY <2>1 DEF Fresh
  <2>3. f \notin Expired
    BY <2>1, <2>2, ArchiveAssumption DEF Expired, Exportings, Files
  <2> QED BY <2>1, <2>2, <2>3 DEF Named
<1>3. ExportsInv'
  BY <1>2 DEF ExportsInv, Exporting
<1> QED BY <1>1, <1>3 DEF WholeArchive

LEMMA ExportFailsInv == ASSUME WholeArchive, ExportFails PROVE WholeArchive'
<1>1. exporting' = Never /\ UNCHANGED <<log, wall, rotationVars, lastExport, setBack>>
  BY DEF ExportFails
<1>2. CASE UNCHANGED exports \/ (Exporting("write") /\ exports' = WithExport)
  <2>1. exports' \subseteq Files /\ \A t : Named(t) => Named(t)'
    BY <1>2, WithExportNames DEF WholeArchive, ArchiveInv, ArchiveTypes, Named
  <2>2. ArchiveInv'
    BY <1>1, <2>1, SameArchives DEF WholeArchive, ArchiveInv, ArchiveTypes
  <2>3. ExportsInv'
    <3> SUFFICES ASSUME ~setBack, lastExport # Never PROVE \E f \in exports' : f.named = lastExport
      BY <1>1 DEF ExportsInv, Named, Exporting
    <3>1. Named(lastExport)
      BY DEF WholeArchive, ExportsInv
    <3> QED BY <2>1, <3>1 DEF Named
  <2> QED BY <2>2, <2>3 DEF WholeArchive
<1>3. CASE Exporting("delete") /\ \E d \in SUBSET Expired : exports' = exports \ d
  BY <1>1, <1>3, DeletedInv
<1> QED BY <1>2, <1>3 DEF ExportFails

LEMMA ArchiveStep == WholeArchive /\ [ArchiveNext]_archiveVars => WholeArchive'
<1> SUFFICES ASSUME WholeArchive, [ArchiveNext]_archiveVars PROVE WholeArchive'
  OBVIOUS
<1>1. ArchiveInv /\ ExportsInv /\ wall \in Int /\ ExportTypes
  BY DEF WholeArchive, ArchiveInv, ArchiveTypes, ExportTypes
<1>2. CASE UNCHANGED archiveVars
  BY <1>1, <1>2, SameArchives, SameExports DEF archiveVars, exportVars, rotationVars, WholeArchive, ExportTypes
<1>3. CASE AppendRow
  BY <1>1, <1>3, LongerLog, SameExports DEF AppendRow, exportVars, WholeArchive, ExportTypes
<1>4. CASE SetClock
  <2>1. /\ wall' \in Int /\ setBack' = (setBack \/ (wall' < wall /\ exporting # Never))
        /\ UNCHANGED <<log, rotationVars, exports, lastExport, exporting>>
    BY <1>4, ArchiveAssumption DEF SetClock
  <2>2. setBack' \in BOOLEAN
    BY <2>1
  <2>3. ArchiveInv'
    BY <1>1, <2>1, <2>2, SameArchives DEF ExportTypes
  <2>4. ASSUME ~setBack' PROVE ~setBack /\ (exporting # Never => wall' >= exporting.now)
    <3>1. ~setBack /\ ~(wall' < wall /\ exporting # Never)
      BY <2>1, <2>4
    <3>2. exporting # Never => wall >= exporting.now /\ exporting.now \in Int
      BY <1>1, <3>1 DEF ExportTypes, Exportings, ExportsInv
    <3> QED BY <1>1, <2>1, <3>1, <3>2
  <2>5. ExportsInv'
    BY <1>1, <2>1, <2>4 DEF ExportsInv, Named, Fresh, Exporting
  <2> QED BY <2>3, <2>5 DEF WholeArchive
<1>5. CASE RotateReads
  BY <1>1, <1>5, ReadsInv, SameExports DEF RotateReads, exportVars, WholeArchive
<1>6. CASE InsertArchive
  BY <1>1, <1>6, InsertInv, SameExports DEF InsertArchive, exportVars, WholeArchive
<1>7. CASE MoveMark
  BY <1>1, <1>7, MoveInv, SameExports DEF MoveMark, exportVars, WholeArchive
<1>8. CASE RotateFails
  BY <1>1, <1>8, FailsInv, SameExports DEF RotateFails, exportVars, WholeArchive
<1>9. CASE DeleteExpired
  BY <1>9, DeletedInv DEF DeleteExpired
<1> QED BY <1>2, <1>3, <1>4, <1>5, <1>6, <1>7, <1>8, <1>9, DueInv, WriteExportInv, RecordInv, ExportFailsInv DEF ArchiveNext

\* For any cutoffs and any failures: no row before the mark is without an archive, two archives overlap only after a
\* rotation that was cut off, and the export the settings name is on the disk unless the clock was set back.
THEOREM NothingUnarchived == ArchiveSpec => []ArchiveCovers
<1>1. WholeArchive => ArchiveCovers
  BY DEF WholeArchive, ArchiveInv, ArchivesSound, Covered, Apart, ExportsInv, Named, ArchiveCovers
<1> QED BY <1>1, ArchiveInitial, ArchiveStep, PTL DEF ArchiveSpec
--------------------------------------------------------------------------------
\* AuditViewer

RowTypes == EventTypes \cup {Exported}

ViewerTypes ==
  /\ events \in Seq(RowTypes)
  /\ sort \in [by : Columns, descending : BOOLEAN]
  /\ page \in Nat \ {0} /\ pages \in Int /\ atStart \in 0..Len(events)
  /\ query \in [step : {"none", "count", "select"}, count : Nat]
  /\ query.step = "none" => query = NoQuery
  /\ aged \subseteq 1..Len(events) /\ cut \subseteq aged
  /\ disturbed \in BOOLEAN /\ grown \in BOOLEAN /\ filter.dated \in BOOLEAN
  /\ selected \subseteq ToSet(listed)

\* What is due of the first p pages by now has been listed, or of all.
Seen(p) == \A n \in Due : Place(n) <= p * PerPage => n \in visited
AllSeen == Due \subseteq visited

\* Who pages in the order of the log has seen the pages up to this one, or up to the one
\* before while it is loaded.  The count that was made still holds when the rows are selected,
\* unless a matching row was added.  Rows only leave the dates of the filter.
Paging == ~disturbed =>
  /\ filter.dated \/ cut = {}
  /\ Answered \/ page > 1 => cutAtStart \subseteq cut
  /\ sort.by = "sequence_number" =>
       /\ Answered => Seen(page) /\ (page >= pages /\ ~grown => AllSeen)
       /\ ~Answered /\ page > 1 => Seen(page - 1)
       /\ query.step = "select" /\ ~grown => query.count = Cardinality(Matching(filter))

ViewerInv == ViewerTypes /\ Paging

\* The rows that match are finitely many.
LEMMA MatchingRows ==
  ASSUME ViewerTypes, NEW f
  PROVE  /\ Matching(f) \subseteq 1..Len(events) /\ Len(events) \in Nat /\ IsFiniteSet(Matching(f))
         /\ Cardinality(Matching(f)) \in Nat
<1>1. Len(events) \in Nat /\ DOMAIN events = 1..Len(events)
  BY DEF ViewerTypes
<1>2. Matching(f) \subseteq 1..Len(events)
  BY <1>1 DEF Matching
<1>3. IsFiniteSet(1..Len(events))
  BY <1>1, FS_Interval
<1>4. IsFiniteSet(Matching(f))
  BY <1>2, <1>3, FS_Subset
<1> QED BY <1>1, <1>2, <1>4, FS_CardinalityType

\* So every row has a place.
LEMMA PlaceIsNatural == ASSUME ViewerTypes, NEW n PROVE IsFiniteSet(Before(n)) /\ Place(n) \in Nat
<1>1. Before(n) \in SUBSET Matching(filter)
  BY DEF Before
<1>2. IsFiniteSet(Before(n))
  BY <1>1, MatchingRows, FS_Subset
<1> QED BY <1>2, FS_CardinalityType DEF Place

\* A list of all matching rows in the order of the log has each row at its place.
LEMMA ListedInPlace ==
  ASSUME ViewerTypes, sort.by = "sequence_number", NEW list \in Orders(Matching(filter), sort), NEW n \in Matching(filter)
  PROVE  /\ Place(n) \in DOMAIN list /\ list[Place(n)] = n
         /\ DOMAIN list = 1..Cardinality(Matching(filter))
<1> DEFINE M == Matching(filter)
           c == Cardinality(M)
<1>1. M \subseteq Nat /\ IsFiniteSet(M) /\ c \in Nat
  BY MatchingRows
<1>2. /\ list \in [1..c -> M] /\ \A i, j \in 1..c : i # j => list[i] # list[j]
      /\ \A i, j \in DOMAIN list : i < j => Precedes(list[i], list[j], sort)
  BY DEF Orders, SetToSeqs
<1> HIDE DEF M, c
<1>3. \A i, j \in 1..c : i < j => IF sort.descending THEN list[i] > list[j] ELSE list[i] < list[j]
  BY <1>2 DEF Precedes
<1>4. list \in Surjection(1..c, M)
  <2>1. list \in Injection(1..c, M)
    BY <1>2 DEF Injection, IsInjective
  <2>2. Cardinality(1..c) = Cardinality(M)
    BY <1>1, FS_Interval DEF c
  <2> QED BY <1>1, <2>1, <2>2, FS_Injection
<1>5. PICK i \in 1..c : list[i] = n /\ n \in M
  BY <1>4 DEF Surjection, M
<1>6. Before(n) = {list[j] : j \in 1..i}
  <2>1. ASSUME NEW j \in 1..i PROVE list[j] \in Before(n)
    <3>1. j \in 1..c /\ (j = i \/ j < i)
      BY <1>1
    <3>2. list[j] \in M
      BY <1>2, <3>1
    <3>3. list[j] \in Nat /\ n \in Nat
      BY <1>1, <1>5, <3>2
    <3>4. j < i => IF sort.descending THEN list[j] > list[i] ELSE list[j] < list[i]
      BY <1>3, <3>1
    <3>5. IF sort.descending THEN list[j] >= n ELSE list[j] <= n
      BY <1>5, <3>1, <3>3, <3>4
    <3> QED BY <3>2, <3>5 DEF Before, InOrder, M
  <2>2. ASSUME NEW m \in Before(n) PROVE \E j \in 1..i : list[j] = m
    <3>1. m \in M /\ IF sort.descending THEN m >= n ELSE m <= n
      BY DEF Before, InOrder, M
    <3>2. PICK j \in 1..c : list[j] = m
      BY <1>4, <3>1 DEF Surjection
    <3>3. ~(j > i)
      <4>1. j > i => IF sort.descending THEN list[i] > list[j] ELSE list[i] < list[j]
        BY <1>3
      <4> QED BY <1>1, <1>5, <3>1, <3>2, <4>1 DEF M
    <3> QED BY <1>1, <3>2, <3>3
  <2> QED BY <2>1, <2>2
<1>7. Place(n) = i
  <2> DEFINE first == [j \in 1..i |-> list[j]]
  <2>1. first \in Injection(1..i, Before(n)) /\ first \in Surjection(1..i, Before(n))
    BY <1>1, <1>2, <1>6 DEF Injection, IsInjective, Surjection
  <2>2. ExistsBijection(1..i, Before(n))
    BY <2>1 DEF ExistsBijection, Bijection
  <2>3. i \in Nat
    BY <1>1
  <2> QED BY <2>2, <2>3, FS_CountingElements DEF Place
<1> QED BY <1>2, <1>5, <1>7 DEF M, c

\* What a page shows of such a list.
LEMMA SliceShows ==
  ASSUME ViewerTypes, sort.by = "sequence_number", NEW list \in Orders(Matching(filter), sort), NEW n \in Matching(filter),
         Offset < Place(n), Place(n) <= Offset + PerPage
  PROVE  n \in ToSet(Slice(list))
<1> DEFINE last == IF Offset + PerPage < Len(list) THEN Offset + PerPage ELSE Len(list)
<1>1. /\ Place(n) \in DOMAIN list /\ list[Place(n)] = n
      /\ DOMAIN list = 1..Cardinality(Matching(filter)) /\ Cardinality(Matching(filter)) \in Nat
  BY ListedInPlace, MatchingRows
<1>2. Len(list) \in Nat /\ DOMAIN list = 1..Len(list) /\ list \in Seq(Matching(filter))
  BY <1>1 DEF Orders, SetToSeqs
<1>3. Offset \in Nat /\ PerPage \in Nat
  BY ViewerAssumption DEF Offset, ViewerTypes
<1>4. last \in Int /\ Place(n) <= last /\ last <= Len(list)
  BY <1>1, <1>2, <1>3
<1>5. PICK o, k \in Nat : o = Offset /\ k = Place(n)
  BY <1>1, <1>3
<1> HIDE DEF last
<1>6. \A i \in (o + 1)..last : list[i] \in Matching(filter)
  BY <1>2, <1>4
<1>7. /\ SubSeq(list, o + 1, last) \in Seq(Matching(filter))
      /\ Len(SubSeq(list, o + 1, last)) = last - o
      /\ SubSeq(list, o + 1, last)[k - o] = list[k]
  BY <1>4, <1>5, <1>6, SubSeqProperties
<1>8. k - o \in DOMAIN SubSeq(list, o + 1, last)
  BY <1>4, <1>5, <1>7
<1>9. n \in ToSet(SubSeq(list, o + 1, last))
  BY <1>1, <1>5, <1>7, <1>8 DEF ToSet
<1> QED BY <1>5, <1>9 DEF Slice, last

\* Pages are counted up.
LEMMA PagesCount == ASSUME NEW count \in Nat PROVE PagesOf(count) \in Int
  BY ViewerAssumption DEF PagesOf

\* So many pages hold so many rows.
LEMMA PagesEnough ==
  ASSUME NEW count \in Nat, NEW p \in Nat, p >= PagesOf(count)
  PROVE  count <= p * PerPage
<1>1. PICK k \in Nat : k = PerPage /\ k > 0
  BY ViewerAssumption
<1>2. CASE count = 0
  BY <1>1, <1>2 DEF PagesOf
<1>3. CASE count # 0
  <2>1. PICK q, r \in Nat : count + k - 1 = q * k + r /\ r < k /\ q = (count + k - 1) \div k
    BY <1>1, <1>3
  <2>2. p >= q
    BY <1>1, <1>3, <2>1 DEF PagesOf
  <2>3. p * k >= q * k
    BY <1>1, <2>1, <2>2
  <2> QED BY <1>1, <1>3, <2>1, <2>3 DEF PagesOf
<1> QED BY <1>2, <1>3

\* More rows push no row to an earlier place, and make none due.
LEMMA LaterPlaces ==
  ASSUME ViewerTypes, ViewerTypes', NEW type \in RowTypes, events' = Append(events, type),
         UNCHANGED <<filter, sort, cut, atStart, cutAtStart>>
  PROVE  /\ \A n \in Due' : n \in Due /\ Place(n) <= Place(n)'
         /\ ~OfType(type, filter) => Matching(filter)' = Matching(filter)
<1>1. /\ DOMAIN events = 1..Len(events) /\ Len(events) \in Nat /\ DOMAIN events' = 1..(Len(events) + 1)
      /\ atStart <= Len(events) /\ atStart \in Nat /\ cut \subseteq DOMAIN events
      /\ events'[Len(events) + 1] = type /\ \A n \in DOMAIN events : events'[n] = events[n]
  BY DEF ViewerTypes
<1>2. Matching(filter) \subseteq Matching(filter)'
  BY <1>1 DEF Matching
<1>3. ASSUME NEW n \in Matching(filter)', n <= atStart PROVE n \in Matching(filter)
  BY <1>1, <1>3 DEF Matching, ViewerTypes
<1>4. ASSUME NEW n PROVE Place(n) <= Place(n)'
  <2>1. Before(n) \subseteq Before(n)'
    BY <1>2 DEF Before, InOrder
  <2>2. IsFiniteSet(Before(n)')
    <3>1. Before(n)' \in SUBSET (1..(Len(events) + 1))
      BY <1>1 DEF Before, Matching
    <3>2. IsFiniteSet(1..(Len(events) + 1))
      BY <1>1, FS_Interval
    <3> QED BY <3>1, <3>2, FS_Subset
  <2> QED BY <2>1, <2>2, FS_Subset DEF Place
<1>5. ASSUME NEW n PROVE MovedUp(n)' <=> MovedUp(n)
  BY <1>1 DEF MovedUp, InOrder
<1>6. \A n \in Due' : n \in Due
  BY <1>3, <1>5 DEF Due
<1>7. ASSUME ~OfType(type, filter) PROVE Matching(filter)' \subseteq Matching(filter)
  BY <1>1, <1>7 DEF Matching
<1> QED BY <1>2, <1>4, <1>6, <1>7

LEMMA ViewerInitial == ViewerInit => ViewerInv
<1> SUFFICES ASSUME ViewerInit PROVE ViewerInv
  OBVIOUS
<1>1. ViewerTypes
  <2>1. /\ events = << >> /\ Len(events) = 0 /\ events \in Seq(RowTypes) /\ aged = {} /\ cut = {} /\ atStart = 0
        /\ sort = [by |-> "sequence_number", descending |-> TRUE] /\ page = 1 /\ pages = 1
        /\ query = [step |-> "count", count |-> 0] /\ selected = {}
    BY DEF ViewerInit
  <2>2. /\ sort \in [by : Columns, descending : BOOLEAN]
        /\ query \in [step : {"none", "count", "select"}, count : Nat] /\ query.step # "none"
    BY <2>1 DEF Columns
  <2>3. atStart \in 0..Len(events) /\ aged \subseteq 1..Len(events)
    BY <2>1
  <2>4. disturbed \in BOOLEAN /\ grown \in BOOLEAN
    BY DEF ViewerInit
  <2>5. filter = [type |-> AllEvents, dated |-> FALSE]
    BY DEF ViewerInit
  <2>6. filter.dated \in BOOLEAN
    BY <2>5
  <2> QED BY <2>1, <2>2, <2>3, <2>4, <2>6 DEF ViewerTypes
<1>2. Paging
  BY DEF ViewerInit, Paging, Answered, NoQuery
<1> QED BY <1>1, <1>2 DEF ViewerInv

\* What was seen stays seen while rows are added.
LEMMA SeenStays ==
  ASSUME ViewerTypes, ViewerTypes', NEW type \in RowTypes, events' = Append(events, type),
         UNCHANGED <<filter, sort, cut, atStart, cutAtStart, visited>>, NEW p \in Nat
  PROVE  (Seen(p) => Seen(p)') /\ (AllSeen => AllSeen')
<1>1. \A n \in Due' : n \in Due /\ Place(n) <= Place(n)'
  BY LaterPlaces
<1>2. p * PerPage \in Nat
  BY ViewerAssumption
<1>3. ASSUME Seen(p), NEW n \in Due', Place(n)' <= p * PerPage PROVE n \in visited
  <2>1. PICK now, later : now = Place(n) /\ later = Place(n)'
    OBVIOUS
  <2>2. now \in Nat /\ later \in Nat
    <3>1. Before(n)' \in SUBSET (1..Len(events')) /\ Len(events') \in Nat
      BY DEF Before, Matching, ViewerTypes
    <3>2. IsFiniteSet(1..Len(events'))
      BY <3>1, FS_Interval
    <3>3. IsFiniteSet(Before(n)')
      BY <3>1, <3>2, FS_Subset
    <3> QED BY <2>1, <3>3, PlaceIsNatural, FS_CardinalityType DEF Place
  <2>3. now <= p * PerPage
    BY <1>1, <1>2, <1>3, <2>1, <2>2
  <2> QED BY <1>1, <1>3, <2>1, <2>3 DEF Seen
<1>4. Seen(p) => Seen(p)'
  BY <1>3 DEF Seen
<1>5. AllSeen => AllSeen'
  BY <1>1 DEF AllSeen
<1> QED BY <1>4, <1>5

LEMMA WriteEventInv == ASSUME ViewerInv, NEW type \in EventTypes, WriteEvent(type) PROVE ViewerInv'
<1>1. /\ events' = Append(events, type) /\ type \in RowTypes
      /\ grown' = (grown \/ (query.step = "select" /\ OfType(type, filter)))
      /\ UNCHANGED <<aged, filter, sort, page, query, cut, listed, pages, selected, visited, atStart,
                     cutAtStart, disturbed>>
  BY DEF WriteEvent, OfType, window, pastVars, RowTypes
<1>2. ViewerTypes'
  BY <1>1 DEF ViewerInv, ViewerTypes, OfType
<1>3. SUFFICES ASSUME ~disturbed, sort.by = "sequence_number"
               PROVE  /\ Answered => Seen(page)' /\ (page >= pages /\ ~grown' => AllSeen')
                      /\ ~Answered /\ page > 1 => Seen(page - 1)'
                      /\ query.step = "select" /\ ~grown' => query.count = Cardinality(Matching(filter)')
  BY <1>1, <1>2 DEF ViewerInv, Paging, Answered
<1>4. PICK p \in Nat : p = page
  BY DEF ViewerInv, ViewerTypes
<1>5. Seen(p)' <=> Seen(page)'
  BY <1>1, <1>4 DEF Seen
<1>6. p > 0 => (Seen(p - 1)' <=> Seen(page - 1)')
  BY <1>1, <1>4 DEF Seen
<1>7. Answered => Seen(p) /\ (page >= pages /\ ~grown => AllSeen)
  BY <1>3, <1>4 DEF ViewerInv, Paging
<1>8. ~Answered /\ page > 1 => Seen(p - 1)
  BY <1>3, <1>4 DEF ViewerInv, Paging
<1>9. /\ Seen(p) => Seen(p)'
      /\ AllSeen => AllSeen'
      /\ p > 0 => (Seen(p - 1) => Seen(p - 1)')
  <2>1. p > 0 => p - 1 \in Nat
    OBVIOUS
  <2> QED BY <1>1, <1>2, <2>1, SeenStays DEF ViewerInv
<1>10. ASSUME query.step = "select", ~grown' PROVE query.count = Cardinality(Matching(filter)')
  <2>1. ~grown /\ ~OfType(type, filter)
    BY <1>1, <1>10
  <2>2. Matching(filter)' = Matching(filter)
    BY <1>1, <1>2, <2>1, LaterPlaces DEF ViewerInv
  <2> QED BY <1>3, <1>10, <2>1, <2>2 DEF ViewerInv, Paging
<1>11. Answered => Seen(page)' /\ (page >= pages /\ ~grown' => AllSeen')
  BY <1>1, <1>5, <1>7, <1>9
<1>12. ~Answered /\ page > 1 => Seen(page - 1)'
  BY <1>4, <1>6, <1>8, <1>9
<1> QED BY <1>10, <1>11, <1>12

\* The step that fills the tree.
LEMMA SelectInv == ASSUME ViewerInv, Select PROVE ViewerInv'
<1>1. /\ query.step = "select" /\ pages' = PagesOf(query.count)
      /\ selected' = {} /\ query' = NoQuery
      /\ UNCHANGED <<events, aged, filter, sort, page, cut, grown, disturbed>>
  BY DEF Select
<1>2. PICK list \in Orders(Matching(filter), sort) : listed' = Slice(list)
  BY DEF Select
<1>3. IF page = 1 THEN visited' = ToSet(Slice(list)) /\ atStart' = Len(events) /\ cutAtStart' = cut
      ELSE visited' = visited \cup ToSet(Slice(list)) /\ atStart' = atStart /\ cutAtStart' = cutAtStart
  BY <1>2 DEF Select
<1>4. query.count \in Nat /\ page \in Nat \ {0} /\ Len(events) \in Nat
  BY DEF ViewerInv, ViewerTypes
<1>5. pages' \in Int
  <2>1. PICK count \in Nat : count = query.count
    BY <1>4
  <2> QED BY <1>1, <2>1, PagesCount
<1>6. ViewerTypes'
  BY <1>1, <1>3, <1>4, <1>5 DEF ViewerInv, ViewerTypes, NoQuery
<1>7. ~disturbed => cutAtStart' \subseteq cut
  BY <1>3, <1>4 DEF ViewerInv, Paging
<1> SUFFICES ASSUME ~disturbed, sort.by = "sequence_number"
             PROVE  Seen(page)' /\ (page >= pages' /\ ~grown => AllSeen')
  BY <1>1, <1>6, <1>7 DEF ViewerInv, Paging, Answered, NoQuery
<1>8. (~grown => query.count = Cardinality(Matching(filter))) /\ (page > 1 => Seen(page - 1))
  BY <1>1 DEF ViewerInv, Paging, Answered, NoQuery
<1>9. PerPage \in Nat /\ Offset = (page - 1) * PerPage /\ page * PerPage = Offset + PerPage /\ Offset \in Nat
      /\ (page = 1 => Offset = 0)
  BY <1>4, ViewerAssumption DEF Offset
<1>10. \A n \in Due' : n \in Matching(filter) /\ (page # 1 => n \in Due)
  BY <1>1, <1>3 DEF Due, MovedUp, InOrder, Matching
<1>11. ASSUME NEW n \in Due', Place(n) <= page * PerPage PROVE n \in visited'
  <2>1. Place(n) \in Nat /\ Place(n) > 0
    <3>1. PICK list2 \in Orders(Matching(filter), sort) : TRUE
      BY <1>2
    <3> QED BY <1>10, ListedInPlace, MatchingRows DEF ViewerInv
  <2>2. CASE Place(n) <= Offset
    <3>1. page # 1 /\ page > 1
      BY <1>4, <1>9, <2>1, <2>2
    <3>2. n \in visited
      BY <1>8, <1>9, <1>10, <2>2, <3>1 DEF Seen
    <3> QED BY <1>3, <3>1, <3>2
  <2>3. CASE Place(n) > Offset
    <3>1. n \in ToSet(Slice(list))
      BY <1>9, <1>10, <1>11, <2>1, <2>3, SliceShows DEF ViewerInv
    <3> QED BY <1>3, <3>1
  <2> QED BY <1>9, <2>1, <2>2, <2>3
<1>12. \A n : Place(n)' = Place(n)
  BY <1>1 DEF Place, Before, InOrder, Matching
<1>13. Seen(page)'
  BY <1>1, <1>11, <1>12 DEF Seen
<1>14. ASSUME page >= pages', ~grown PROVE AllSeen'
  <2>1. PICK c, p \in Nat : c = Cardinality(Matching(filter)) /\ p = page
    BY <1>4, <1>8, <1>14
  <2>2. c <= page * PerPage
    BY <1>1, <1>8, <1>14, <2>1, PagesEnough
  <2>3. ASSUME NEW n \in Matching(filter) PROVE Place(n) <= c
    BY <2>1, ListedInPlace, MatchingRows DEF ViewerInv
  <2>4. ASSUME NEW n \in Matching(filter) PROVE Place(n) <= page * PerPage
    BY <1>4, <1>9, <2>1, <2>2, <2>3, PlaceIsNatural DEF ViewerInv
  <2> QED BY <1>10, <1>11, <2>4 DEF AllSeen
<1> QED BY <1>13, <1>14

\* A row that is still due when others have left the dates of the filter is where it was.
LEMMA PlaceKept ==
  ASSUME ViewerTypes, cutAtStart \subseteq cut, cut \subseteq cut',
         UNCHANGED <<events, filter, sort, atStart, cutAtStart>>, NEW n \in Due'
  PROVE  n \in Due /\ Place(n)' = Place(n)
<1>1. n \in Due
  BY DEF Due, MovedUp, InOrder, Matching
<1>2. Before(n)' \subseteq Before(n)
  BY DEF Before, InOrder, Matching
<1>3. ASSUME NEW m \in Before(n) PROVE m \in Before(n)'
  <2>1. m \in DOMAIN events /\ m \notin cut /\ OfType(events[m], filter) /\ InOrder(m, n)
    BY DEF Before, Matching
  <2>2. m \notin cutAtStart /\ ~MovedUp(n)'
    BY <2>1 DEF Due
  <2>3. m \notin cut'
    BY <2>1, <2>2 DEF MovedUp, InOrder
  <2> QED BY <2>1, <2>3 DEF Before, InOrder, Matching
<1>4. Before(n)' = Before(n)
  BY <1>2, <1>3
<1> QED BY <1>1, <1>4 DEF Place

\* So is one up to an earlier page, and no row is due that was not.
LEMMA SeenKept ==
  ASSUME ViewerTypes, cutAtStart \subseteq cut, cut \subseteq cut',
         UNCHANGED <<events, filter, sort, atStart, cutAtStart, visited>>,
         NEW p \in Nat, NEW q \in Nat, q <= p, Seen(p)
  PROVE  Seen(q)'
<1>1. PICK k \in Nat : k = PerPage
  BY ViewerAssumption
<1>2. q * k <= p * k /\ q * k \in Nat /\ p * k \in Nat
  BY <1>1
<1>3. ASSUME NEW n \in Due', Place(n)' <= q * PerPage PROVE n \in visited
  <2>1. n \in Due /\ Place(n)' = Place(n)
    BY PlaceKept
  <2>2. Place(n) <= p * PerPage
    BY <1>1, <1>2, <1>3, <2>1, PlaceIsNatural
  <2> QED BY <2>1, <2>2 DEF Seen
<1> QED BY <1>3 DEF Seen

\* A page is asked for: the first one of any list, or one up to the next of the same list.
LEMMA LoadInv ==
  ASSUME ViewerInv, Answered, Load, UNCHANGED events, NEW new \in Nat \ {0}, page' = new,
         sort' \in [by : Columns, descending : BOOLEAN],
         filter'.dated \in BOOLEAN, new = 1 \/ (new <= page + 1 /\ UNCHANGED <<filter, sort>>)
  PROVE  ViewerInv'
<1>0. disturbed \in BOOLEAN /\ page \in Nat \ {0}
  BY DEF ViewerInv, ViewerTypes
<1>1. /\ query' = [step |-> "count", count |-> 0] /\ ~Answered'
      /\ cut' = IF filter'.dated THEN aged ELSE {}
      /\ grown' = FALSE /\ disturbed' = (disturbed /\ new # 1)
      /\ IF new = 1 THEN visited' = {} /\ atStart' = 0 /\ cutAtStart' = {}
         ELSE UNCHANGED <<visited, atStart, cutAtStart>>
      /\ UNCHANGED <<aged, listed, pages, selected, events>>
  BY DEF Load, Answered, NoQuery, window, StartHistory, pastVars
<1>2. ViewerTypes'
  <2>1. /\ page' \in Nat \ {0} /\ atStart' \in 0..Len(events') /\ cut' \subseteq aged'
        /\ disturbed' \in BOOLEAN
    BY <1>0, <1>1 DEF ViewerInv, ViewerTypes
  <2> QED BY <1>1, <2>1 DEF ViewerInv, ViewerTypes
<1>3. filter'.dated \/ cut' = {}
  BY <1>1
<1>4. ASSUME ~disturbed', new > 1
      PROVE  /\ cutAtStart' \subseteq cut'
             /\ sort'.by = "sequence_number" => Seen(page - 1)'
  <2>1. new # 1
    BY <1>4
  <2>2. ~disturbed /\ UNCHANGED <<filter, sort, visited, atStart, cutAtStart>> /\ new <= page + 1
    BY <1>0, <1>1, <1>4, <2>1
  <2>3. cutAtStart \subseteq cut /\ cut \subseteq cut'
    BY <1>1, <2>2 DEF ViewerInv, ViewerTypes, Paging
  <2>4. PICK p, q \in Nat : p = page /\ q = new - 1
    BY <1>0, <2>1
  <2>5. q <= p
    BY <2>2, <2>4
  <2>6. sort.by = "sequence_number" => Seen(p)
    BY <2>2, <2>4 DEF ViewerInv, Paging
  <2>7. sort.by = "sequence_number" => Seen(q)'
    BY <1>1, <2>2, <2>3, <2>5, <2>6, SeenKept DEF ViewerInv
  <2>8. Seen(q)' => Seen(page - 1)'
    BY <2>4 DEF Seen
  <2> QED BY <2>2, <2>3, <2>7, <2>8
<1>5. Paging'
  BY <1>1, <1>3, <1>4 DEF Paging
<1> QED BY <1>2, <1>5 DEF ViewerInv

\* The export writes an event and loads the same page again.
LEMMA ExportAllInv == ASSUME ViewerInv, ExportLog PROVE ViewerInv'
<1>0. disturbed \in BOOLEAN /\ filter.dated \in BOOLEAN
  BY DEF ViewerInv, ViewerTypes
<1>1. /\ Answered /\ events' = Append(events, Exported) /\ Exported \in RowTypes
      /\ query' = [step |-> "count", count |-> 0] /\ ~Answered'
      /\ cut' = IF filter.dated THEN aged ELSE {}
      /\ grown' = FALSE /\ disturbed' = (disturbed /\ page # 1)
      /\ IF page = 1 THEN visited' = {} /\ atStart' = 0 /\ cutAtStart' = {}
         ELSE UNCHANGED <<visited, atStart, cutAtStart>>
      /\ UNCHANGED <<aged, filter, sort, page, listed, pages, selected>>
  BY DEF ExportLog, Load, Answered, NoQuery, window, StartHistory, pastVars, RowTypes
<1>2. Len(events) \in Nat /\ Len(events') = Len(events) + 1 /\ page \in Nat \ {0}
      /\ DOMAIN events = 1..Len(events) /\ DOMAIN events' = 1..(Len(events) + 1)
      /\ atStart \in 0..Len(events) /\ aged \subseteq DOMAIN events /\ cut \subseteq aged
      /\ \A n \in DOMAIN events : events'[n] = events[n]
  BY <1>1 DEF ViewerInv, ViewerTypes
<1>3. ViewerTypes'
  <2>1. atStart' \in 0..Len(events') /\ cut' \subseteq aged' /\ aged' \subseteq 1..Len(events')
    <3>1. atStart' \in {0, atStart} /\ cut' \in {aged, {}}
      BY <1>1
    <3> QED BY <1>1, <1>2, <3>1
  <2>2. disturbed' \in BOOLEAN
    BY <1>0, <1>1
  <2>3. events' \in Seq(RowTypes) /\ selected' \subseteq ToSet(listed')
    BY <1>1 DEF ViewerInv, ViewerTypes
  <2>4. query' \in [step : {"none", "count", "select"}, count : Nat] /\ query'.step # "none"
    BY <1>1
  <2>5. sort' \in [by : Columns, descending : BOOLEAN] /\ page' \in Nat \ {0} /\ pages' \in Int
        /\ filter'.dated \in BOOLEAN /\ grown' \in BOOLEAN
    BY <1>0, <1>1 DEF ViewerInv, ViewerTypes
  <2> QED BY <2>1, <2>2, <2>3, <2>4, <2>5 DEF ViewerTypes
<1>4. filter'.dated \/ cut' = {}
  BY <1>1
<1>5. ASSUME ~disturbed, page > 1 PROVE cutAtStart' \subseteq cut'
  BY <1>1, <1>5 DEF ViewerInv, ViewerTypes, Paging
<1>6. ASSUME ~disturbed, page > 1, sort.by = "sequence_number" PROVE Seen(page - 1)'
  <2>1. PICK p, q \in Nat : p = page /\ q = page - 1
    BY <1>2
  <2>2. Seen(p) /\ cutAtStart \subseteq cut /\ cut \subseteq cut'
        /\ UNCHANGED <<visited, atStart, cutAtStart>>
    <3>1. page # 1
      BY <1>2, <1>6
    <3>2. Seen(page) /\ cutAtStart \subseteq cut /\ (filter.dated \/ cut = {})
      BY <1>1, <1>6 DEF ViewerInv, Paging
    <3>3. Seen(p)
      BY <2>1, <3>2
    <3> QED BY <1>1, <1>2, <3>1, <3>2, <3>3
  <2>3. ASSUME NEW n \in Due' PROVE n \in Due /\ Place(n) \in Nat /\ Place(n)' \in Nat /\ Place(n) <= Place(n)'
    <3>1. n \in Due
      <4>1. n \in Matching(filter)' /\ n <= atStart /\ ~MovedUp(n)'
        BY <2>2 DEF Due
      <4>2. n \in Matching(filter)
        BY <1>1, <1>2, <2>2, <4>1 DEF Matching
      <4>3. \A m \in cut : events'[m] = events[m]
        BY <1>2
      <4>4. ~MovedUp(n)
        BY <1>1, <2>2, <4>1, <4>3 DEF MovedUp, InOrder
      <4> QED BY <4>1, <4>2, <4>4 DEF Due
    <3>2. ASSUME NEW m \in Before(n) PROVE m \in Before(n)'
      <4>1. m \in DOMAIN events /\ m \notin cut /\ OfType(events[m], filter) /\ InOrder(m, n)
        BY DEF Before, Matching
      <4>2. m \notin cutAtStart /\ ~MovedUp(n)'
        BY <2>2, <4>1 DEF Due
      <4>3. m \in DOMAIN events' /\ events'[m] = events[m]
        BY <1>2, <4>1
      <4>4. m \notin cut'
        BY <1>1, <2>2, <4>1, <4>2, <4>3 DEF MovedUp, InOrder
      <4> QED BY <1>1, <4>1, <4>3, <4>4 DEF Before, InOrder, Matching
    <3>3. Before(n)' \in SUBSET (1..(Len(events) + 1))
      BY <1>2 DEF Before, Matching
    <3>4. IsFiniteSet(1..(Len(events) + 1))
      BY <1>2, FS_Interval
    <3>5. IsFiniteSet(Before(n)')
      BY <3>3, <3>4, FS_Subset
    <3>6. Before(n) \subseteq Before(n)'
      BY <3>2
    <3> QED BY <3>1, <3>5, <3>6, FS_Subset, FS_CardinalityType DEF Place
  <2>4. PICK k \in Nat : k = PerPage
    BY ViewerAssumption
  <2>5. q * k <= p * k /\ q * k \in Nat /\ p * k \in Nat
    BY <2>1, <2>4
  <2>6. ASSUME NEW n \in Due', Place(n)' <= q * PerPage PROVE n \in visited
    <3>1. Place(n) <= p * PerPage
      <4>1. PICK now, later \in Nat : now = Place(n) /\ later = Place(n)'
        BY <2>3
      <4> QED BY <2>3, <2>4, <2>5, <2>6, <4>1
    <3> QED BY <2>2, <2>3, <3>1 DEF Seen
  <2>7. Seen(q)'
    BY <2>2, <2>6 DEF Seen
  <2> QED BY <1>1, <2>1, <2>7 DEF Seen
<1>7. Paging'
  BY <1>0, <1>1, <1>4, <1>5, <1>6 DEF Paging
<1> QED BY <1>3, <1>7 DEF ViewerInv

\* A step that leaves the list and what was seen of it alone.
LEMMA ListKeptInv ==
  ASSUME ViewerInv, ViewerTypes',
         UNCHANGED <<events, filter, sort, page, pages, query, cut, pastVars, grown, disturbed>>
  PROVE  ViewerInv'
<1>1. /\ events' = events /\ filter' = filter /\ sort' = sort /\ page' = page /\ pages' = pages
      /\ query' = query /\ cut' = cut /\ visited' = visited /\ atStart' = atStart
      /\ cutAtStart' = cutAtStart /\ grown' = grown /\ disturbed' = disturbed
  BY DEF pastVars
<1>2. Matching(filter)' = Matching(filter) /\ Due' = Due /\ \A n : Place(n)' = Place(n)
  BY <1>1 DEF Due, MovedUp, InOrder, Matching, Place, Before
<1>3. Paging'
  BY <1>1, <1>2 DEF ViewerInv, Paging, Answered, Seen, AllSeen
<1> QED BY <1>3 DEF ViewerInv

LEMMA ViewerStep == ViewerInv /\ [ViewerNext]_viewerVars => ViewerInv'
<1> SUFFICES ASSUME ViewerInv, [ViewerNext]_viewerVars PROVE ViewerInv'
  OBVIOUS
<1>1. CASE UNCHANGED viewerVars
  BY <1>1, ListKeptInv DEF viewerVars, pageVars, pastVars, ViewerInv, ViewerTypes
<1>2. CASE Count
  <2>1. /\ query.step = "count" /\ query' = [step |-> "select", count |-> Cardinality(Matching(filter))]
        /\ UNCHANGED <<events, aged, filter, sort, page, cut, listed, pages, selected, visited, atStart,
                       cutAtStart, grown, disturbed>>
    BY <1>2 DEF Count, window, pastVars
  <2>2. ViewerTypes'
    BY <2>1, MatchingRows DEF ViewerInv, ViewerTypes
  <2>3. ~Answered /\ ~Answered'
    BY <2>1 DEF Answered, NoQuery
  <2>4. Matching(filter)' = Matching(filter) /\ Due' = Due /\ \A n : Place(n)' = Place(n)
    BY <2>1 DEF Due, MovedUp, InOrder, Matching, Place, Before
  <2>5. Paging'
    BY <2>1, <2>3, <2>4 DEF ViewerInv, Paging, Seen
  <2> QED BY <2>2, <2>5 DEF ViewerInv
<1>3. CASE QueryFails
  <2>1. ViewerTypes'
    BY <1>3 DEF QueryFails, StartHistory, window, NoQuery, ViewerInv, ViewerTypes
  <2> QED BY <1>3, <2>1 DEF QueryFails, ViewerInv, Paging
<1>4. ASSUME NEW f \in [type : EventTypes \cup {AllEvents}, dated : BOOLEAN], TypeFilter(f) PROVE ViewerInv'
  <2>1. ViewerTypes'
    BY <1>4 DEF TypeFilter, StartHistory, window, ViewerInv, ViewerTypes
  <2> QED BY <1>4, <2>1 DEF TypeFilter, ViewerInv, Paging
<1>5. ASSUME NEW n, SelectRow(n) PROVE ViewerInv'
  <2>1. ViewerTypes'
    BY <1>5 DEF SelectRow, ViewerInv, ViewerTypes, pastVars
  <2> QED BY <1>5, <2>1, ListKeptInv DEF SelectRow
<1>6. ASSUME NEW n \in DOMAIN events, Age(n) PROVE ViewerInv'
  <2>1. DOMAIN events = 1..Len(events)
    BY DEF ViewerInv, ViewerTypes
  <2>2. ViewerTypes'
    BY <1>6, <2>1 DEF Age, ViewerInv, ViewerTypes, pageVars, pastVars
  <2> QED BY <1>6, <2>2, ListKeptInv DEF Age, pageVars
<1>7. /\ page \in Nat \ {0} /\ sort \in [by : Columns, descending : BOOLEAN] /\ 1 \in Nat \ {0}
      /\ filter.dated \in BOOLEAN
  BY DEF ViewerInv, ViewerTypes
<1>8. ASSUME NEW f \in [type : EventTypes \cup {AllEvents}, dated : BOOLEAN], ResetAndLoad(f) PROVE ViewerInv'
  BY <1>7, <1>8, LoadInv DEF ResetAndLoad
<1>9. CASE Reload
  <2>1. page <= page + 1
    BY <1>7
  <2> QED BY <1>7, <1>9, <2>1, LoadInv DEF Reload
<1>10. ASSUME NEW column \in Columns, ChangeSort(column) PROVE ViewerInv'
  <2>1. sort' \in [by : Columns, descending : BOOLEAN]
    BY <1>7, <1>10 DEF ChangeSort
  <2> QED BY <1>7, <1>10, <2>1, LoadInv DEF ChangeSort
<1>11. CASE PageBack
  <2>1. page - 1 \in Nat \ {0} /\ page - 1 <= page + 1
    BY <1>7, <1>11 DEF PageBack
  <2> QED BY <1>7, <1>11, <2>1, LoadInv DEF PageBack
<1>12. CASE PageForward
  <2>1. page + 1 \in Nat \ {0} /\ page + 1 <= page + 1
    BY <1>7
  <2> QED BY <1>7, <1>12, <2>1, LoadInv DEF PageForward
<1> QED BY <1>1, <1>2, <1>3, <1>4, <1>5, <1>6, <1>8, <1>9, <1>10, <1>11, <1>12, WriteEventInv, SelectInv, ExportAllInv DEF ViewerNext

\* For any page size, however the log grows and whatever leaves the dates of the filter: who pages through the log in
\* the order it was written in has seen every event due up to the page shown, and on the last page all of them.  Not
\* due is an event before which another left the dates of the filter meanwhile; the last page is exempted if a
\* matching event was written between its count and its selection, and so is paging after a failed query or with a
\* filter that was only typed.
THEOREM WholeLogSeen == ViewerSpec => []NothingSkipped
<1>1. ViewerInv => NothingSkipped
  BY DEF ViewerInv, ViewerTypes, Paging, Seen, AllSeen, NothingSkipped
<1> QED BY <1>1, ViewerInitial, ViewerStep, PTL DEF ViewerSpec
--------------------------------------------------------------------------------
\* PasswordGenerator

\* A candidate for groups g of length k: a character of each group, and no other.
Candidate(p, g, k) ==
  /\ k \in Nat /\ p \in [1..k -> UNION ToSet(g)]
  /\ \A n \in DOMAIN g : \E i \in 1..k : p[i] \in g[n]

Jobs(g, p) == [step : {"rest", "choose", "shuffle", "judge"}, length : Nat, groups : {g}, chars : {p}, at : Int, tries : Nat]

\* Between the choice and the judgement a job has a candidate.
JobSound ==
  /\ job \in Jobs(job.groups, job.chars)
  /\ job.step # "rest" => DOMAIN job.groups \subseteq 1..job.length
  /\ job.step \in {"shuffle", "judge"} => Candidate(job.chars, job.groups, job.length)
  /\ job.step = "shuffle" => job.at \in 0..job.length

HistorySound == history \in Seq(ToSet(history)) /\ Len(history) <= HistorySize

\* What was given out is a strong candidate for what was asked, and new when it was.
Delivered(d) ==
  Candidate(d.password, d.groups, d.length) /\ Score(d.password) >= Strong /\ d.password \notin ToSet(d.recent)

GeneratorInv == JobSound /\ HistorySound /\ \A n \in DOMAIN delivered : Delivered(delivered[n])

\* A job that rests has no candidate.
LEMMA RestSound == ASSUME job' = Rest PROVE JobSound'
  BY DEF Rest, JobSound, Jobs

LEMMA EmptyHistory == ASSUME history' = << >> PROVE HistorySound'
  BY GeneratorAssumption DEF HistorySound, ToSet

\* Swapping two places loses no character and brings none in.
LEMMA SwapKeeps ==
  ASSUME NEW g, NEW k, NEW p, Candidate(p, g, k), NEW i \in 1..k, NEW j \in 1..k
  PROVE  Candidate(Swap(p, i, j), g, k)
<1> DEFINE q == Swap(p, i, j)
<1>1. /\ q \in [1..k -> UNION ToSet(g)]
      /\ q[i] = p[j] /\ q[j] = p[i]
      /\ \A m \in 1..k : m # i /\ m # j => q[m] = p[m]
  BY DEF Swap, Candidate
<1> HIDE DEF q
<1>2. ASSUME NEW n \in DOMAIN g PROVE \E m \in 1..k : q[m] \in g[n]
  <2>1. PICK m \in 1..k : p[m] \in g[n]
    BY DEF Candidate
  <2>2. \E l \in 1..k : q[l] = p[m]
    BY <1>1
  <2> QED BY <2>1, <2>2
<1> QED BY <1>1, <1>2 DEF Candidate, q

\* A remembered password pushes out the oldest when the history is full.
LEMMA RememberSound == ASSUME HistorySound, NEW p, history' = Remember(p) PROVE HistorySound'
<1> DEFINE S == ToSet(history) \cup {p}
<1>1. history \in Seq(S) /\ Len(history) \in Nat /\ Len(history) <= HistorySize
  BY SeqMonotonic DEF HistorySound
<1> HIDE DEF S
<1>2. p \in S
  BY DEF S
<1>3. history' \in Seq(S) /\ Len(history') <= HistorySize
  <2>1. CASE Len(history) < HistorySize
    BY <1>1, <1>2, <2>1, GeneratorAssumption DEF Remember
  <2>2. CASE ~(Len(history) < HistorySize)
    <3>1. history # << >> /\ Tail(history) \in Seq(S) /\ Len(Tail(history)) = Len(history) - 1
      BY <1>1, <2>2, GeneratorAssumption
    <3> QED BY <1>1, <1>2, <2>2, <3>1 DEF Remember
  <2> QED BY <2>1, <2>2
<1>4. history' \in Seq(ToSet(history'))
  <2>1. history' \in [1..Len(history') -> ToSet(history')]
    BY <1>3 DEF ToSet
  <2> QED BY <1>3, <2>1, SeqDef
<1> QED BY <1>3, <1>4 DEF HistorySound

LEMMA GeneratorInitial == GeneratorInit => GeneratorInv
<1> SUFFICES ASSUME GeneratorInit PROVE GeneratorInv
  OBVIOUS
<1>1. job = Rest /\ history = << >> /\ delivered = << >>
  BY DEF GeneratorInit
<1>2. JobSound
  BY <1>1 DEF Rest, JobSound, Jobs
<1>3. HistorySound
  BY <1>1, GeneratorAssumption DEF HistorySound
<1> QED BY <1>1, <1>2, <1>3 DEF GeneratorInv

\* What the type of a job says of its fields.
LEMMA JobFields ==
  ASSUME NEW g, NEW p, NEW j \in Jobs(g, p)
  PROVE  j.groups = g /\ j.chars = p /\ j.length \in Nat /\ j.at \in Int /\ j.tries \in Nat
  BY DEF Jobs

LEMMA GenerateInv ==
  ASSUME GeneratorInv, NEW length \in Lengths, NEW chosen, NEW exclude, Generate(length, chosen, exclude)
  PROVE  GeneratorInv'
<1> DEFINE groups == BuildGroups(chosen, exclude)
           next == [Rest EXCEPT !.step = "choose", !.length = length, !.groups = groups]
<1>1. DOMAIN groups \subseteq 1..length /\ job' = next /\ delivered' = << >> /\ history' = history
  BY DEF Generate, Possible
<1> HIDE DEF groups
<1>2. /\ next \in Jobs(groups, << >>)
      /\ next.step = "choose" /\ next.length = length /\ next.groups = groups /\ next.chars = << >>
  <2>1. Rest \in Jobs(<< >>, << >>)
    BY DEF Rest, Jobs
  <2>2. length \in Nat
    BY GeneratorAssumption
  <2>3. next.step = "choose" /\ next.length = length /\ next.groups = groups /\ next.chars = << >>
    BY <2>1 DEF Jobs
  <2>4. next \in Jobs(groups, << >>)
    BY <2>1, <2>2 DEF Jobs
  <2> QED BY <2>3, <2>4
<1> HIDE DEF next
<1>3. JobSound'
  BY <1>1, <1>2 DEF JobSound
<1> QED BY <1>1, <1>3 DEF GeneratorInv, HistorySound

LEMMA ChooseInv == ASSUME GeneratorInv, Choose PROVE GeneratorInv'
<1>1. PICK g, c, k : g = job.groups /\ c = job.chars /\ k = job.length
  OBVIOUS
<1>2. job \in Jobs(g, c) /\ DOMAIN g \subseteq 1..k /\ k \in Nat /\ UNCHANGED <<history, delivered>>
  BY <1>1 DEF Choose, GeneratorInv, JobSound, Jobs
<1>3. PICK p \in [1..k -> UNION ToSet(g)] :
        /\ \A n \in DOMAIN g : p[n] \in g[n]
        /\ job' = [job EXCEPT !.step = "shuffle", !.chars = p, !.at = k]
  BY <1>1 DEF Choose
<1>4. Candidate(p, g, k)
  BY <1>2, <1>3 DEF Candidate
<1>5. /\ job' \in Jobs(g, p) /\ job'.step = "shuffle" /\ job'.chars = p /\ job'.at = k /\ job'.length = k
      /\ job'.groups = g
  <2>1. PICK j, n : j = job /\ n = job'
    OBVIOUS
  <2>2. j \in Jobs(g, c) /\ k \in Int /\ n = [j EXCEPT !.step = "shuffle", !.chars = p, !.at = k] /\ j.length = k
    BY <1>1, <1>2, <1>3, <2>1
  <2>3. n \in Jobs(g, p) /\ n.step = "shuffle" /\ n.at = k /\ n.length = k
    BY <2>2 DEF Jobs
  <2> QED BY <2>1, <2>3, JobFields
<1>6. JobSound'
  BY <1>2, <1>4, <1>5 DEF JobSound
<1> QED BY <1>2, <1>6 DEF GeneratorInv, HistorySound

LEMMA ShuffleInv == ASSUME GeneratorInv, Shuffle PROVE GeneratorInv'
<1>1. PICK g, c, k, m : g = job.groups /\ c = job.chars /\ k = job.length /\ m = job.at
  OBVIOUS
<1>2. /\ job \in Jobs(g, c) /\ Candidate(c, g, k) /\ k \in Nat /\ m \in 0..k /\ DOMAIN g \subseteq 1..k
      /\ job.step = "shuffle" /\ UNCHANGED <<history, delivered>>
  BY <1>1 DEF Shuffle, GeneratorInv, JobSound, Jobs
<1>3. CASE m < 2
  <2>1. job' = [job EXCEPT !.step = "judge"]
    BY <1>1, <1>3 DEF Shuffle
  <2>2. job' \in Jobs(g, c) /\ job'.step = "judge" /\ job'.chars = c /\ job'.length = k /\ job'.groups = g
    BY <1>1, <1>2, <2>1 DEF Jobs
  <2>3. JobSound'
    BY <1>2, <2>2 DEF JobSound
  <2> QED BY <1>2, <2>3 DEF GeneratorInv, HistorySound
<1>4. CASE ~(m < 2)
  <2>1. PICK j \in 1..m : job' = [job EXCEPT !.chars = Swap(c, m, j), !.at = m - 1]
    BY <1>1, <1>4 DEF Shuffle
  <2>2. PICK q : q = Swap(c, m, j)
    OBVIOUS
  <2>3. Candidate(q, g, k)
    BY <1>2, <1>4, <2>2, SwapKeeps
  <2>4. job' = [job EXCEPT !.chars = q, !.at = m - 1]
    BY <2>1, <2>2
  <2>5. /\ job' \in Jobs(g, q) /\ job'.step = "shuffle" /\ job'.chars = q /\ job'.length = k /\ job'.groups = g
        /\ job'.at = m - 1
    <3>1. PICK i, n : i = job /\ n = job'
      OBVIOUS
    <3>2. i \in Jobs(g, c) /\ m - 1 \in Int /\ n = [i EXCEPT !.chars = q, !.at = m - 1] /\ i.length = k /\ i.step = "shuffle"
      BY <1>1, <1>2, <2>4, <3>1
    <3>3. n \in Jobs(g, q) /\ n.step = "shuffle" /\ n.at = m - 1 /\ n.length = k
      BY <3>2 DEF Jobs
    <3> QED BY <3>1, <3>3, JobFields
  <2>6. JobSound'
    BY <1>2, <1>4, <2>3, <2>5 DEF JobSound
  <2> QED BY <1>2, <2>6 DEF GeneratorInv, HistorySound
<1> QED BY <1>3, <1>4

LEMMA JudgeInv == ASSUME GeneratorInv, Judge PROVE GeneratorInv'
<1>1. PICK g, c, k : g = job.groups /\ c = job.chars /\ k = job.length
  OBVIOUS
<1>2. job \in Jobs(g, c) /\ Candidate(c, g, k) /\ DOMAIN g \subseteq 1..k
  BY <1>1 DEF Judge, GeneratorInv, JobSound
<1> DEFINE made == [password |-> c, groups |-> g, length |-> k, recent |-> history]
<1>3. CASE Score(c) >= Strong /\ c \notin ToSet(history)
  <2>1. history' = Remember(c) /\ delivered' = <<made>> /\ job' = Rest
    BY <1>1, <1>3 DEF Judge
  <2>2. Delivered(made)
    BY <1>2, <1>3 DEF Delivered
  <2> HIDE DEF made
  <2>3. \A n \in DOMAIN delivered' : Delivered(delivered'[n])
    BY <2>1, <2>2
  <2>4. HistorySound' /\ JobSound'
    BY <2>1, RememberSound, RestSound DEF GeneratorInv
  <2> QED BY <2>3, <2>4 DEF GeneratorInv
<1>4. CASE ~(Score(c) >= Strong /\ c \notin ToSet(history))
  <2>1. /\ UNCHANGED <<history, delivered>>
        /\ job' = [job EXCEPT !.step = "choose", !.tries = @ + 1] \/ job' = Rest
    BY <1>1, <1>4 DEF Judge
  <2>2. CASE job' = Rest
    BY <2>1, <2>2, RestSound DEF GeneratorInv, HistorySound
  <2>3. CASE job' = [job EXCEPT !.step = "choose", !.tries = @ + 1]
    <3>1. job' \in Jobs(g, c) /\ job'.step = "choose" /\ job'.length = k /\ job'.groups = g /\ job'.chars = c
      <4>1. PICK m \in Nat : m = job.tries + 1
        BY <1>2, JobFields
      <4>2. job' = [job EXCEPT !.step = "choose", !.tries = m]
        BY <2>3, <4>1
      <4>3. PICK j, n : j = job /\ n = job'
        OBVIOUS
      <4>4. j \in Jobs(g, c) /\ n = [j EXCEPT !.step = "choose", !.tries = m] /\ j.length = k
        BY <1>1, <1>2, <4>2, <4>3
      <4>5. n \in Jobs(g, c) /\ n.step = "choose" /\ n.length = k
        BY <4>4 DEF Jobs
      <4> QED BY <4>3, <4>5, JobFields
    <3>2. JobSound'
      BY <1>2, <3>1 DEF JobSound
    <3> QED BY <2>1, <3>2 DEF GeneratorInv, HistorySound
  <2> QED BY <2>1, <2>2, <2>3
<1> QED BY <1>3, <1>4

LEMMA GeneratorStep == GeneratorInv /\ [GeneratorNext]_generatorVars => GeneratorInv'
<1> SUFFICES ASSUME GeneratorInv, [GeneratorNext]_generatorVars PROVE GeneratorInv'
  OBVIOUS
<1>1. CASE UNCHANGED generatorVars
  BY <1>1 DEF generatorVars, GeneratorInv, JobSound, HistorySound
<1>2. CASE ClearHistory
  BY <1>2, EmptyHistory DEF ClearHistory, GeneratorInv, JobSound
<1> QED BY <1>1, <1>2, GenerateInv, ChooseInv, ShuffleInv, JudgeInv DEF GeneratorNext

\* For any alphabets, lengths and tries: what is given out has the length and a character of each group asked for and
\* no other, is strong, and is none of the remembered passwords.
THEOREM GoodPasswords == GeneratorSpec => []GeneratorSound
<1>1. ASSUME NEW d, Delivered(d)
      PROVE  /\ Len(d.password) = d.length /\ ToSet(d.password) \subseteq UNION ToSet(d.groups)
             /\ \A g \in ToSet(d.groups) : ToSet(d.password) \cap g # {}
             /\ Score(d.password) >= Strong /\ d.password \notin ToSet(d.recent)
  BY <1>1 DEF Delivered, Candidate, ToSet
<1>2. GeneratorInv => GeneratorSound
  BY <1>1 DEF GeneratorInv, HistorySound, GeneratorSound
<1> QED BY <1>2, GeneratorInitial, GeneratorStep, PTL DEF GeneratorSpec
--------------------------------------------------------------------------------
\* SearchTable

\* The first so many of v, place by place.
Begins(s, v) == Len(s) <= Len(v) /\ \A i \in 1..Len(s) : s[i] = v[i]

SearchTypes == rows \in Seq(Items) /\ loaded \in Seq(Items) /\ index \in Seq(Items)

\* A locked window holds nothing.
Emptied == ~unlocked => loaded = << >> /\ index = << >> /\ shown = << >>

\* As long as no query failed, the count is right and the pages are the first ones.
Counted == unlocked /\ ~behind => total = Len(rows) /\ Begins(loaded, rows)

\* What is loaded is what is indexed, unless a new index is still empty.
Indexed == (index = loaded \/ index = << >>) /\ (~unindexed => index = loaded)

\* The table shows what the last search found, and that search loaded all there is.
Found == unlocked /\ ~typed /\ index = loaded => shown = Search(loaded, text, category)
Whole == unlocked /\ ~typed /\ ~partial /\ ~behind /\ text # Blank => loaded = rows

SearchInv == SearchTypes /\ Emptied /\ Counted /\ Indexed /\ Found /\ Whole

\* More pages of a vault continue its beginning.
LEMMA PagesContinue ==
  ASSUME NEW v \in Seq(Items), NEW list \in Seq(Items), NEW k \in Nat
  PROVE  MorePages(v, list, k) \in Seq(Items) /\ (Begins(list, v) => Begins(MorePages(v, list, k), v))
<1> DEFINE upto == Len(list) + k * PageSize
           last == IF upto < Len(v) THEN upto ELSE Len(v)
           more == SubSeq(v, Len(list) + 1, last)
<1>1. PICK n, m, q \in Nat : n = Len(list) /\ m = Len(v) /\ q = k * PageSize
  BY SearchAssumption
<1>2. last \in Nat /\ last <= m /\ (last = n + q \/ last = m) /\ (n <= m => n <= last)
  BY <1>1
<1> HIDE DEF last
<1>3. \A i \in (n + 1)..last : v[i] \in Items
  BY <1>1, <1>2
<1>4. /\ more \in Seq(Items) /\ Len(more) = IF n + 1 <= last THEN last - n ELSE 0
      /\ \A i \in 1..(last - n) : more[i] = v[n + i]
  BY <1>1, <1>2, <1>3, SubSeqProperties
<1> HIDE DEF more
<1>5. MorePages(v, list, k) = list \o more
  BY DEF MorePages, more, last
<1>6. list \o more \in Seq(Items)
  BY <1>4
<1>7. ASSUME Begins(list, v) PROVE Begins(list \o more, v)
  <2>1. n <= m /\ n <= last /\ Len(more) = last - n /\ Len(list \o more) = last
    BY <1>1, <1>2, <1>4, <1>7 DEF Begins
  <2>2. ASSUME NEW i \in 1..last PROVE (list \o more)[i] = v[i]
    <3>1. CASE i <= n
      BY <1>1, <1>4, <1>7, <2>1, <3>1 DEF Begins
    <3>2. CASE i > n
      <4>1. (list \o more)[i] = more[i - n] /\ i - n \in 1..(last - n)
        BY <1>1, <1>2, <1>4, <2>1, <3>2
      <4>2. more[i - n] = v[n + (i - n)]
        BY <1>4, <4>1
      <4> QED BY <1>1, <4>1, <4>2
    <3>3. i <= n \/ i > n
      BY <1>1, <1>2
    <3> QED BY <3>1, <3>2, <3>3
  <2> QED BY <1>1, <1>2, <2>1, <2>2 DEF Begins
<1> QED BY <1>5, <1>6, <1>7

\* The two ways to say it agree, and a beginning as long as the whole is the whole.
LEMMA BeginningIsPrefix ==
  ASSUME NEW s \in Seq(Items), NEW v \in Seq(Items), Begins(s, v)
  PROVE  IsPrefix(s, v) /\ (Len(s) >= Len(v) => s = v)
<1>1. Len(s) \in Nat /\ Len(v) \in Nat /\ Len(s) <= Len(v) /\ \A i \in 1..Len(s) : s[i] = v[i]
  BY DEF Begins
<1>2. \A i \in 1..Len(s) : v[i] \in Items
  BY <1>1
<1>3. SubSeq(v, 1, Len(s)) = s
  <2>1. /\ SubSeq(v, 1, Len(s)) \in Seq(Items) /\ Len(SubSeq(v, 1, Len(s))) = Len(s)
        /\ \A i \in 1..Len(s) : SubSeq(v, 1, Len(s))[i] = v[i]
    BY <1>1, <1>2, SubSeqProperties
  <2> QED BY <1>1, <2>1, SeqEqual
<1>4. Len(s) >= Len(v) => s = v
  BY <1>1, SeqEqual
<1> QED BY <1>1, <1>3, <1>4 DEF IsPrefix

\* No page comes any more only after the last one.
LEMMA NoPageLeft ==
  ASSUME NEW v \in Seq(Items), NEW list \in Seq(Items), Begins(list, v), NextPage(v, list) = list
  PROVE  list = v
<1> DEFINE upto == Len(list) + 1 * PageSize
           last == IF upto < Len(v) THEN upto ELSE Len(v)
           more == SubSeq(v, Len(list) + 1, last)
<1>1. PICK n, m, q \in Nat : n = Len(list) /\ m = Len(v) /\ q = PageSize /\ q > 0 /\ n <= m
  BY SearchAssumption DEF Begins
<1>2. last \in Nat /\ last <= m /\ (n < m => n < last)
  BY <1>1
<1> HIDE DEF last
<1>3. \A i \in (n + 1)..last : v[i] \in Items
  BY <1>1, <1>2
<1>4. more \in Seq(Items) /\ Len(more) = IF n + 1 <= last THEN last - n ELSE 0
  BY <1>1, <1>2, <1>3, SubSeqProperties
<1> HIDE DEF more
<1>5. list \o more = list
  BY DEF NextPage, MorePages, more, last
<1>6. Len(list) + Len(more) = Len(list)
  <2>1. Len(list \o more) = Len(list) + Len(more)
    BY <1>4
  <2> QED BY <1>5, <2>1
<1>7. Len(more) = 0
  BY <1>1, <1>2, <1>4, <1>6
<1>8. n >= m
  BY <1>1, <1>2, <1>4, <1>7
<1> QED BY <1>1, <1>8, BeginningIsPrefix

\* A search keeps the invariant, whichever of the handlers makes it.
LEMMA ApplyInv ==
  ASSUME NEW t, NEW list \in Seq(Items), NEW idx, NEW c, idx = list \/ idx = << >>,
         rows' \in Seq(Items), text' = t, unlocked', ~behind' => total' = Len(rows') /\ Begins(list, rows'),
         ApplySearch(t, list, idx, c)
  PROVE  SearchInv'
<1>1. PICK l \in IF t = Blank THEN {list} ELSE Pages(rows', list) :
        /\ loaded' = l /\ index' = IF l = list THEN idx ELSE l
        /\ shown' = Search(index', t, category')
        /\ partial' = (t # Blank /\ ~AllPages(rows', l))
        /\ unindexed' = (index' # l)
        /\ typed' = FALSE
  BY DEF ApplySearch
<1>2. l = list \/ \E k \in Nat : l = MorePages(rows', list, k)
  <2>1. CASE t = Blank
    BY <1>1, <2>1
  <2>2. CASE t # Blank
    <3>1. l \in Pages(rows', list)
      BY <1>1, <2>2
    <3>2. PICK k \in 0..Len(rows') : l = [j \in 0..Len(rows') |-> MorePages(rows', list, j)][k]
      BY <3>1 DEF Pages
    <3>3. k \in Nat /\ l = MorePages(rows', list, k)
      BY <3>2
    <3> QED BY <3>3
  <2> QED BY <2>1, <2>2
<1>3. l \in Seq(Items) /\ (Begins(list, rows') => Begins(l, rows'))
  BY <1>2, PagesContinue
<1>4. SearchTypes'
  <2>1. << >> \in Seq(Items)
    OBVIOUS
  <2>2. index' \in Seq(Items)
    BY <1>1, <1>3, <2>1
  <2> QED BY <1>1, <1>3, <2>2 DEF SearchTypes
<1>5. Emptied'
  BY DEF Emptied
<1>6. Counted'
  BY <1>1, <1>3 DEF Counted, Begins
<1>7. Indexed'
  BY <1>1 DEF Indexed
<1>8. Found'
  BY <1>1 DEF Found
<1>9. Whole'
  <2> SUFFICES ASSUME ~partial', ~behind', t # Blank PROVE l = rows'
    BY <1>1 DEF Whole
  <2>1. AllPages(rows', l)
    BY <1>1
  <2>2. total' = Len(rows') /\ Begins(l, rows')
    BY <1>3
  <2>3. CASE Len(l) >= total'
    BY <1>3, <2>2, <2>3, BeginningIsPrefix
  <2>4. CASE NextPage(rows', l) = l
    BY <1>3, <2>2, <2>4, NoPageLeft
  <2> QED BY <2>1, <2>3, <2>4 DEF AllPages
<1> QED BY <1>4, <1>5, <1>6, <1>7, <1>8, <1>9 DEF SearchInv

\* A list that is loaded again begins with nothing.
LEMMA FirstPage ==
  ASSUME NEW v \in Seq(Items)
  PROVE  << >> \in Seq(Items) /\ Begins(<< >>, v) /\ NextPage(v, << >>) \in Seq(Items) /\ Begins(NextPage(v, << >>), v)
<1>1. << >> \in Seq(Items) /\ Begins(<< >>, v)
  BY DEF Begins
<1> QED BY <1>1, PagesContinue DEF NextPage

\* A vault without one of its entries is a vault.
LEMMA EntryTakenOut == ASSUME SearchTypes, NEW e \in Items PROVE Without(e) \in Seq(Items)
<1>1. rows \in Seq(Items) /\ Len(rows) \in Nat /\ DOMAIN rows = 1..Len(rows)
  BY DEF SearchTypes
<1>2. ASSUME NEW n \in DOMAIN rows PROVE RemoveAt(rows, n) \in Seq(Items)
  <2>1. \A i \in 1..(n - 1) : rows[i] \in Items
    BY <1>1
  <2>2. \A i \in (n + 1)..Len(rows) : rows[i] \in Items
    BY <1>1
  <2>3. SubSeq(rows, 1, n - 1) \in Seq(Items)
    BY <1>1, <2>1, SubSeqProperties
  <2>4. SubSeq(rows, n + 1, Len(rows)) \in Seq(Items)
    BY <1>1, <2>2, SubSeqProperties
  <2> QED BY <2>3, <2>4 DEF RemoveAt
<1>3. e \in ToSet(rows) => (CHOOSE n \in DOMAIN rows : rows[n] = e) \in DOMAIN rows
  BY DEF ToSet
<1> QED BY <1>1, <1>2, <1>3 DEF Without

LEMMA SearchInitial == SearchInit => SearchInv
<1> SUFFICES ASSUME SearchInit PROVE SearchInv
  OBVIOUS
<1>1. SearchTypes
  BY DEF SearchInit, SearchTypes
<1> QED BY <1>1 DEF SearchInit, SearchInv, Emptied, Counted, Indexed, Found, Whole

\* The list is loaded again, or it could not be and is out of date.
LEMMA LoadEntriesInv ==
  ASSUME SearchInv, unlocked, LoadEntries, rows' \in Seq(Items), UNCHANGED <<text, unlocked>>
  PROVE  SearchInv'
<1>1. CASE total' = Len(rows') /\ behind' = FALSE /\ Refresh(NextPage(rows', << >>))
  BY <1>1, FirstPage, ApplyInv DEF Refresh
<1>2. CASE behind' = TRUE /\ UNCHANGED listVars
  BY <1>2 DEF listVars, SearchInv, SearchTypes, Emptied, Counted, Indexed, Found, Whole
<1> QED BY <1>1, <1>2 DEF LoadEntries

\* What a handler stores it lists, or the list is out of date.
LEMMA ChangeVaultInv == ASSUME SearchInv, NEW e \in Items, ChangeVault(e) PROVE SearchInv'
<1>1. unlocked /\ rows' \in {<<e>> \o Without(e), Without(e)} /\ UNCHANGED <<text, unlocked>>
  BY DEF ChangeVault
<1>2. rows' \in Seq(Items)
  <2>1. Without(e) \in Seq(Items)
    BY EntryTakenOut DEF SearchInv
  <2>2. <<e>> \o Without(e) \in Seq(Items)
    BY <2>1
  <2> QED BY <1>1, <2>1, <2>2
<1>3. CASE LoadEntries
  BY <1>1, <1>2, <1>3, LoadEntriesInv
<1>4. CASE behind' = TRUE /\ UNCHANGED <<total, listVars>>
  BY <1>1, <1>2, <1>4 DEF listVars, SearchInv, SearchTypes, Emptied, Counted, Indexed, Found, Whole
<1> QED BY <1>3, <1>4 DEF ChangeVault

\* The next page continues the list.
LEMMA LoadMoreInv == ASSUME SearchInv, LoadMoreEntries PROVE SearchInv'
<1>1. /\ unlocked /\ UNCHANGED <<rows, total, text, unlocked, behind>> /\ Refresh(NextPage(rows, loaded))
  BY DEF LoadMoreEntries
<1>2. rows \in Seq(Items) /\ loaded \in Seq(Items)
  BY DEF SearchInv, SearchTypes
<1>3. NextPage(rows, loaded) \in Seq(Items) /\ (Begins(loaded, rows) => Begins(NextPage(rows, loaded), rows))
  BY <1>2, PagesContinue DEF NextPage
<1>4. ~behind => total = Len(rows) /\ Begins(loaded, rows)
  BY <1>1 DEF SearchInv, Counted
<1>5. PICK list \in Seq(Items) : list = NextPage(rows, loaded)
  BY <1>3
<1>6. ApplySearch(text, list, list, Remaining(category, list))
  BY <1>1, <1>5 DEF Refresh
<1> QED BY <1>1, <1>2, <1>3, <1>4, <1>5, <1>6, ApplyInv

\* A search of what is loaded: the timer's, one for a category, one for an entry.
LEMMA SearchAgainInv ==
  ASSUME SearchInv, unlocked, UNCHANGED <<rows, total, unlocked, behind>>, NEW t, NEW c, text' = t, ApplySearch(t, loaded, index, c)
  PROVE  SearchInv'
<1>1. rows \in Seq(Items) /\ loaded \in Seq(Items) /\ (index = loaded \/ index = << >>)
  BY DEF SearchInv, SearchTypes, Indexed
<1>2. ~behind => total = Len(rows) /\ Begins(loaded, rows)
  BY DEF SearchInv, Counted
<1>3. PICK list \in Seq(Items) : list = loaded
  BY <1>1
<1> QED BY <1>1, <1>2, <1>3, ApplyInv

\* An unlock lists the vault anew, or an empty list that is out of date.
LEMMA FinishUnlockInv == ASSUME SearchInv, FinishUnlock PROVE SearchInv'
<1>1. unlocked' = TRUE /\ UNCHANGED <<rows, text>> /\ rows \in Seq(Items)
  BY DEF FinishUnlock, SearchInv, SearchTypes
<1>2. CASE total' = Len(rows) /\ ApplySearch(text, NextPage(rows, << >>), NextPage(rows, << >>), category)
  BY <1>1, <1>2, FirstPage, ApplyInv
<1>3. CASE behind' = TRUE /\ ApplySearch(text, << >>, << >>, category)
  BY <1>1, <1>3, FirstPage, ApplyInv
<1> QED BY <1>2, <1>3 DEF FinishUnlock

LEMMA SearchStep == SearchInv /\ [SearchNext]_searchVars => SearchInv'
<1> SUFFICES ASSUME SearchInv, [SearchNext]_searchVars PROVE SearchInv'
  OBVIOUS
<1>1. CASE UNCHANGED searchVars
  BY <1>1 DEF searchVars, SearchInv, SearchTypes, Emptied, Counted, Begins, Indexed, Found, Whole
<1>2. ASSUME NEW e \in Items, ShowEntry(e) PROVE SearchInv'
  BY <1>2, SearchAgainInv DEF ShowEntry
<1>3. ASSUME NEW t, TypeText(t) PROVE SearchInv'
  BY <1>3 DEF TypeText, SearchInv, SearchTypes, Emptied, Counted, Begins, Indexed, Found, Whole
<1>4. ASSUME NEW c, PickCategory(c) PROVE SearchInv'
  BY <1>4, SearchAgainInv DEF PickCategory
<1>5. ASSUME NEW c, TypeCategory(c) PROVE SearchInv'
  BY <1>5 DEF TypeCategory, SearchInv, SearchTypes, Emptied, Counted, Begins, Indexed, Found, Whole
<1>6. CASE SearchTimer
  <2>1. CASE unlocked
    BY <1>6, <2>1, SearchAgainInv DEF SearchTimer
  <2>2. CASE ~unlocked
    BY <1>6, <2>2 DEF SearchTimer, SearchInv, SearchTypes, Emptied, Counted, Begins, Indexed, Found, Whole
  <2> QED BY <2>1, <2>2
<1>7. CASE SaveSecurity
  <2>1. index' = << >> /\ unindexed' = (loaded # << >>) /\ << >> \in Seq(Items)
        /\ UNCHANGED <<rows, total, loaded, text, category, shown, typed, unlocked, behind, partial>>
    BY <1>7 DEF SaveSecurity
  <2>2. SearchTypes' /\ Emptied' /\ Counted' /\ Whole'
    BY <2>1 DEF SearchInv, SearchTypes, Emptied, Counted, Begins, Whole
  <2>3. Indexed'
    BY <2>1 DEF Indexed
  <2>4. Found'
    BY <2>1 DEF SearchInv, Indexed, Found
  <2> QED BY <2>2, <2>3, <2>4 DEF SearchInv
<1>8. CASE ClearSensitive
  <2>1. << >> \in Seq(Items)
    OBVIOUS
  <2> QED BY <1>8, <2>1 DEF ClearSensitive, SearchInv, SearchTypes, Emptied, Counted, Indexed, Found, Whole
<1> QED BY <1>1, <1>2, <1>3, <1>4, <1>6, <1>7, <1>8, <1>5, ChangeVaultInv, LoadMoreInv, FinishUnlockInv DEF SearchNext

\* For vaults, pages and texts of any number: a search that no query failed in shows exactly the entries that match, of all
\* pages and after any change, unless the index was replaced since; a locked window shows none.
THEOREM SearchShowsAll == SearchSpec => []SearchComplete
<1>1. SearchInv => SearchComplete
  BY BeginningIsPrefix DEF SearchInv, SearchTypes, Emptied, Counted, Indexed, Found, Whole, SearchComplete, Sought
<1> QED BY <1>1, SearchInitial, SearchStep, PTL DEF SearchSpec
================================================================================
