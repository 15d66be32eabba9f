------------------------------- MODULE MemoryGuard -------------------------------
(***************************************************************************)
(* ProtectedMemory, ProtectedSecret and the MemoryGuard that tracks them,  *)
(* with the locks they take: one per secret, one for the set.              *)
(*                                                                         *)
(* A thread protects a value, reads it, closes it, or wipes everything;    *)
(* the garbage collector closes what nobody refers to, in any thread.  A   *)
(* write past the end of a block is found by its canaries.                 *)
(***************************************************************************)
EXTENDS Naturals, FiniteSets

CONSTANTS
  Threads,
  Blocks,   \* allocations, each made once
  Passes,   \* wipe_passes
  Free      \* no thread, no block

ASSUME GuardAssumption == Free \notin Threads \cup Blocks

VARIABLES
  content,   \* "unmapped", "secret", "noise" (between two passes) or "zero"
  canaries,  \* the blocks whose canaries are intact
  released,  \* ProtectedMemory._closed
  closed,    \* ProtectedSecret._closed
  holder,    \* the thread in the lock of a secret, or Free
  tracked,   \* MemoryGuard._allocations
  task,      \* what a thread does: [does, block, todo, wiped]
  seen,      \* history: what reads have returned
  escaped,   \* history: the blocks that came into the set while it was being wiped
  promised   \* history: the blocks that a finished wipe_all had in its list

guardVars == <<content, canaries, released, closed, holder, tracked, task, seen, escaped, promised>>

Idle == [does |-> "nothing", block |-> Free, todo |-> {}, wiped |-> {}]

GuardInit ==
  /\ content = [b \in Blocks |-> "unmapped"]
  /\ canaries = Blocks
  /\ released = {} /\ closed = {}
  /\ holder = [b \in Blocks |-> Free]
  /\ tracked = {}
  /\ task = [t \in Threads |-> Idle]
  /\ seen = {} /\ escaped = {} /\ promised = {}

Does(t, what) == task[t].does = what
Mapped(b) == content[b] # "unmapped" /\ b \notin released

--------------------------------------------------------------------------------

\* protect: the secret is masked and written before the set knows of it.
Protect(t, b) ==
  /\ Does(t, "nothing") /\ content[b] = "unmapped"
  /\ content' = [content EXCEPT ![b] = "secret"]
  /\ task' = [task EXCEPT ![t] = [Idle EXCEPT !.does = "track", !.block = b]]
  /\ UNCHANGED <<canaries, released, closed, holder, tracked, seen, escaped, promised>>

Track(t) ==
  /\ Does(t, "track")
  /\ tracked' = tracked \cup {task[t].block}
  /\ task' = [task EXCEPT ![t] = Idle]
  /\ UNCHANGED <<content, canaries, released, closed, holder, seen, escaped, promised>>

\* A slip: a reader does not wait for the lock.
ReadUnlocked(t, b) ==
  /\ Does(t, "nothing") /\ b \in promised \cup tracked \cup escaped
  /\ seen' = IF b \in closed \cup released \/ b \notin canaries THEN seen ELSE seen \cup {content[b]}
  /\ UNCHANGED <<content, canaries, released, closed, holder, tracked, task, escaped, promised>>

\* read: refused when closed or when a canary is gone; everything under the lock.
Read(t, b) ==
  /\ Does(t, "nothing") /\ holder[b] = Free /\ b \in promised \cup tracked \cup escaped
  /\ seen' = IF b \in closed \cup released \/ b \notin canaries THEN seen ELSE seen \cup {content[b]}
  /\ UNCHANGED <<content, canaries, released, closed, holder, tracked, task, escaped, promised>>

--------------------------------------------------------------------------------
\* close, in the lock: wipe in passes, then zero whatever the wipe met

Enter(b) == holder[b] = Free /\ b \notin closed

\* The first pass; a damaged block is not overwritten here.
Wipe(b) == IF Mapped(b) /\ b \in canaries /\ Passes > 1 THEN "noise" ELSE content[b]

BeginClose(t, b, after) ==
  /\ Enter(b)
  /\ holder' = [holder EXCEPT ![b] = t]
  /\ content' = [content EXCEPT ![b] = Wipe(b)]
  /\ task' = [task EXCEPT ![t] = after]
  /\ UNCHANGED <<canaries, released, closed, tracked, seen, escaped, promised>>

\* The owner closes its secret.
Close(t, b) ==
  /\ Does(t, "nothing") /\ b \in promised \cup tracked \cup escaped
  /\ BeginClose(t, b, [Idle EXCEPT !.does = "close", !.block = b])

\* A slip: a block whose canaries are gone is left as it is.
FinishIfIntact(t) ==
  LET b == task[t].block
  IN /\ task[t].does \in {"close", "closing"}
     /\ content' = [content EXCEPT ![b] = IF b \in canaries THEN "zero" ELSE @]
     /\ released' = released \cup {b}
     /\ closed' = IF b \in canaries THEN closed \cup {b} ELSE closed
     /\ holder' = [holder EXCEPT ![b] = Free]
     /\ task' = [task EXCEPT ![t] = IF @.does = "close" THEN Idle ELSE [@ EXCEPT !.does = "wipe", !.block = Free]]
     /\ UNCHANGED <<canaries, tracked, seen, escaped, promised>>

\* The finally branch of close zeroes all pages.  With a damaged canary the exception goes
\* on, and the secret does not count as closed though its memory is gone.
FinishClose(t) ==
  LET b == task[t].block
  IN /\ task[t].does \in {"close", "closing"}
     /\ content' = [content EXCEPT ![b] = "zero"]
     /\ released' = released \cup {b}
     /\ closed' = IF b \in canaries \/ b \in released THEN closed \cup {b} ELSE closed
     /\ holder' = [holder EXCEPT ![b] = Free]
     /\ task' = [task EXCEPT ![t] = IF @.does = "close" THEN Idle ELSE [@ EXCEPT !.does = "wipe", !.block = Free]]
     /\ UNCHANGED <<canaries, tracked, seen, escaped, promised>>

--------------------------------------------------------------------------------

\* wipe_all: a list is taken of the set,
WipeBegins(t) ==
  /\ Does(t, "nothing")
  /\ task' = [task EXCEPT ![t] = [does |-> "wipe", block |-> Free, todo |-> tracked, wiped |-> tracked]]
  /\ UNCHANGED <<content, canaries, released, closed, holder, tracked, seen, escaped, promised>>

\* its members are closed one after another, and errors passed over,
WipeNext(t, b) ==
  LET rest == [task[t] EXCEPT !.todo = @ \ {b}]
  IN /\ Does(t, "wipe") /\ b \in task[t].todo /\ holder[b] = Free
     /\ IF b \in closed
        THEN task' = [task EXCEPT ![t] = rest]
             /\ UNCHANGED <<content, canaries, released, closed, holder, tracked, seen, escaped, promised>>
        ELSE BeginClose(t, b, [rest EXCEPT !.does = "closing", !.block = b])

\* and the set is emptied, with what came into it since.
WipeEnds(t) ==
  /\ Does(t, "wipe") /\ task[t].todo = {}
  /\ tracked' = {}
  /\ escaped' = escaped \cup (tracked \ task[t].wiped)
  /\ promised' = promised \cup task[t].wiped
  /\ task' = [task EXCEPT ![t] = Idle]
  /\ UNCHANGED <<content, canaries, released, closed, holder, seen>>

--------------------------------------------------------------------------------

\* Something writes past the end of a block.
Damage(b) ==
  /\ Mapped(b) /\ holder[b] = Free /\ b \in canaries
  /\ canaries' = canaries \ {b}
  /\ UNCHANGED <<content, released, closed, holder, tracked, task, seen, escaped, promised>>

\* Nobody refers to the secret any more: __del__ closes it, the set forgets it.
Collected(b) ==
  /\ Mapped(b) /\ holder[b] = Free /\ \A t \in Threads : b \notin {task[t].block} \cup task[t].todo
  /\ content' = [content EXCEPT ![b] = "zero"]
  /\ released' = released \cup {b}
  /\ closed' = IF b \in canaries THEN closed \cup {b} ELSE closed
  /\ tracked' = tracked \ {b}
  /\ UNCHANGED <<canaries, holder, task, seen, escaped, promised>>

GuardNext ==
  \/ \E t \in Threads :
       \/ Track(t) \/ FinishClose(t) \/ WipeBegins(t) \/ WipeEnds(t)
       \/ \E b \in Blocks : Protect(t, b) \/ Read(t, b) \/ Close(t, b) \/ WipeNext(t, b)
  \/ \E b \in Blocks : Damage(b) \/ Collected(b)

GuardSpec == GuardInit /\ [][GuardNext]_guardVars

--------------------------------------------------------------------------------

\* Everything a wipe_all found is zero when it returns, damaged or not and whoever else was
\* closing it; a secret in memory that nobody is entering or closing is in the set, unless
\* it came in during a wipe_all; and no reader ever gets a half-wiped value.
WipedForGood ==
  /\ \A b \in promised \cup released : content[b] = "zero"
  /\ \A b \in Blocks :
       content[b] = "secret" => b \in tracked \cup escaped \/ \E t \in Threads : Does(t, "track") /\ task[t].block = b
  /\ seen \subseteq {"secret"}
================================================================================
