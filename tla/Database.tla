-------------------------------- MODULE Database --------------------------------
(***************************************************************************)
(* The database access of one session: Database with its pool of SQLite    *)
(* connections, the threads that use it, and what SQLite makes of it.      *)
(*                                                                         *)
(* A job is a call from a component: a write transaction, a read           *)
(* transaction, or one statement outside a transaction.  transaction()     *)
(* binds the thread to its connection, so that execute() and further       *)
(* transactions of the same thread find it; only the outermost one begins  *)
(* and ends.  Callers let an exception through all levels.                 *)
(*                                                                         *)
(* SQLite is modelled by what the code uses of it: a connection has at     *)
(* most one transaction, at most one connection writes at a time (in WAL   *)
(* mode readers do not wait), a statement outside a transaction commits by *)
(* itself, a COMMIT that fails (disk full, I/O error) is rolled back by    *)
(* SQLite, for the code does not roll back after it.  Connections are shared *)
(* between threads (check_same_thread=False), one statement at a time.     *)
(***************************************************************************)
EXTENDS Naturals, Sequences, Functions

CONSTANTS
  Threads,   \* the Tk thread, the audit worker, ...
  closer,    \* the thread that closes the database
  PoolSize,  \* pool_size
  Batches,   \* write transactions
  Reads,     \* read transactions
  Singles,   \* statements outside a transaction
  Size,      \* the number of statements of a transaction
  Calls,     \* the jobs each thread may be given
  None,      \* no connection, no job, no transaction
  MaxDepth   \* bound on the nesting of transactions

Conns        == 1..PoolSize
Jobs         == Batches \cup Reads \cup Singles
Transactions == Batches \cup Reads

ASSUME DatabaseAssumption ==
  /\ closer \in Threads
  /\ Calls \in [Threads -> SUBSET Jobs]
  /\ PoolSize \in Nat \ {0}
  /\ Size \in Nat \ {0}
  /\ MaxDepth \in Nat \ {0}
  /\ Batches \cap Reads = {} /\ Batches \cap Singles = {} /\ Reads \cap Singles = {}
  /\ None \notin Conns \cup Jobs

VARIABLES
  pool,     \* _available: the connections at rest, the next to be taken last
  life,     \* "open", "drained" (close has emptied the pool), "closed"
  bound,    \* _local.connection of every thread
  depth,    \* _local.depth
  held,     \* the connection a thread has acquired and will put back
  job,      \* what the thread is working on
  place,    \* where in it
  part,     \* how many statements it has executed
  inTx,     \* the connections with an open transaction
  tx,       \* what that transaction has written so far
  writer,   \* the connection that has SQLite's write lock
  disk,     \* the statements that are committed
  outcome,  \* how a job ended for its caller
  loose     \* history: jobs that were begun on a connection the thread was still bound to

poolVars   == <<pool, life>>
threadVars == <<bound, depth, held, job, place, part>>
sqliteVars == <<inTx, tx, writer, disk>>
vars == <<poolVars, threadVars, sqliteVars, outcome, loose>>

Writes == [job : Batches \cup Singles, part : Nat]
JobSize(j) == IF j \in Singles THEN 1 ELSE Size

TypeOK ==
  /\ pool \in Seq(Conns)
  /\ life \in {"open", "drained", "closed"}
  /\ bound \in [Threads -> Conns \cup {None}]
  /\ depth \in [Threads -> Nat]
  /\ held \in [Threads -> Conns \cup {None}]
  /\ job \in [Threads -> Jobs \cup {None}]
  /\ place \in [Threads -> {"idle", "taking", "beginning", "body"}]
  /\ part \in [Threads -> Nat]
  /\ inTx \subseteq Conns
  /\ tx \in [Conns -> SUBSET Writes]
  /\ writer \in Conns \cup {None}
  /\ disk \subseteq Writes
  /\ outcome \in [Jobs -> {"none", "returned", "raised"}]
  /\ loose \subseteq Jobs

Init ==
  /\ pool = [c \in Conns |-> c]
  /\ life = "open"
  /\ bound = [t \in Threads |-> None]
  /\ depth = [t \in Threads |-> 0]
  /\ held = [t \in Threads |-> None]
  /\ job = [t \in Threads |-> None]
  /\ place = [t \in Threads |-> "idle"]
  /\ part = [t \in Threads |-> 0]
  /\ inTx = {}
  /\ tx = [c \in Conns |-> {}]
  /\ writer = None
  /\ disk = {}
  /\ outcome = [j \in Jobs |-> "none"]
  /\ loose = {}

--------------------------------------------------------------------------------
(* Helpers. *)

\* The connection a thread's statements go to.
Using(t) == IF bound[t] # None THEN bound[t] ELSE held[t]

\* The thread has a transaction or a connection of its own; else it is working on the
\* connection an earlier call has left bound.
Owns(t) == held[t] # None

\* SQLite gives the write lock to a connection.
CanLock(c) == writer \in {None, c}

\* SQLite ends the transaction of a connection.
EndTx(c) ==
  /\ inTx' = inTx \ {c}
  /\ tx' = [tx EXCEPT ![c] = {}]
  /\ writer' = IF writer = c THEN None ELSE writer

\* A slip for the runs to catch: the connection is not put back.
KeepConnection(t) == UNCHANGED pool /\ held' = [held EXCEPT ![t] = None]

\* The end of acquire(): the connection is put back.
PutBack(t) ==
  /\ pool' = IF Owns(t) THEN Append(pool, held[t]) ELSE pool
  /\ held' = [held EXCEPT ![t] = None]

\* The outermost call of a thread ends: its finally clauses, and its outcome.  On a
\* connection that was left bound, only the depth goes back.
Leave(t, result) ==
  /\ PutBack(t)
  /\ bound' = IF Owns(t) THEN [bound EXCEPT ![t] = None] ELSE bound
  /\ depth' = [depth EXCEPT ![t] = IF Owns(t) THEN 0 ELSE 1]
  /\ outcome' = [outcome EXCEPT ![job[t]] = result]
  /\ job' = [job EXCEPT ![t] = None]
  /\ place' = [place EXCEPT ![t] = "idle"]
  /\ part' = [part EXCEPT ![t] = 0]

--------------------------------------------------------------------------------
(* The calls of a thread. *)

\* transaction() or execute() is called.  A thread that is bound takes it for a nested
\* call; otherwise the pool is asked for a connection, if there is a pool.
Call(t, j) ==
  /\ job[t] = None
  /\ outcome[j] = "none" /\ \A u \in Threads : job[u] # j
  /\ job' = [job EXCEPT ![t] = j]
  /\ IF bound[t] # None
       THEN /\ place' = [place EXCEPT ![t] = "body"]
            /\ depth' = [depth EXCEPT ![t] = IF j \in Singles THEN @ ELSE @ + 1]
            /\ loose' = loose \cup {j}
       ELSE /\ life # "closed"
            /\ place' = [place EXCEPT ![t] = "taking"]
            /\ UNCHANGED <<depth, loose>>
  /\ UNCHANGED <<poolVars, bound, held, part, sqliteVars, outcome>>

\* Queue.get without a timeout; transaction() binds the thread before it begins.
Take(t) ==
  /\ place[t] = "taking"
  /\ pool # <<>>
  /\ LET c == pool[Len(pool)]
     IN  /\ held' = [held EXCEPT ![t] = c]
         /\ IF job[t] \in Singles
              THEN place' = [place EXCEPT ![t] = "body"] /\ UNCHANGED <<bound, depth>>
              ELSE /\ place' = [place EXCEPT ![t] = "beginning"]
                   /\ bound' = [bound EXCEPT ![t] = c]
                   /\ depth' = [depth EXCEPT ![t] = 1]
  /\ pool' = SubSeq(pool, 1, Len(pool) - 1)
  /\ UNCHANGED <<life, job, part, sqliteVars, outcome, loose>>

\* BEGIN IMMEDIATE takes the write lock, BEGIN does not.
Begin(t) ==
  /\ place[t] = "beginning"
  /\ life # "closed"
  /\ job[t] \in Batches => CanLock(held[t])
  /\ inTx' = inTx \cup {held[t]}
  /\ writer' = IF job[t] \in Batches THEN held[t] ELSE writer
  /\ place' = [place EXCEPT ![t] = "body"]
  /\ UNCHANGED <<poolVars, bound, depth, held, job, part, tx, disk, outcome, loose>>

\* BEGIN raises: the lock, which a connection of the pool or another program holds, was not
\* free for five seconds, or the connection is closed.  The connection is put back; the
\* clause that would unbind the thread is not reached.
BeginFails(t) ==
  /\ place[t] = "beginning"
  /\ job[t] \in Batches \/ life = "closed"
  /\ PutBack(t)
  /\ outcome' = [outcome EXCEPT ![job[t]] = "raised"]
  /\ job' = [job EXCEPT ![t] = None]
  /\ place' = [place EXCEPT ![t] = "idle"]
  /\ UNCHANGED <<life, bound, depth, part, sqliteVars, loose>>

\* _execute_on: in the open transaction of the connection, whoever began it, or by itself.
Statement(t) ==
  /\ place[t] = "body"
  /\ life # "closed"
  /\ part[t] < JobSize(job[t])
  /\ part' = [part EXCEPT ![t] = @ + 1]
  /\ LET c == Using(t)
         w == {[job |-> job[t], part |-> part[t] + 1]}
     IN  IF job[t] \in Reads
           THEN UNCHANGED sqliteVars
           ELSE /\ CanLock(c)
                /\ IF c \in inTx
                     THEN /\ tx' = [tx EXCEPT ![c] = @ \cup w]
                          /\ writer' = c
                          /\ UNCHANGED <<inTx, disk>>
                     ELSE disk' = disk \cup w /\ UNCHANGED <<inTx, tx, writer>>
  /\ UNCHANGED <<poolVars, bound, depth, held, job, place, outcome, loose>>

\* A transaction inside a write transaction, as an import uses for each entry.
Enter(t) ==
  /\ place[t] = "body"
  /\ job[t] \in Batches
  /\ part[t] < Size
  /\ depth[t] < MaxDepth
  /\ depth' = [depth EXCEPT ![t] = @ + 1]
  /\ UNCHANGED <<poolVars, bound, held, job, place, part, sqliteVars, outcome, loose>>

\* The depth of the outermost call of this job.
Outermost(t) == IF Owns(t) THEN 1 ELSE 2

\* A slip: the inner transaction commits.
ExitCommits(t) ==
  /\ place[t] = "body"
  /\ job[t] \in Batches
  /\ depth[t] > Outermost(t)
  /\ depth' = [depth EXCEPT ![t] = @ - 1]
  /\ disk' = disk \cup tx[Using(t)]
  /\ tx' = [tx EXCEPT ![Using(t)] = {}]
  /\ UNCHANGED <<poolVars, bound, held, job, place, part, inTx, writer, outcome, loose>>

Exit(t) ==
  /\ place[t] = "body"
  /\ job[t] \in Batches
  /\ depth[t] > Outermost(t)
  /\ depth' = [depth EXCEPT ![t] = @ - 1]
  /\ UNCHANGED <<poolVars, bound, held, job, place, part, sqliteVars, outcome, loose>>

\* A statement, or what the caller does between two of them, raises: ROLLBACK, unless the
\* transaction is not the thread's own or there is none.  Or COMMIT raises, in the else branch that
\* no ROLLBACK follows: SQLite itself has ended the transaction.
Fail(t) ==
  /\ place[t] = "body"
  /\ IF Owns(t) /\ job[t] \in Transactions
       THEN EndTx(held[t])
       ELSE UNCHANGED <<inTx, tx, writer>>
  /\ Leave(t, "raised")
  /\ UNCHANGED <<life, disk, loose>>

\* The outermost call returns: COMMIT, if the thread has a transaction of its own.
Finish(t) ==
  /\ place[t] = "body"
  /\ part[t] = JobSize(job[t])
  /\ job[t] \in Transactions => depth[t] = Outermost(t)
  /\ IF Owns(t) /\ job[t] \in Transactions
       THEN /\ life # "closed"
            /\ disk' = disk \cup tx[held[t]]
            /\ EndTx(held[t])
       ELSE UNCHANGED sqliteVars
  /\ Leave(t, "returned")
  /\ UNCHANGED <<life, loose>>

--------------------------------------------------------------------------------
(* close(), when the closing thread has nothing else to do. *)

CloseDrain ==
  /\ life = "open"
  /\ job[closer] = None
  /\ life' = "drained"
  /\ pool' = <<>>
  /\ UNCHANGED <<threadVars, sqliteVars, outcome, loose>>

\* Every connection is closed, whoever has it, and SQLite rolls back.
CloseConnections ==
  /\ life = "drained"
  /\ life' = "closed"
  /\ inTx' = {}
  /\ tx' = [c \in Conns |-> {}]
  /\ writer' = None
  /\ UNCHANGED <<pool, threadVars, disk, outcome, loose>>

--------------------------------------------------------------------------------

ThreadStep(t) ==
  \/ \E j \in Calls[t] : Call(t, j)
  \/ Take(t) \/ Begin(t) \/ BeginFails(t)
  \/ Statement(t) \/ Enter(t) \/ Exit(t) \/ Fail(t) \/ Finish(t)

Next == (\E t \in Threads : ThreadStep(t)) \/ CloseDrain \/ CloseConnections

Spec == Init /\ [][Next]_vars

(***************************************************************************)
(* A thread in the middle of a job goes on: it takes a connection that is  *)
(* there, BEGIN waits no longer than its timeout, a caller does not nest   *)
(* for ever.  Nobody has to call or to close.                              *)
(***************************************************************************)
Fairness ==
  \A t \in Threads :
    /\ WF_vars(Take(t))
    /\ WF_vars(Begin(t) \/ BeginFails(t))
    /\ WF_vars(Statement(t) \/ Fail(t))
    /\ WF_vars(Exit(t))
    /\ WF_vars(Finish(t))

FairSpec == Spec /\ Fairness

--------------------------------------------------------------------------------
(* Properties. *)

\* While the pool is in use no connection is lost or handed out twice: each is either in
\* the pool, once, or held by one thread; and a connection returns without a transaction,
\* whichever of BEGIN, a statement, COMMIT and a nested call has failed.
ConnectionsAccounted ==
  life = "open" =>
    \A c \in Conns :
      \/ /\ \E i \in DOMAIN pool : pool[i] = c /\ \A k \in DOMAIN pool : pool[k] = c => k = i
         /\ \A t \in Threads : held[t] # c
         /\ c \notin inTx
      \/ /\ c \notin Range(pool)
         /\ \E t \in Threads : held[t] = c /\ \A u \in Threads : held[u] = c => u = t

\* No call leaves SQLite's write lock or an open transaction behind: while the pool is in
\* use, each belongs to a thread in the body of a transaction of its own.
LockReleased ==
  life = "open" =>
    /\ writer # None => writer \in inTx
    /\ \A c \in inTx : \E t \in Threads :
         held[t] = c /\ place[t] = "body" /\ job[t] \in Transactions

PartsOnDisk(j) == {w \in disk : w.job = j}

\* A write transaction is on disk as a whole if its caller was told so, and not at all if
\* not: under other threads, nesting, failures and close, for every transaction that
\* began as one.
AllOrNothing ==
  \A j \in Batches \ loose :
    PartsOnDisk(j) = IF outcome[j] = "returned" THEN [job : {j}, part : 1..Size] ELSE {}

\* The next step of a thread's job can be taken, without a timeout and without an exception.
GoesOn(t) ==
  \/ place[t] = "taking" /\ pool # <<>>
  \/ place[t] = "beginning" /\ (job[t] \in Batches => CanLock(held[t]))
  \/ place[t] = "body" /\ part[t] < JobSize(job[t]) /\ (job[t] \in Reads \/ CanLock(Using(t)))
  \/ /\ place[t] = "body" /\ part[t] = JobSize(job[t])
     /\ job[t] \in Transactions =>
          depth[t] = Outermost(t) \/ (job[t] \in Batches /\ depth[t] > Outermost(t))

\* The two waits, for a connection and for SQLite's write lock, form no circle: while the pool is
\* in use and a job is under way, some thread can go on, before any BEGIN has to give up.
NoCircularWait ==
  life = "open" /\ (\E t \in Threads : job[t] # None) => \E t \in Threads : GoesOn(t)

\* Every job comes to an end while the pool is in use: the connections suffice.
JobsEnd ==
  \A t \in Threads : job[t] # None ~> job[t] = None \/ life # "open"

=================================================================================
