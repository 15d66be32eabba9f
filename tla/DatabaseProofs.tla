----------------------------- MODULE DatabaseProofs -----------------------------
(***************************************************************************)
(* Theorems about Database: for any threads, any size of the pool, any     *)
(* number and length of jobs.                                              *)
(***************************************************************************)
EXTENDS Database, SequenceTheorems, TLAPS

--------------------------------------------------------------------------------
(* The inductive invariant. *)

\* Where a thread is tells what it holds and what it is bound to.
Places ==
  \A t \in Threads :
    /\ place[t] = "idle" <=> job[t] = None
    /\ place[t] \in {"idle", "taking"} => held[t] = None
    /\ place[t] = "beginning" => held[t] # None /\ bound[t] = held[t] /\ job[t] \in Transactions
    /\ place[t] = "body" /\ held[t] # None /\ job[t] \in Transactions => bound[t] = held[t]
    /\ place[t] = "body" /\ held[t] # None /\ job[t] \in Singles => bound[t] = None
    /\ place[t] = "taking" => bound[t] = None
    /\ place[t] = "body" /\ held[t] = None => bound[t] # None /\ job[t] \in loose
    /\ place[t] # "body" => part[t] = 0

\* A job is in the hands of one thread and has no outcome yet.
JobsOwned ==
  /\ \A t, u \in Threads : job[t] = job[u] /\ job[t] # None => t = u
  /\ \A t \in Threads : job[t] # None => outcome[job[t]] = "none"

\* The pool and the threads share out the connections.
Shared ==
  /\ \A t, u \in Threads : held[t] = held[u] /\ held[t] # None => t = u
  /\ \A i, k \in 1..Len(pool) : pool[i] = pool[k] => i = k
  /\ \A i \in 1..Len(pool) : \A t \in Threads : held[t] # pool[i]
  /\ life = "open" => \A c \in Conns :
       (\E i \in 1..Len(pool) : pool[i] = c) \/ (\E t \in Threads : held[t] = c)

\* The thread whose transaction a connection is in.
Owner(t, c) == held[t] = c /\ place[t] = "body" /\ job[t] \in Transactions

\* A transaction is open exactly while its thread is in it.
TxOwned ==
  /\ \A c \in inTx : \E t \in Threads : Owner(t, c)
  /\ life # "closed" => \A t \in Threads : \A c \in Conns : Owner(t, c) => c \in inTx
  /\ writer # None => writer \in inTx
  /\ \A c \in Conns \ inTx : tx[c] = {}

\* What a transaction has written so far is what its own job has executed, and what loose
\* jobs have strayed into it.
TxContents ==
  /\ \A c \in Conns : \A w \in tx[c] :
       w.job \in Batches \ loose =>
         \E t \in Threads : Owner(t, c) /\ job[t] = w.job /\ w.part \in 1..part[t]
  /\ life # "closed" =>
       \A t \in Threads : \A c \in Conns : Owner(t, c) /\ job[t] \in Batches =>
         \A k \in 1..part[t] : [job |-> job[t], part |-> k] \in tx[c]

IInv ==
  /\ TypeOK /\ Places /\ JobsOwned
  /\ Shared /\ TxOwned /\ TxContents /\ AllOrNothing

--------------------------------------------------------------------------------
(* Types. *)

\* The pool is a sequence of connections after every change.
LEMMA PoolType ==
  ASSUME pool \in Seq(Conns)
  PROVE  /\ \A c \in Conns : Append(pool, c) \in Seq(Conns)
         /\ pool # <<>> => /\ Len(pool) \in 1..Len(pool)
                           /\ pool[Len(pool)] \in Conns
                           /\ SubSeq(pool, 1, Len(pool) - 1) \in Seq(Conns)
                           /\ Len(SubSeq(pool, 1, Len(pool) - 1)) = Len(pool) - 1
                           /\ \A i \in 1..(Len(pool) - 1) :
                                SubSeq(pool, 1, Len(pool) - 1)[i] = pool[i]
  <1>1. ASSUME pool # <<>>
        PROVE  /\ Len(pool) \in 1..Len(pool)
               /\ pool[Len(pool)] \in Conns
               /\ SubSeq(pool, 1, Len(pool) - 1) \in Seq(Conns)
               /\ Len(SubSeq(pool, 1, Len(pool) - 1)) = Len(pool) - 1
               /\ \A i \in 1..(Len(pool) - 1) :
                    SubSeq(pool, 1, Len(pool) - 1)[i] = pool[i]
    <2>1. Len(pool) \in Nat /\ Len(pool) >= 1
      BY <1>1
    <2>2. \A i \in 1..Len(pool) : pool[i] \in Conns
      OBVIOUS
    <2> DEFINE n == Len(pool)
    <2> HIDE DEF n
    <2>3. /\ n - 1 \in Int /\ (1 <= n - 1 \/ n - 1 = 0) /\ (n - 1) - 1 + 1 = n - 1
          /\ \A i \in 1..(n - 1) : i \in 1..n /\ 1 + i - 1 = i
      <3>1. n \in Nat /\ n >= 1
        BY <2>1 DEF n
      <3> QED BY <3>1
    <2>a. \A i \in 1..(n - 1) : pool[i] \in Conns
      BY <2>2, <2>3 DEF n
    <2>4. /\ SubSeq(pool, 1, n - 1) \in Seq(Conns)
          /\ Len(SubSeq(pool, 1, n - 1)) = IF 1 <= n - 1 THEN (n - 1) - 1 + 1 ELSE 0
          /\ \A i \in 1..((n - 1) - 1 + 1) : SubSeq(pool, 1, n - 1)[i] = pool[1 + i - 1]
      BY <2>3, <2>a, SubSeqProperties
    <2>5. Len(SubSeq(pool, 1, n - 1)) = n - 1
      BY <2>3, <2>4
    <2>6. \A i \in 1..(n - 1) : SubSeq(pool, 1, n - 1)[i] = pool[i]
      BY <2>3, <2>4
    <2> QED BY <2>1, <2>2, <2>4, <2>5, <2>6 DEF n
  <1> QED BY <1>1

--------------------------------------------------------------------------------
(* The invariant holds initially and every action preserves it. *)

\* Nobody has called, and the pool is full.
LEMMA InitInv == Init => IInv
  <1> SUFFICES ASSUME Init PROVE IInv
    OBVIOUS
  <1> USE DatabaseAssumption DEF Init
  <1>1. pool \in Seq(Conns) /\ Len(pool) = PoolSize /\ (\A i \in 1..Len(pool) : pool[i] = i)
    BY DEF Conns
  <1>2. TypeOK
    BY <1>1 DEF TypeOK, Jobs, Writes
  <1>3. Places /\ JobsOwned
    BY DEF Places, JobsOwned
  <1>4. None \notin Conns
    OBVIOUS
  <1>5. Shared
    BY <1>1, <1>4 DEF Shared, Conns
  <1>6. TxOwned /\ TxContents
    BY <1>4 DEF TxOwned, TxContents, Owner
  <1>7. AllOrNothing
    BY DEF AllOrNothing, PartsOnDisk, Jobs
  <1> QED BY <1>2, <1>3, <1>5, <1>6, <1>7 DEF IInv

\* A call changes what its thread works on.
LEMMA CallInv ==
  ASSUME IInv, NEW t \in Threads, NEW j \in Jobs, Call(t, j)
  PROVE  IInv'
  <1> USE DatabaseAssumption DEF Call, poolVars, sqliteVars, Jobs, Transactions, IInv
  <1>1. TypeOK'
    <2>1. CASE bound[t] # None
      <3>1. depth' \in [Threads -> Nat] /\ loose' \subseteq Jobs
        BY <2>1 DEF TypeOK
      <3>2. job' \in [Threads -> Jobs \cup {None}]
        BY DEF TypeOK
      <3>3. place' \in [Threads -> {"idle", "taking", "beginning", "body"}]
        BY <2>1 DEF TypeOK
      <3> QED BY <3>1, <3>2, <3>3 DEF TypeOK
    <2>2. CASE bound[t] = None
      BY <2>2 DEF TypeOK
    <2> QED BY <2>1, <2>2
  <1>2. Places'
    BY DEF Places, TypeOK
  <1>3. JobsOwned'
    BY DEF JobsOwned, TypeOK
  <1>4. Shared'
    BY DEF Shared, TypeOK
  <1>a. held[t] = None /\ None \notin Conns
    BY DEF Places
  <1>b. \A u \in Threads, c \in Conns : Owner(u, c)' <=> Owner(u, c)
    BY <1>a DEF Owner, TypeOK
  <1>5. TxOwned'
    BY <1>b DEF TxOwned, TypeOK
  <1>6. TxContents'
    <2>1. \A u \in Threads, c \in Conns : Owner(u, c) => job'[u] = job[u]
      BY <1>a DEF Owner, TypeOK
    <2> QED BY <1>b, <2>1 DEF TxContents, TypeOK
  <1>7. AllOrNothing'
    BY DEF AllOrNothing, PartsOnDisk, TypeOK
  <1> QED BY <1>1, <1>2, <1>3, <1>4, <1>5, <1>6, <1>7

\* A connection leaves the pool.
LEMMA TakeInv ==
  ASSUME IInv, NEW t \in Threads, Take(t)
  PROVE  IInv'
  <1> USE DatabaseAssumption DEF Take, sqliteVars, Transactions, Jobs, IInv
  <1>a. /\ Len(pool) \in 1..Len(pool)
        /\ pool[Len(pool)] \in Conns
        /\ pool' \in Seq(Conns)
        /\ Len(pool') = Len(pool) - 1
        /\ \A i \in 1..Len(pool') : i \in 1..Len(pool) /\ i # Len(pool) /\ pool'[i] = pool[i]
    BY PoolType DEF TypeOK
  <1>b. None \notin Conns
    OBVIOUS
  <1>c. job[t] # None /\ job[t] \in Jobs /\ held[t] = None
    BY DEF Places, TypeOK
  <1>1. TypeOK'
    <2>1. CASE job[t] \in Singles
      BY <2>1, <1>a DEF TypeOK
    <2>2. CASE job[t] \notin Singles
      <3>1. /\ bound' = [bound EXCEPT ![t] = pool[Len(pool)]]
            /\ depth' = [depth EXCEPT ![t] = 1]
        BY <2>2
      <3>a. bound' \in [Threads -> Conns \cup {None}]
        BY <3>1, <1>a DEF TypeOK
      <3>b. depth' \in [Threads -> Nat]
        BY <3>1 DEF TypeOK
      <3>2. place' \in [Threads -> {"idle", "taking", "beginning", "body"}]
        BY <2>2 DEF TypeOK
      <3>3. held' \in [Threads -> Conns \cup {None}]
        BY <1>a DEF TypeOK
      <3> QED BY <3>a, <3>b, <3>2, <3>3, <1>a DEF TypeOK
    <2> QED BY <2>1, <2>2
  <1>2. Places'
    BY DEF Places, TypeOK
  <1>3. JobsOwned'
    BY DEF JobsOwned, TypeOK
  <1>4. Shared'
    <2>1. \A u \in Threads : held'[u] = IF u = t THEN pool[Len(pool)] ELSE held[u]
      BY DEF TypeOK
    <2>2. ASSUME life' = "open", NEW c \in Conns
          PROVE  (\E i \in 1..Len(pool') : pool'[i] = c) \/ (\E u \in Threads : held'[u] = c)
      <3>1. CASE \E u \in Threads : held[u] = c
        BY <3>1, <2>1, <1>b, <1>c
      <3>2. CASE \E i \in 1..Len(pool) : pool[i] = c
        <4> PICK i \in 1..Len(pool) : pool[i] = c
          BY <3>2
        <4>1. i = Len(pool) \/ i \in 1..Len(pool')
          BY <1>a DEF TypeOK
        <4> QED BY <4>1, <2>1, <1>a
      <3> QED BY <3>1, <3>2, <2>2 DEF Shared
    <2> HIDE DEF Take
    <2>3. \A u, v \in Threads : held'[u] = held'[v] /\ held'[u] # None => u = v
      BY <2>1, <1>a DEF Shared
    <2>4. \A i, k \in 1..Len(pool') : pool'[i] = pool'[k] => i = k
      BY <1>a DEF Shared
    <2>5. \A i \in 1..Len(pool') : \A u \in Threads : held'[u] # pool'[i]
      BY <2>1, <1>a DEF Shared
    <2> QED BY <2>2, <2>3, <2>4, <2>5 DEF Shared
  <1>d. \A u \in Threads, c \in Conns : Owner(u, c)' <=> Owner(u, c)
    BY <1>c DEF Owner, TypeOK
  <1>5. TxOwned'
    BY <1>d DEF TxOwned, TypeOK
  <1>6. TxContents'
    BY <1>d DEF TxContents, TypeOK
  <1>7. AllOrNothing'
    BY DEF AllOrNothing, PartsOnDisk, TypeOK
  <1> QED BY <1>1, <1>2, <1>3, <1>4, <1>5, <1>6, <1>7

\* A transaction begins.
LEMMA BeginInv ==
  ASSUME IInv, NEW t \in Threads, Begin(t)
  PROVE  IInv'
  <1> USE DatabaseAssumption DEF Begin, poolVars, CanLock, Transactions, IInv
  <1>a. held[t] \in Conns /\ None \notin Conns /\ job[t] \in Transactions
    BY DEF Places, TypeOK
  <1>1. TypeOK'
    BY <1>a DEF TypeOK
  <1>2. Places'
    BY DEF Places, TypeOK
  <1>3. JobsOwned'
    BY DEF JobsOwned, TypeOK
  <1>4. Shared'
    BY DEF Shared, TypeOK
  <1>b. \A u \in Threads, c \in Conns : Owner(u, c)' <=> Owner(u, c) \/ (u = t /\ c = held[t])
    BY <1>a DEF Owner, TypeOK
  <1>c. \A u \in Threads : ~Owner(u, held[t])
    BY <1>a DEF Owner, Shared
  <1>5. TxOwned'
    BY <1>a, <1>b DEF TxOwned, TypeOK
  <1>6. TxContents'
    <2>1. part[t] = 0
      BY DEF Places
    <2>2. /\ tx' = tx /\ part' = part /\ job' = job /\ loose' = loose /\ life' = life
      OBVIOUS
    <2> HIDE DEF Begin
    <2>3. \A k \in 1..part[t] : FALSE
      BY <2>1
    <2>4. \A c \in Conns : \A w \in tx'[c] : w.job \in Batches \ loose' =>
            \E u \in Threads : Owner(u, c)' /\ job'[u] = w.job /\ w.part \in 1..part'[u]
      BY <1>b, <2>2 DEF TxContents
    <2>5. life' # "closed" =>
            \A u \in Threads : \A c \in Conns : Owner(u, c)' /\ job'[u] \in Batches =>
              \A k \in 1..part'[u] : [job |-> job'[u], part |-> k] \in tx'[c]
      BY <1>b, <2>2, <2>3 DEF TxContents
    <2> QED BY <2>4, <2>5 DEF TxContents
  <1>7. AllOrNothing'
    BY DEF AllOrNothing, PartsOnDisk, TypeOK
  <1> QED BY <1>1, <1>2, <1>3, <1>4, <1>5, <1>6, <1>7

\* The connection goes back, and the thread stays bound to it.
LEMMA BeginFailsInv ==
  ASSUME IInv, NEW t \in Threads, BeginFails(t)
  PROVE  IInv'
  <1> USE DatabaseAssumption DEF BeginFails, PutBack, Owns, sqliteVars, IInv
  <1>1. TypeOK'
    BY PoolType DEF TypeOK
  <1>2. Places'
    BY DEF Places, TypeOK
  <1>3. JobsOwned'
    BY DEF JobsOwned, TypeOK
  <1>a. held[t] \in Conns /\ None \notin Conns /\ job[t] \in Jobs /\ place[t] = "beginning"
    BY DEF Places, TypeOK
  <1>b. /\ Len(pool') = Len(pool) + 1
        /\ \A i \in 1..Len(pool') : pool'[i] = IF i = Len(pool) + 1 THEN held[t] ELSE pool[i]
        /\ 1..Len(pool') = 1..Len(pool) \cup {Len(pool) + 1}
        /\ Len(pool) + 1 \notin 1..Len(pool)
    BY <1>a DEF TypeOK
  <1>c. \A u \in Threads : held'[u] = IF u = t THEN None ELSE held[u]
    BY DEF TypeOK
  <1>4. Shared'
    <2> HIDE DEF BeginFails
    <2>1. life' = life
      BY DEF BeginFails
    <2>2. \A u, v \in Threads : held'[u] = held'[v] /\ held'[u] # None => u = v
      BY <1>a, <1>c DEF Shared
    <2>3. \A i, k \in 1..Len(pool') : pool'[i] = pool'[k] => i = k
      BY <1>b DEF Shared
    <2>4. \A i \in 1..Len(pool') : \A u \in Threads : held'[u] # pool'[i]
      <3>1. \A i \in 1..Len(pool) : pool[i] # None
        BY <1>a DEF TypeOK
      <3>2. \A u \in Threads \ {t} : held[u] # held[t]
        BY <1>a DEF Shared
      <3> QED BY <3>1, <3>2, <1>a, <1>b, <1>c DEF Shared
    <2>5. ASSUME life' = "open", NEW c \in Conns
          PROVE  (\E i \in 1..Len(pool') : pool'[i] = c) \/ (\E u \in Threads : held'[u] = c)
      BY <2>1, <2>5, <1>a, <1>b, <1>c DEF Shared
    <2> QED BY <2>2, <2>3, <2>4, <2>5 DEF Shared
  <1>d. \A u \in Threads, c \in Conns : Owner(u, c)' <=> Owner(u, c)
    BY <1>a, <1>c DEF Owner, TypeOK
  <1>5. TxOwned'
    BY <1>d DEF TxOwned, TypeOK
  <1>6. TxContents'
    <2>1. \A u \in Threads, c \in Conns : Owner(u, c) => job'[u] = job[u]
      BY <1>a DEF Owner, TypeOK
    <2> QED BY <1>d, <2>1 DEF TxContents, TypeOK
  <1>7. AllOrNothing'
    <2>1. outcome[job[t]] = "none"
      BY <1>a DEF JobsOwned, Places
    <2>2. \A j \in Jobs : outcome'[j] = IF j = job[t] THEN "raised" ELSE outcome[j]
      BY <1>a DEF TypeOK
    <2>3. \A j \in Batches : outcome'[j] = "returned" <=> outcome[j] = "returned"
      BY <2>1, <2>2 DEF Jobs
    <2>4. disk' = disk /\ loose' = loose
      OBVIOUS
    <2> HIDE DEF BeginFails
    <2> QED BY <2>3, <2>4 DEF AllOrNothing, PartsOnDisk
  <1> QED BY <1>1, <1>2, <1>3, <1>4, <1>5, <1>6, <1>7

\* A statement: nobody but the thread whose transaction it is executes parts of a write
\* transaction that began as one.
LEMMA StatementInv ==
  ASSUME IInv, NEW t \in Threads, Statement(t)
  PROVE  IInv'
  <1> DEFINE c == Using(t)
             w == [job |-> job[t], part |-> part[t] + 1]
  <1> USE DatabaseAssumption DEF poolVars, sqliteVars, Jobs, Transactions, IInv
  <1>a. /\ place[t] = "body" /\ life # "closed" /\ job[t] \in Jobs /\ job[t] # None
        /\ part[t] \in Nat
        /\ part' = [part EXCEPT ![t] = part[t] + 1]
        /\ UNCHANGED <<pool, life, bound, depth, held, job, place, outcome, loose>>
    BY DEF Statement, Places, TypeOK
  <1>b. \/ job[t] \in Reads /\ UNCHANGED <<inTx, tx, writer, disk>>
        \/ /\ job[t] \in Batches \cup Singles /\ c \in inTx
           /\ tx' = [tx EXCEPT ![c] = tx[c] \cup {w}]
           /\ writer' = c /\ UNCHANGED <<inTx, disk>>
        \/ /\ job[t] \in Batches \cup Singles /\ c \notin inTx
           /\ disk' = disk \cup {w} /\ UNCHANGED <<inTx, tx, writer>>
    BY <1>a DEF Statement
  <1>c. c \in Conns /\ None \notin Conns
    BY <1>a DEF Using, Places, TypeOK
  <1>d. job[t] \in Batches \cup Singles => w \in Writes
    BY <1>a DEF Writes
  <1>e. job[t] \in Batches \ loose => Owner(t, c)
    BY <1>a, <1>c DEF Owner, Using, Places
  <1>f. \A d \in Conns : Owner(t, d) => d = c
    BY <1>a, <1>c DEF Owner, Using, Places
  <1>g. \A u \in Threads, d \in Conns : Owner(u, d)' <=> Owner(u, d)
    BY <1>a DEF Owner
  <1>h. /\ part'[t] = part[t] + 1
        /\ \A u \in Threads : u # t => part'[u] = part[u]
        /\ \A u \in Threads : 1..part[u] \subseteq 1..part'[u]
        /\ \A k \in 1..part'[t] : k \in 1..part[t] \/ k = part[t] + 1
        /\ part[t] + 1 \in 1..part'[t]
    BY <1>a DEF TypeOK
  <1>1. TypeOK'
    <2>1. part' \in [Threads -> Nat]
      BY <1>a DEF TypeOK
    <2>2. tx' \in [Conns -> SUBSET Writes] /\ writer' \in Conns \cup {None}
      BY <1>b, <1>c, <1>d DEF TypeOK
    <2>3. inTx' \subseteq Conns /\ disk' \subseteq Writes
      BY <1>b, <1>d DEF TypeOK
    <2> QED BY <1>a, <2>1, <2>2, <2>3 DEF TypeOK
  <1>2. Places'
    BY <1>a DEF Places, TypeOK
  <1>3. JobsOwned'
    BY <1>a DEF JobsOwned
  <1>4. Shared'
    BY <1>a DEF Shared
  <1> HIDE DEF w, c
  <1>i. \A d \in Conns : tx[d] \subseteq tx'[d] /\ \A x \in tx'[d] : x \in tx[d] \/ (d = c /\ x = w)
    BY <1>b, <1>c DEF TypeOK
  <1>j. inTx' = inTx /\ writer' \in {writer, c} /\ (writer' # writer => c \in inTx)
    BY <1>b
  <1>5. TxOwned'
    <2>1. \A d \in Conns \ inTx : tx'[d] = tx[d]
      BY <1>b, <1>c DEF TypeOK
    <2>2. writer' # None => writer' \in inTx'
      BY <1>j DEF TxOwned
    <2>3. \A d \in inTx' : \E u \in Threads : Owner(u, d)'
      BY <1>g, <1>j DEF TxOwned, TypeOK
    <2>4. life' # "closed" => \A u \in Threads : \A d \in Conns : Owner(u, d)' => d \in inTx'
      BY <1>a, <1>g, <1>j DEF TxOwned
    <2>5. \A d \in Conns \ inTx' : tx'[d] = {}
      BY <2>1, <1>j DEF TxOwned
    <2> QED BY <2>2, <2>3, <2>4, <2>5 DEF TxOwned
  <1>6. TxContents'
    <2>1. ASSUME NEW d \in Conns, NEW x \in tx'[d], x.job \in Batches \ loose'
          PROVE  \E u \in Threads : Owner(u, d)' /\ job'[u] = x.job /\ x.part \in 1..part'[u]
      <3>1. CASE x \in tx[d]
        <4>1. PICK u \in Threads : Owner(u, d) /\ job[u] = x.job /\ x.part \in 1..part[u]
          BY <3>1, <2>1, <1>a DEF TxContents
        <4> QED BY <4>1, <1>a, <1>g, <1>h
      <3>2. CASE d = c /\ x = w
        <4>1. x.job = job[t] /\ x.part = part[t] + 1
          BY <3>2 DEF w
        <4> QED BY <4>1, <3>2, <2>1, <1>a, <1>e, <1>g, <1>h
      <3> QED BY <3>1, <3>2, <1>i
    <2>2. ASSUME NEW u \in Threads, NEW d \in Conns, Owner(u, d)', job'[u] \in Batches,
                 NEW k \in 1..part'[u]
          PROVE  [job |-> job'[u], part |-> k] \in tx'[d]
      <3>1. Owner(u, d) /\ job'[u] = job[u] /\ d \in inTx
        BY <2>2, <1>a, <1>g DEF TxOwned
      <3>2. CASE k \in 1..part[u]
        <4>1. [job |-> job[u], part |-> k] \in tx[d]
          BY <3>1, <3>2, <2>2, <1>a DEF TxContents
        <4> QED BY <4>1, <3>1, <1>i
      <3>3. CASE k \notin 1..part[u]
        <4>1. u = t /\ k = part[t] + 1 /\ d = c
          BY <3>1, <3>3, <2>2, <1>f, <1>h
        <4>2. w \in tx'[c]
          BY <4>1, <3>1, <2>2, <1>b, <1>c DEF TypeOK
        <4> QED BY <4>1, <4>2, <3>1 DEF w
      <3> QED BY <3>2, <3>3
    <2> QED BY <2>1, <2>2, <1>a DEF TxContents
  <1>7. AllOrNothing'
    <2>1. ASSUME NEW j \in Batches \ loose
          PROVE  PartsOnDisk(j)' = PartsOnDisk(j)
      <3>1. CASE disk' = disk
        BY <3>1 DEF PartsOnDisk
      <3>2. CASE c \notin inTx /\ disk' = disk \cup {w}
        <4>1. j # w.job
          <5>1. j # job[t]
            BY <2>1, <3>2, <1>a, <1>c, <1>e DEF TxOwned
          <5> QED BY <5>1 DEF w
        <4> QED BY <4>1, <3>2 DEF PartsOnDisk
      <3> QED BY <3>1, <3>2, <1>b
    <2> QED BY <2>1, <1>a DEF AllOrNothing
  <1> QED BY <1>1, <1>2, <1>3, <1>4, <1>5, <1>6, <1>7

\* Nesting changes the depth only.
LEMMA EnterInv ==
  ASSUME IInv, NEW t \in Threads, Enter(t)
  PROVE  IInv'
  <1> USE DatabaseAssumption DEF Enter, poolVars, sqliteVars, IInv
  <1>1. TypeOK'
    BY PoolType DEF TypeOK
  <1>2. Places'
    BY DEF Places, TypeOK
  <1>3. JobsOwned'
    BY DEF JobsOwned, TypeOK
  <1>4. Shared'
    BY DEF Shared, TypeOK
  <1>5. TxOwned'
    BY DEF TxOwned, Owner, TypeOK
  <1>6. TxContents'
    BY DEF TxContents, Owner, TypeOK
  <1>7. AllOrNothing'
    BY DEF AllOrNothing, PartsOnDisk, TypeOK
  <1> QED BY <1>1, <1>2, <1>3, <1>4, <1>5, <1>6, <1>7

\* So does leaving an inner transaction.
LEMMA ExitInv ==
  ASSUME IInv, NEW t \in Threads, Exit(t)
  PROVE  IInv'
  <1> USE DatabaseAssumption DEF Exit, Outermost, poolVars, sqliteVars, IInv
  <1>1. TypeOK'
    BY PoolType DEF TypeOK
  <1>2. Places'
    BY DEF Places, TypeOK
  <1>3. JobsOwned'
    BY DEF JobsOwned, TypeOK
  <1>4. Shared'
    BY DEF Shared, TypeOK
  <1>5. TxOwned'
    BY DEF TxOwned, Owner, TypeOK
  <1>6. TxContents'
    BY DEF TxContents, Owner, TypeOK
  <1>7. AllOrNothing'
    BY DEF AllOrNothing, PartsOnDisk, TypeOK
  <1> QED BY <1>1, <1>2, <1>3, <1>4, <1>5, <1>6, <1>7

\* The pool is emptied.
LEMMA CloseDrainInv ==
  ASSUME IInv, CloseDrain
  PROVE  IInv'
  <1> USE DatabaseAssumption DEF CloseDrain, threadVars, sqliteVars, IInv
  <1>1. TypeOK'
    BY PoolType DEF TypeOK
  <1>2. Places'
    BY DEF Places, TypeOK
  <1>3. JobsOwned'
    BY DEF JobsOwned, TypeOK
  <1>4. Shared'
    BY DEF Shared, TypeOK
  <1>5. TxOwned'
    BY DEF TxOwned, Owner, TypeOK
  <1>6. TxContents'
    BY DEF TxContents, Owner, TypeOK
  <1>7. AllOrNothing'
    BY DEF AllOrNothing, PartsOnDisk, TypeOK
  <1> QED BY <1>1, <1>2, <1>3, <1>4, <1>5, <1>6, <1>7

\* Every transaction ends without a commit.
LEMMA CloseConnectionsInv ==
  ASSUME IInv, CloseConnections
  PROVE  IInv'
  <1> USE DatabaseAssumption DEF CloseConnections, threadVars, IInv
  <1>1. TypeOK'
    BY PoolType DEF TypeOK
  <1>2. Places'
    BY DEF Places, TypeOK
  <1>3. JobsOwned'
    BY DEF JobsOwned, TypeOK
  <1>4. Shared'
    BY DEF Shared, TypeOK
  <1>5. TxOwned'
    BY DEF TxOwned, Owner, TypeOK
  <1>6. TxContents'
    BY DEF TxContents, Owner, TypeOK
  <1>7. AllOrNothing'
    BY DEF AllOrNothing, PartsOnDisk, TypeOK
  <1> QED BY <1>1, <1>2, <1>3, <1>4, <1>5, <1>6, <1>7
--------------------------------------------------------------------------------
(* The end of a job. *)

\* What becomes of the thread's transaction.
Ends(t) == IF Owns(t) /\ job[t] \in Transactions
             THEN EndTx(held[t])
             ELSE UNCHANGED <<inTx, tx, writer>>

\* The connection goes back, the thread's transaction is closed, nobody else's is touched.
LEMMA LeaveInv ==
  ASSUME IInv, NEW t \in Threads, NEW result \in {"returned", "raised"},
         place[t] = "body", Ends(t), Leave(t, result),
         UNCHANGED <<life, loose>>, disk' \subseteq Writes
  PROVE  TypeOK' /\ Places' /\ JobsOwned' /\ Shared' /\ TxOwned' /\ TxContents'
  <1> USE DatabaseAssumption DEF Jobs, Transactions, IInv
  <1>a. /\ job[t] \in Jobs /\ job[t] # None /\ held[t] \in Conns \cup {None} /\ None \notin Conns
        /\ outcome[job[t]] = "none"
    BY DEF Places, JobsOwned, TypeOK
  <1>b. /\ held' = [held EXCEPT ![t] = None]
        /\ job' = [job EXCEPT ![t] = None]
        /\ place' = [place EXCEPT ![t] = "idle"]
        /\ part' = [part EXCEPT ![t] = 0]
        /\ outcome' = [outcome EXCEPT ![job[t]] = result]
        /\ pool' = IF held[t] # None THEN Append(pool, held[t]) ELSE pool
        /\ bound' = IF held[t] # None THEN [bound EXCEPT ![t] = None] ELSE bound
        /\ depth' = [depth EXCEPT ![t] = IF held[t] # None THEN 0 ELSE 1]
    BY DEF Leave, PutBack, Owns
  <1>c. /\ held'[t] = None /\ job'[t] = None /\ place'[t] = "idle" /\ part'[t] = 0
        /\ \A u \in Threads : u # t =>
             held'[u] = held[u] /\ job'[u] = job[u] /\ place'[u] = place[u] /\ part'[u] = part[u]
    BY <1>b DEF TypeOK
  <1>d. \/ /\ held[t] \in Conns /\ job[t] \in Transactions /\ Owner(t, held[t])
           /\ inTx' = inTx \ {held[t]}
           /\ tx' = [tx EXCEPT ![held[t]] = {}]
           /\ writer' = IF writer = held[t] THEN None ELSE writer
        \/ /\ ~(held[t] # None /\ job[t] \in Transactions)
           /\ UNCHANGED <<inTx, tx, writer>>
    BY <1>a DEF Ends, EndTx, Owns, Owner
  <1>1. TypeOK'
    <2>1. pool' \in Seq(Conns) /\ bound' \in [Threads -> Conns \cup {None}]
      BY <1>a, <1>b, PoolType DEF TypeOK
    <2>2. depth' \in [Threads -> Nat] /\ part' \in [Threads -> Nat]
      BY <1>b DEF TypeOK
    <2>3. /\ held' \in [Threads -> Conns \cup {None}] /\ job' \in [Threads -> Jobs \cup {None}]
          /\ place' \in [Threads -> {"idle", "taking", "beginning", "body"}]
      BY <1>b DEF TypeOK
    <2>4. outcome' \in [Jobs -> {"none", "returned", "raised"}]
      BY <1>a, <1>b DEF TypeOK
    <2>5. inTx' \subseteq Conns /\ tx' \in [Conns -> SUBSET Writes] /\ writer' \in Conns \cup {None}
      BY <1>d DEF TypeOK
    <2> QED BY <2>1, <2>2, <2>3, <2>4, <2>5 DEF TypeOK
  <1>2. Places'
    <2>1. \A u \in Threads : u # t => bound'[u] = bound[u]
      BY <1>b DEF TypeOK
    <2> QED BY <2>1, <1>c DEF Places
  <1>3. JobsOwned'
    <2>1. \A u \in Threads : u # t /\ job[u] # None => outcome'[job[u]] = outcome[job[u]]
      BY <1>a, <1>b DEF JobsOwned, TypeOK
    <2> QED BY <2>1, <1>c DEF JobsOwned
  <1>4. Shared'
    <2>1. CASE held[t] = None
      BY <2>1, <1>b, <1>c DEF Shared
    <2>2. CASE held[t] # None
      <3>1. /\ Len(pool') = Len(pool) + 1
            /\ \A i \in 1..Len(pool') : pool'[i] = IF i = Len(pool) + 1 THEN held[t] ELSE pool[i]
            /\ 1..Len(pool') = 1..Len(pool) \cup {Len(pool) + 1}
            /\ Len(pool) + 1 \notin 1..Len(pool)
        BY <2>2, <1>a, <1>b DEF TypeOK
      <3>2. \A u, v \in Threads : held'[u] = held'[v] /\ held'[u] # None => u = v
        BY <1>c DEF Shared
      <3>3. \A i, k \in 1..Len(pool') : pool'[i] = pool'[k] => i = k
        BY <3>1 DEF Shared
      <3>4. \A i \in 1..Len(pool') : \A u \in Threads : held'[u] # pool'[i]
        <4>1. \A i \in 1..Len(pool) : pool[i] # None
          BY <1>a DEF TypeOK
        <4>2. \A u \in Threads \ {t} : held[u] # held[t]
          BY <2>2 DEF Shared
        <4> QED BY <4>1, <4>2, <3>1, <2>2, <1>c DEF Shared
      <3>5. ASSUME life' = "open", NEW c \in Conns
            PROVE  (\E i \in 1..Len(pool') : pool'[i] = c) \/ (\E u \in Threads : held'[u] = c)
        BY <3>1, <3>5, <1>a, <1>c DEF Shared
      <3> QED BY <3>2, <3>3, <3>4, <3>5 DEF Shared
    <2> QED BY <2>1, <2>2
  <1>e. \A u \in Threads, c \in Conns : Owner(u, c)' <=> Owner(u, c) /\ u # t
    BY <1>a, <1>c DEF Owner
  <1>f. \A u \in Threads, c \in Conns : Owner(u, c) /\ u # t => c # held[t]
    BY <1>a DEF Owner, Shared
  <1>g. \A c \in Conns : \/ c = held[t] /\ job[t] \in Transactions /\ tx'[c] = {} /\ c \notin inTx'
                         \/ /\ c # held[t] \/ job[t] \notin Transactions
                            /\ tx'[c] = tx[c] /\ (c \in inTx' <=> c \in inTx)
    BY <1>a, <1>d DEF TypeOK
  <1>5. TxOwned'
    <2>1. \A c \in inTx' : \E u \in Threads : Owner(u, c)'
      <3> SUFFICES ASSUME NEW c \in inTx' PROVE \E u \in Threads : Owner(u, c)'
        OBVIOUS
      <3>1. c \in inTx /\ c \in Conns /\ (c # held[t] \/ job[t] \notin Transactions)
        BY <1>1, <1>g DEF TypeOK
      <3>2. PICK u \in Threads : Owner(u, c)
        BY <3>1 DEF TxOwned
      <3>3. u # t
        BY <3>1, <3>2 DEF Owner
      <3> QED BY <3>1, <3>2, <3>3, <1>e
    <2>2. life' # "closed" => \A u \in Threads : \A c \in Conns : Owner(u, c)' => c \in inTx'
      BY <1>e, <1>f, <1>g DEF TxOwned
    <2>3. writer' # None => writer' \in inTx'
      BY <1>a, <1>d DEF TxOwned
    <2>4. \A c \in Conns \ inTx' : tx'[c] = {}
      BY <1>g DEF TxOwned
    <2> QED BY <2>1, <2>2, <2>3, <2>4 DEF TxOwned
  <1>6. TxContents'
    <2>1. ASSUME NEW c \in Conns, NEW w \in tx'[c], w.job \in Batches \ loose'
          PROVE  \E u \in Threads : Owner(u, c)' /\ job'[u] = w.job /\ w.part \in 1..part'[u]
      <3>1. w \in tx[c] /\ (c # held[t] \/ job[t] \notin Transactions)
        BY <2>1, <1>g
      <3>2. PICK u \in Threads : Owner(u, c) /\ job[u] = w.job /\ w.part \in 1..part[u]
        BY <3>1, <2>1 DEF TxContents
      <3>3. u # t
        BY <3>1, <3>2 DEF Owner
      <3> QED BY <3>2, <3>3, <1>c, <1>e
    <2>2. life' # "closed" =>
            \A u \in Threads : \A c \in Conns : Owner(u, c)' /\ job'[u] \in Batches =>
              \A k \in 1..part'[u] : [job |-> job'[u], part |-> k] \in tx'[c]
      BY <1>c, <1>e, <1>f, <1>g DEF TxContents
    <2> QED BY <2>1, <2>2 DEF TxContents
  <1> QED BY <1>1, <1>2, <1>3, <1>4, <1>5, <1>6

\* A job that raises leaves nothing on disk.
LEMMA FailInv ==
  ASSUME IInv, NEW t \in Threads, Fail(t)
  PROVE  IInv'
  <1> USE DatabaseAssumption DEF Jobs, IInv
  <1>a. /\ place[t] = "body" /\ Ends(t) /\ Leave(t, "raised")
        /\ UNCHANGED <<life, loose>> /\ disk' = disk
    BY DEF Fail, Ends
  <1>1. TypeOK' /\ Places' /\ JobsOwned' /\ Shared' /\ TxOwned' /\ TxContents'
    BY <1>a, LeaveInv DEF TypeOK
  <1>2. AllOrNothing'
    <2>1. outcome[job[t]] = "none" /\ job[t] \in Jobs
      BY <1>a DEF Places, JobsOwned, TypeOK
    <2>2. \A j \in Batches : outcome'[j] = "returned" <=> outcome[j] = "returned"
      BY <2>1, <1>a DEF Leave, TypeOK
    <2> QED BY <2>2, <1>a DEF AllOrNothing, PartsOnDisk
  <1> QED BY <1>1, <1>2

\* A job that returns has left its own parts on disk, all of them and nobody else's.
LEMMA FinishInv ==
  ASSUME IInv, NEW t \in Threads, Finish(t)
  PROVE  IInv'
  <1>o. \A j \in Batches \ loose : PartsOnDisk(j) = IF outcome[j] = "returned" THEN [job : {j}, part : 1..Size] ELSE {}
    BY DEF IInv, AllOrNothing
  <1> USE DatabaseAssumption DEF Jobs, Transactions, IInv
  <1>a. /\ place[t] = "body" /\ Ends(t) /\ Leave(t, "returned")
        /\ UNCHANGED <<life, loose>>
        /\ part[t] = JobSize(job[t])
    BY DEF Finish, Ends, sqliteVars
  <1>b. /\ job[t] \in Jobs /\ held[t] \in Conns \cup {None} /\ None \notin Conns
        /\ outcome[job[t]] = "none"
    BY <1>a DEF Places, JobsOwned, TypeOK
  <1>c. \/ /\ held[t] \in Conns /\ job[t] \in Transactions /\ Owner(t, held[t])
           /\ life # "closed"
           /\ disk' = disk \cup tx[held[t]]
        \/ /\ ~(held[t] # None /\ job[t] \in Transactions)
           /\ disk' = disk
    BY <1>a, <1>b DEF Finish, Owns, Owner, sqliteVars
  <1>1. TypeOK' /\ Places' /\ JobsOwned' /\ Shared' /\ TxOwned' /\ TxContents'
    <2>1. disk' \subseteq Writes
      BY <1>c DEF TypeOK
    <2> QED BY <2>1, <1>a, LeaveInv
  <1>2. ASSUME NEW j \in Batches \ loose'
        PROVE  PartsOnDisk(j)' =
                 IF outcome'[j] = "returned" THEN [job : {j}, part : 1..Size] ELSE {}
    <2>1. j \in Batches \ loose /\ (j = job[t] => held[t] # None /\ job[t] \in Transactions)
      BY <1>2, <1>a DEF Places
    <2>2. outcome'[j] = IF j = job[t] THEN "returned" ELSE outcome[j]
      BY <2>1, <1>a, <1>b DEF Leave, TypeOK
    <2>3. PartsOnDisk(j) = IF outcome[j] = "returned" THEN [job : {j}, part : 1..Size] ELSE {}
      BY <1>o, <2>1
    <2>4. ASSUME held[t] \in Conns, NEW w \in tx[held[t]], w.job = j
          PROVE  job[t] = j /\ w.part \in 1..part[t]
      <3>1. PICK u \in Threads : Owner(u, held[t]) /\ job[u] = w.job /\ w.part \in 1..part[u]
        BY <2>1, <2>4 DEF TxContents
      <3>2. u = t
        BY <3>1, <2>4, <1>b DEF Owner, Shared
      <3> QED BY <3>1, <3>2, <2>4
    <2>5. CASE j # job[t]
      <3>1. PartsOnDisk(j)' = PartsOnDisk(j)
        BY <2>4, <2>5, <1>c DEF PartsOnDisk
      <3> QED BY <3>1, <2>2, <2>3, <2>5
    <2>6. CASE j = job[t]
      <3>1. /\ held[t] \in Conns /\ Owner(t, held[t]) /\ life # "closed"
            /\ disk' = disk \cup tx[held[t]] /\ part[t] = Size
        BY <2>1, <2>6, <1>a, <1>c DEF JobSize
      <3>2. PartsOnDisk(j) = {}
        BY <2>3, <2>6, <1>b
      <3>3. PartsOnDisk(j)' = {w \in tx[held[t]] : w.job = j}
        BY <3>1, <3>2 DEF PartsOnDisk
      <3>4. ASSUME NEW w \in tx[held[t]], w.job = j
            PROVE  w \in [job : {j}, part : 1..Size]
        <4>1. w \in Writes
          BY <3>1 DEF TypeOK
        <4> QED BY <4>1, <3>1, <3>4, <2>4 DEF Writes
      <3>5. ASSUME NEW k \in 1..Size
            PROVE  [job |-> j, part |-> k] \in tx[held[t]]
        BY <3>1, <3>5, <2>1, <2>6 DEF TxContents
      <3>6. [job : {j}, part : 1..Size] \subseteq {w \in tx[held[t]] : w.job = j}
        BY <3>5
      <3> QED BY <3>3, <3>4, <3>6, <2>2, <2>6
    <2> QED BY <2>5, <2>6
  <1> QED BY <1>1, <1>2 DEF AllOrNothing

--------------------------------------------------------------------------------
(* The theorems. *)

\* Every step preserves the invariant.
LEMMA StepInv == IInv /\ [Next]_vars => IInv'
  <1> SUFFICES ASSUME IInv, [Next]_vars PROVE IInv'
    OBVIOUS
  <1>1. ASSUME NEW t \in Threads, ThreadStep(t)
        PROVE  IInv'
    <2>1. ASSUME NEW j \in Calls[t], Call(t, j)
          PROVE  IInv'
      <3>1. j \in Jobs
        BY DatabaseAssumption
      <3> QED BY <2>1, <3>1, CallInv
    <2>2. CASE Take(t)
      BY <2>2, TakeInv
    <2>3. CASE Begin(t)
      BY <2>3, BeginInv
    <2>4. CASE BeginFails(t)
      BY <2>4, BeginFailsInv
    <2>5. CASE Statement(t)
      BY <2>5, StatementInv
    <2>6. CASE Enter(t)
      BY <2>6, EnterInv
    <2>7. CASE Exit(t)
      BY <2>7, ExitInv
    <2>8. CASE Fail(t)
      BY <2>8, FailInv
    <2>9. CASE Finish(t)
      BY <2>9, FinishInv
    <2> QED BY <1>1, <2>1, <2>2, <2>3, <2>4, <2>5, <2>6, <2>7, <2>8, <2>9 DEF ThreadStep
  <1>2. CASE CloseDrain
    BY <1>2, CloseDrainInv
  <1>3. CASE CloseConnections
    BY <1>3, CloseConnectionsInv
  <1>4. CASE UNCHANGED vars
    BY <1>4 DEF vars, poolVars, threadVars, sqliteVars, IInv, TypeOK, Places, JobsOwned, Shared,
                TxOwned, TxContents, AllOrNothing, PartsOnDisk, Owner
  <1> QED BY <1>1, <1>2, <1>3, <1>4 DEF Next

\* So it always holds.
LEMMA Invariance == Spec => []IInv
  BY InitInv, StepInv, PTL DEF Spec

\* The state has its types.
THEOREM TypeCorrect == Spec => []TypeOK
  <1>1. IInv => TypeOK
    BY DEF IInv
  <1> QED BY <1>1, Invariance, PTL

\* The pool neither loses a connection nor hands one out twice, and none returns to it with
\* a transaction (acquire and transaction with every exception they can meet).
THEOREM PoolCorrect == Spec => []ConnectionsAccounted
  <1>1. IInv => ConnectionsAccounted
    <2> SUFFICES ASSUME IInv, life = "open", NEW c \in Conns
                 PROVE  \/ /\ \E i \in DOMAIN pool :
                                pool[i] = c /\ \A k \in DOMAIN pool : pool[k] = c => k = i
                           /\ \A t \in Threads : held[t] # c
                           /\ c \notin inTx
                        \/ /\ c \notin Range(pool)
                           /\ \E t \in Threads : held[t] = c /\ \A u \in Threads : held[u] = c => u = t
      BY DEF ConnectionsAccounted
    <2>1. DOMAIN pool = 1..Len(pool) /\ None # c
      BY DatabaseAssumption DEF IInv, TypeOK
    <2>2. CASE \E i \in 1..Len(pool) : pool[i] = c
      <3>1. \A t \in Threads : held[t] # c
        BY <2>2 DEF IInv, Shared
      <3>2. c \notin inTx
        BY <3>1 DEF IInv, TxOwned, Owner
      <3> QED BY <3>1, <3>2, <2>1, <2>2 DEF IInv, Shared
    <2>3. CASE ~ \E i \in 1..Len(pool) : pool[i] = c
      <3>1. c \notin Range(pool)
        BY <2>1, <2>3 DEF Range
      <3>2. \E t \in Threads : held[t] = c
        BY <2>3 DEF IInv, Shared
      <3> QED BY <3>1, <3>2, <2>1 DEF IInv, Shared
    <2> QED BY <2>2, <2>3
  <1> QED BY <1>1, Invariance, PTL

\* The write lock and every open transaction belong to a thread that is in it (the
\* outermost transaction, which begins and ends for all the nested ones).
THEOREM LockCorrect == Spec => []LockReleased
  <1>1. IInv => LockReleased
    BY DEF IInv, TxOwned, Owner, LockReleased
  <1> QED BY <1>1, Invariance, PTL

\* A write transaction that began as one is on disk as a whole if it returned, and not at
\* all if not (COMMIT and ROLLBACK of the outermost transaction).
THEOREM Atomicity == Spec => []AllOrNothing
  <1>1. IInv => AllOrNothing
    BY DEF IInv
  <1> QED BY <1>1, Invariance, PTL

--------------------------------------------------------------------------------
(* Somebody can always go on. *)

\* Where a thread is in its nesting, and that it executes no more statements than it has.
Depths ==
  \A t \in Threads :
    /\ bound[t] # None /\ place[t] = "idle" => depth[t] = 1
    /\ place[t] = "beginning" => depth[t] = 1
    /\ place[t] = "body" =>
         /\ part[t] <= JobSize(job[t])
         /\ job[t] \in Batches => depth[t] >= Outermost(t)
         /\ job[t] \in Reads => depth[t] = Outermost(t)

\* A step of another thread leaves a thread where it is.
LEMMA DepthsElsewhere ==
  ASSUME IInv, Depths, NEW t \in Threads, NEW u \in Threads \ {t}, ThreadStep(t)
  PROVE  /\ bound'[u] = bound[u] /\ depth'[u] = depth[u] /\ held'[u] = held[u]
         /\ job'[u] = job[u] /\ place'[u] = place[u] /\ part'[u] = part[u]
  <1> USE DEF IInv, TypeOK
  <1>1. ASSUME NEW j, Call(t, j) PROVE UNCHANGED <<bound[u], depth[u], held[u], job[u], place[u], part[u]>>
    BY <1>1 DEF Call
  <1>2. CASE Take(t)
    BY <1>2 DEF Take
  <1>3. CASE Begin(t)
    BY <1>3 DEF Begin
  <1>4. CASE BeginFails(t)
    BY <1>4 DEF BeginFails, PutBack
  <1>5. CASE Statement(t)
    BY <1>5 DEF Statement
  <1>6. CASE Enter(t) \/ Exit(t)
    BY <1>6 DEF Enter, Exit
  <1>7. CASE Fail(t) \/ Finish(t)
    BY <1>7 DEF Fail, Finish, Leave, PutBack
  <1> QED BY <1>1, <1>2, <1>3, <1>4, <1>5, <1>6, <1>7 DEF ThreadStep

\* A thread nests and executes as its job allows.
LEMMA DepthsHere ==
  ASSUME IInv, Depths, NEW t \in Threads, ThreadStep(t)
  PROVE  /\ bound'[t] # None /\ place'[t] = "idle" => depth'[t] = 1
         /\ place'[t] = "beginning" => depth'[t] = 1
         /\ place'[t] = "body" =>
              /\ part'[t] <= JobSize(job'[t])
              /\ job'[t] \in Batches => depth'[t] >= Outermost(t)'
              /\ job'[t] \in Reads => depth'[t] = Outermost(t)'
  <1> DEFINE Goal == /\ bound'[t] # None /\ place'[t] = "idle" => depth'[t] = 1
                     /\ place'[t] = "beginning" => depth'[t] = 1
                     /\ place'[t] = "body" =>
                          /\ part'[t] <= JobSize(job'[t])
                          /\ job'[t] \in Batches => depth'[t] >= Outermost(t)'
                          /\ job'[t] \in Reads => depth'[t] = Outermost(t)'
  <1> USE DatabaseAssumption DEF Jobs, Transactions, Owns, Outermost
  <1>a. /\ depth[t] \in Nat /\ part[t] \in Nat /\ job[t] \in Jobs \cup {None} /\ pool \in Seq(Conns)
        /\ \A j : JobSize(j) \in Nat \ {0}
    BY DEF IInv, TypeOK, JobSize
  <1>b. /\ place[t] = "idle" <=> job[t] = None
        /\ place[t] \in {"idle", "taking"} => held[t] = None
        /\ place[t] = "beginning" => held[t] # None /\ bound[t] = held[t]
        /\ place[t] = "body" /\ held[t] = None => bound[t] # None
        /\ place[t] # "body" => part[t] = 0
    BY DEF IInv, Places
  <1>1. ASSUME NEW j \in Calls[t], Call(t, j) PROVE Goal
    <2>1. /\ job[t] = None /\ place[t] = "idle" /\ held'[t] = None /\ bound'[t] = bound[t] /\ part'[t] = 0
          /\ job'[t] = j
      BY <1>1, <1>b DEF Call, IInv, TypeOK
    <2>2. CASE bound[t] # None
      <3>1. place'[t] = "body" /\ depth[t] = 1 /\ depth'[t] = IF j \in Singles THEN 1 ELSE 2
        BY <1>1, <2>1, <2>2 DEF Call, IInv, TypeOK, Depths
      <3> QED BY <1>a, <2>1, <3>1
    <2>3. CASE bound[t] = None
      <3>1. place'[t] = "taking"
        BY <1>1, <2>3 DEF Call, IInv, TypeOK
      <3> QED BY <3>1
    <2> QED BY <2>2, <2>3
  <1>2. CASE Take(t)
    <2>1. PICK c \in Conns : c = pool[Len(pool)]
      BY <1>a, <1>2, PoolType DEF Take
    <2>2. /\ held'[t] = c /\ c # None /\ job'[t] = job[t] /\ part'[t] = 0
          /\ IF job[t] \in Singles THEN place'[t] = "body" ELSE place'[t] = "beginning" /\ depth'[t] = 1
      BY <1>2, <1>b, <2>1 DEF Take, IInv, TypeOK
    <2> QED BY <1>a, <2>2
  <1>3. CASE Begin(t)
    <2>1. /\ place'[t] = "body" /\ depth'[t] = 1 /\ held'[t] # None /\ job'[t] = job[t] /\ part'[t] = 0
      BY <1>3, <1>b DEF Begin, IInv, TypeOK, Depths
    <2> QED BY <1>a, <2>1
  <1>4. CASE BeginFails(t)
    BY <1>4 DEF BeginFails, IInv, TypeOK, Depths
  <1>5. CASE Statement(t)
    BY <1>5, <1>a DEF Statement, IInv, TypeOK, Depths
  <1>6. CASE Enter(t)
    BY <1>6, <1>a DEF Enter, IInv, TypeOK, Depths
  <1>7. CASE Exit(t)
    BY <1>7, <1>a DEF Exit, IInv, TypeOK, Depths
  <1>8. CASE Fail(t) \/ Finish(t)
    <2>1. /\ place'[t] = "idle" /\ bound'[t] = IF held[t] # None THEN None ELSE bound[t]
          /\ depth'[t] = IF held[t] # None THEN 0 ELSE 1
      BY <1>8 DEF Fail, Finish, Leave, IInv, TypeOK
    <2> QED BY <2>1
  <1> QED BY <1>1, <1>2, <1>3, <1>4, <1>5, <1>6, <1>7, <1>8 DEF ThreadStep

LEMMA DepthsStep == IInv /\ Depths /\ [Next]_vars => Depths'
  <1> SUFFICES ASSUME IInv, Depths, [Next]_vars PROVE Depths'
    OBVIOUS
  <1>1. ASSUME NEW t \in Threads, ThreadStep(t) PROVE Depths'
    <2>1. ASSUME NEW u \in Threads \ {t}
          PROVE  /\ bound'[u] = bound[u] /\ depth'[u] = depth[u] /\ held'[u] = held[u]
                 /\ job'[u] = job[u] /\ place'[u] = place[u] /\ part'[u] = part[u]
      BY <1>1, DepthsElsewhere
    <2> QED BY <1>1, <2>1, DepthsHere DEF Depths, Outermost, Owns
  <1>2. CASE CloseDrain \/ CloseConnections \/ UNCHANGED vars
    BY <1>2 DEF CloseDrain, CloseConnections, vars, threadVars, Depths, Outermost, Owns
  <1> QED BY <1>1, <1>2 DEF Next

\* The waits for a connection (acquire has no timeout) and for the write lock (BEGIN IMMEDIATE)
\* form no circle: who has the lock needs nothing more, and who waits for a connection waits for
\* threads that have one.
THEOREM NoDeadlock == Spec => []NoCircularWait
  <1>1. Init => Depths
    BY DEF Init, Depths
  <1>2. IInv /\ Depths => NoCircularWait
    <2> SUFFICES ASSUME IInv, Depths, life = "open", NEW w \in Threads, job[w] # None
                 PROVE  \E t \in Threads : GoesOn(t)
      BY DEF NoCircularWait
    <2> USE DatabaseAssumption DEF Jobs, Transactions, IInv
    <2>1. ASSUME NEW t \in Threads, place[t] \in {"beginning", "body"}, CanLock(Using(t)), CanLock(held[t])
          PROVE  GoesOn(t)
      <3>1. CASE place[t] = "beginning"
        BY <2>1, <3>1 DEF GoesOn
      <3>2. CASE place[t] = "body"
        <4>1. part[t] \in Nat /\ JobSize(job[t]) \in Nat /\ part[t] <= JobSize(job[t])
          BY <3>2 DEF Depths, TypeOK, JobSize
        <4>2. job[t] \in Transactions => depth[t] = Outermost(t) \/ (job[t] \in Batches /\ depth[t] > Outermost(t))
          <5>1. depth[t] \in Nat /\ Outermost(t) \in Nat
            BY DEF TypeOK, Outermost
          <5>2. (job[t] \in Batches => depth[t] >= Outermost(t)) /\ (job[t] \in Reads => depth[t] = Outermost(t))
            BY <3>2 DEF Depths
          <5> QED BY <5>1, <5>2
        <4>3. part[t] < JobSize(job[t]) \/ part[t] = JobSize(job[t])
          BY <4>1
        <4> QED BY <2>1, <3>2, <4>2, <4>3 DEF GoesOn
      <3> QED BY <2>1, <3>1, <3>2
    <2>2. CASE writer # None
      <3>1. PICK t \in Threads : held[t] = writer /\ place[t] = "body" /\ job[t] \in Transactions
        BY <2>2 DEF TxOwned, Owner
      <3>2. Using(t) = writer
        BY <2>2, <3>1 DEF Places, Using
      <3> QED BY <2>1, <3>1, <3>2 DEF CanLock
    <2>3. CASE writer = None
      <3>1. \A c : CanLock(c)
        BY <2>3 DEF CanLock
      <3>2. ASSUME NEW t \in Threads, place[t] \in {"beginning", "body"} PROVE GoesOn(t)
        BY <2>1, <3>1, <3>2
      <3>3. CASE place[w] # "taking" \/ pool # <<>>
        <4>1. place[w] \in {"taking", "beginning", "body"}
          BY DEF Places, TypeOK
        <4> QED BY <3>2, <3>3, <4>1 DEF GoesOn
      <3>4. CASE pool = <<>>
        <4>1. 1 \in Conns /\ 1..Len(pool) = {}
          BY <3>4 DEF Conns
        <4>2. PICK t \in Threads : held[t] = 1
          BY <4>1 DEF Shared
        <4>3. place[t] \in {"beginning", "body"}
          BY <4>1, <4>2 DEF Places, TypeOK
        <4> QED BY <3>2, <4>3
      <3> QED BY <3>3, <3>4
    <2> QED BY <2>2, <2>3
  <1> QED BY <1>1, <1>2, DepthsStep, Invariance, PTL DEF Spec

=================================================================================
