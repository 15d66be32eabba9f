----------------------------- MODULE AuditLogProofs -----------------------------
(***************************************************************************)
(* Invariants of AuditLog for any rotation interval and any bounds, and    *)
(* that its table keeps the promise of AuditTrail.                         *)
(***************************************************************************)
EXTENDS AuditLog, Integers, SequenceTheorems, TLAPS

Signed(i) == rows[i].key # Unsigned

LastSigned(i) == i \in DOMAIN rows /\ Signed(i) /\ (i < Len(rows) => ~Signed(i + 1))

\* How the three parts of the state that say where a session is go together.
Bookkeeping ==
  /\ phase # "idle" => stage = "open"
  /\ stage \in {"migrating", "signed", "open"} => state # NoState
  /\ state = NoState => \A i \in DOMAIN rows : ~Signed(i)
  /\ stage = "open" => rows # <<>>

\* No entry was signed with a later generation than the one the session, or the next
\* one, signs with, or moves to for that entry.
GenerationBound ==
  /\ \A i \in DOMAIN rows : Signed(i) =>
       /\ state # NoState => rows[i].key.gen <= state.gen \/ rows[i].key.gen <= Target(i)
       /\ stage # "locked" => rows[i].key.gen <= signer.gen \/ rows[i].key.gen <= Target(i)
  /\ stage \in {"registered", "migrating"} /\ state # NoState =>
       \/ signer.gen = state.gen
       \/ \A i \in DOMAIN rows : ~Signed(i) => signer.gen <= Target(i)

\* The anchor is the one of the last signed entry, but for the step between the two.
AnchorFollows ==
  /\ state # NoState /\ stage # "signed" /\ "seal" \notin damage =>
       \A i \in DOMAIN rows : LastSigned(i) => state.hash = HashOf(i) /\ state.key = rows[i].key
  /\ stage = "signed" => \A i \in DOMAIN rows : LastSigned(i) => rows[i].key = signer

\* The inductive invariant.
IInv ==
  /\ TypeOK /\ Bookkeeping /\ ChainSound
  /\ KeysOnlyAdvance /\ GenerationBound /\ AnchorFollows
--------------------------------------------------------------------------------
(* Arithmetic and the helpers. *)

\* Division rounds down.
LEMMA DivBounds ==
  ASSUME NEW c \in Nat \ {0}, NEW a \in Nat
  PROVE  /\ a \div c \in Nat
         /\ c * (a \div c) <= a
         /\ a < c * (a \div c) + c
  <1>1. a \div c \in Int
    BY SMT
  <1>2. a % c \in 0..(c - 1)
    BY SMT
  <1>3. a = c * (a \div c) + (a % c)
    BY SMT
  <1>4. a \div c >= 0
    BY <1>1, <1>2, <1>3, SMT
  <1> QED BY <1>1, <1>2, <1>3, <1>4, SMT

\* A factor passes through a difference of at least one.
LEMMA TimesMonotone ==
  ASSUME NEW c \in Nat \ {0}, NEW p \in Int, NEW q \in Int, p >= q + 1
  PROVE  c * p >= c * q + c
  OBVIOUS

\* Division is monotonic.
LEMMA DivMonotone ==
  ASSUME NEW c \in Nat \ {0}, NEW a \in Nat, NEW b \in Nat, a <= b
  PROVE  a \div c <= b \div c
  <1> DEFINE p == a \div c
             q == b \div c
  <1>1. p \in Nat /\ q \in Nat /\ c * p <= a /\ b < c * q + c
    BY DivBounds
  <1> HIDE DEF p, q
  <1>2. ~ (p >= q + 1)
    <2> SUFFICES ASSUME p >= q + 1 PROVE FALSE
      OBVIOUS
    <2>1. c * p >= c * q + c
      BY <1>1, TimesMonotone
    <2>2. c * p \in Nat /\ c * q \in Nat
      BY <1>1
    <2> QED BY <1>1, <2>1, <2>2
  <1> QED BY <1>1, <1>2 DEF p, q

\* The generation an entry asks for is a number and grows with the entry's.
LEMMA TargetFacts ==
  /\ \A n \in Nat \ {0} : Target(n) \in Nat
  /\ \A m, n \in Nat \ {0} : m <= n => Target(m) <= Target(n)
  <1>1. ASSUME NEW n \in Nat \ {0} PROVE Target(n) \in Nat
    <2>1. n - 1 \in Nat
      OBVIOUS
    <2> QED BY <2>1, DivBounds, AuditAssumption DEF Target
  <1>2. ASSUME NEW m \in Nat \ {0}, NEW n \in Nat \ {0}, m <= n
        PROVE  Target(m) <= Target(n)
    <2>1. m - 1 \in Nat /\ n - 1 \in Nat /\ m - 1 <= n - 1
      BY <1>2
    <2> QED BY <2>1, DivMonotone, AuditAssumption DEF Target
  <1> QED BY <1>1, <1>2

\* Registering adds at most the one key.
LEMMA RegisteredFacts ==
  ASSUME NEW table, table \subseteq KeyIds, NEW k \in KeyIds
  PROVE  table \subseteq Registered(k, table) /\ Registered(k, table) \subseteq KeyIds
  BY DEF Registered

\* A rotation for entry n takes the signer at least as far as the entry asks, and no
\* further than that if it moves it at all.
LEMMA RotationFacts ==
  ASSUME TypeOK, NEW n \in Nat \ {0}
  PROVE  /\ RotatedSigner(n) \in KeyIds
         /\ RotatedSigner(n).gen >= Target(n)
         /\ RotatedSigner(n).gen >= signer.gen
         /\ RotatedSigner(n) = signer \/ RotatedSigner(n).gen = Target(n)
         /\ keys \subseteq RotatedKeys(n)
         /\ RotatedKeys(n) \subseteq KeyIds
  <1>1. Target(n) \in Nat
    BY TargetFacts
  <1>2. signer \in KeyIds /\ active \in Nat /\ keys \subseteq KeyIds
    BY DEF TypeOK
  <1>3. keys \subseteq RotatedKeys(n) /\ RotatedKeys(n) \subseteq KeyIds
    BY <1>1, <1>2 DEF RotatedKeys, KeyIds
  <1> QED BY <1>1, <1>2, <1>3 DEF RotatedSigner, KeyIds

\* Every entry, and the place before the first, has a hash.
LEMMA HashType ==
  ASSUME TypeOK, NEW i \in 0..Len(rows)
  PROVE  HashOf(i) \in Hashes
  BY DEF HashOf, Hashes, Zero, TypeOK

\* An anchor over a hash is a state.
LEMMA AnchorType ==
  ASSUME NEW h \in Hashes, NEW k \in KeyIds
  PROVE  /\ Anchor(h, k) \in States /\ Anchor(h, k) # NoState
         /\ Anchor(h, k).hash = h /\ Anchor(h, k).key = k /\ Anchor(h, k).gen = k.gen
  BY UnsignedAssumption DEF Anchor, States, KeyIds

\* What a write that commits leaves: one entry more, signed and linked.
LEMMA WriteFacts ==
  ASSUME IInv, stage = "open", WriteCommits
  PROVE  /\ rows' \in Seq(Rows) /\ Len(rows') = Len(rows) + 1
         /\ \A i \in DOMAIN rows : rows'[i] = rows[i]
         /\ rows'[Len(rows) + 1] = [key |-> signer', prev |-> HeadHash]
         /\ signer' \in KeyIds /\ signer' \in keys'
         /\ signer' = RotatedSigner(Len(rows) + 1)
         /\ keys \subseteq keys' /\ keys' \subseteq KeyIds
         /\ state' \in States /\ state'.key = signer' /\ state'.gen = signer'.gen
         /\ state'.hash = [seq |-> Len(rows) + 1, signed |-> TRUE]
         /\ damage' = damage \ {"seal"}
  <1> DEFINE n == Len(rows) + 1
  <1>1. TypeOK /\ rows \in Seq(Rows) /\ n \in Nat \ {0}
    BY DEF IInv, TypeOK
  <1>2. signer' = RotatedSigner(n) /\ keys' = RotatedKeys(n) /\ signer' \in keys'
    BY DEF WriteCommits
  <1>3. signer' \in KeyIds /\ keys \subseteq keys' /\ keys' \subseteq KeyIds
    BY <1>1, <1>2, RotationFacts
  <1>4. HeadHash \in Hashes
    BY <1>1, HashType DEF HeadHash
  <1>5. [key |-> signer', prev |-> HeadHash] \in Rows
    BY <1>3, <1>4 DEF Rows
  <1>6. rows' = Append(rows, [key |-> signer', prev |-> HeadHash])
    BY <1>2 DEF WriteCommits
  <1>7. /\ rows' \in Seq(Rows) /\ Len(rows') = Len(rows) + 1
        /\ \A i \in DOMAIN rows : rows'[i] = rows[i]
        /\ rows'[Len(rows) + 1] = [key |-> signer', prev |-> HeadHash]
    BY <1>1, <1>5, <1>6
  <1>8. [seq |-> n, signed |-> TRUE] \in Hashes
    BY <1>1 DEF Hashes
  <1>9. state' = Anchor([seq |-> n, signed |-> TRUE], signer')
    BY <1>2 DEF WriteCommits
  <1>10. damage' = damage \ {"seal"}
    BY DEF WriteCommits
  <1> QED BY <1>2, <1>3, <1>7, <1>8, <1>9, <1>10, AnchorType

\* What a write that fails leaves alone, and where the signer may be.
LEMMA FailFacts ==
  ASSUME IInv, WriteFails
  PROVE  /\ rows' = rows /\ keys' = keys /\ state' = state
         /\ signer' \in KeyIds /\ signer'.gen >= signer.gen
         /\ damage \subseteq damage' /\ damage' \subseteq damage \cup {"rotation"}
  <1>1. TypeOK /\ Len(rows) + 1 \in Nat \ {0}
    BY DEF IInv, TypeOK
  <1>2. signer \in KeyIds /\ signer.gen \in Nat
    BY <1>1 DEF TypeOK, KeyIds
  <1> QED BY <1>1, <1>2, RotationFacts DEF WriteFails
--------------------------------------------------------------------------------
(* The initial states and the steps. *)

\* A new file satisfies the inductive invariant.
LEMMA InitIInv == Init => IInv
  <1> SUFFICES ASSUME Init PROVE IInv
    OBVIOUS
  <1>1. rows = <<>> /\ DOMAIN rows = {} /\ rows \in Seq(Rows)
    BY DEF Init
  <1>2. TypeOK
    BY <1>1 DEF Init, TypeOK, Stages, Phases, Starting, Blank, KeyIds
  <1> QED
    BY <1>1, <1>2 DEF Init, IInv, Bookkeeping, ChainSound, KeysOnlyAdvance, GenerationBound,
       AnchorFollows, LastSigned, Signed

\* Every step keeps the types.
LEMMA TypeStep ==
  ASSUME IInv, [Next]_vars
  PROVE  TypeOK'
  <1> USE DEF Stages, Phases, Starting, diskVars, tkVars
  <1>0. TypeOK /\ Bookkeeping
    BY DEF IInv
  <1>a. rows \in Seq(Rows) /\ signer \in KeyIds /\ active \in Nat /\ master \in Nat /\ keys \subseteq KeyIds
    BY <1>0 DEF TypeOK
  <1>1. CASE FailedLogin
    <2>1. HeadHash \in Hashes
      BY <1>0, <1>a, HashType DEF HeadHash
    <2>2. [key |-> Unsigned, prev |-> HeadHash] \in Rows
      BY <2>1 DEF Rows
    <2>3. rows' \in Seq(Rows)
      BY <1>a, <1>1, <2>2 DEF FailedLogin
    <2> QED BY <1>0, <1>1, <2>3 DEF FailedLogin, TypeOK
  <1>2. CASE StartLogger
    <2> DEFINE k == [gen |-> IF state = NoState THEN 0 ELSE state.gen, master |-> master]
    <2>1. k \in KeyIds
      BY <1>0 DEF TypeOK, States, KeyIds
    <2>2. signer' = k /\ keys' = Registered(k, keys)
      BY <1>2 DEF StartLogger
    <2>3. keys' \subseteq KeyIds
      BY <1>a, <2>1, <2>2, RegisteredFacts
    <2> QED BY <1>0, <1>2, <2>1, <2>2, <2>3 DEF StartLogger, TypeOK
  <1>3. CASE EnsureState
    <2>1. Zero \in Hashes
      BY DEF Zero, Hashes
    <2>2. state' \in States \cup {NoState}
      BY <1>0, <1>a, <1>3, <2>1, AnchorType DEF EnsureState, TypeOK
    <2> QED BY <1>0, <1>3, <2>2 DEF EnsureState, TypeOK
  <1>4. CASE MigrateRotate
    <2>1. signer' = [gen |-> signer.gen + 1, master |-> active] /\ keys' = Registered(signer', keys)
      BY <1>4 DEF MigrateRotate
    <2>2. signer' \in KeyIds
      BY <1>a, <2>1 DEF KeyIds
    <2>3. keys' \subseteq KeyIds
      BY <1>a, <2>1, <2>2, RegisteredFacts
    <2> QED BY <1>0, <1>4, <2>2, <2>3 DEF MigrateRotate, TypeOK
  <1>5. CASE MigrateSign
    <2>1. rows' \in Seq(Rows)
      <3>1. PICK i \in DOMAIN rows :
              rows' = rows \/ rows' = [rows EXCEPT ![i] = [key |-> signer, prev |-> HashOf(i - 1)]]
        BY <1>5 DEF MigrateSign
      <3>2. i - 1 \in 0..Len(rows)
        BY <1>a
      <3>3. [key |-> signer, prev |-> HashOf(i - 1)] \in Rows
        BY <1>0, <1>a, <3>2, HashType DEF Rows
      <3> QED BY <1>a, <3>1, <3>3
    <2>2. stage' \in {"signed", "failed"}
      BY <1>5 DEF MigrateSign
    <2> QED BY <1>0, <1>5, <2>1, <2>2 DEF MigrateSign, TypeOK
  <1>6. CASE MigrateAnchor
    <2>1. PICK i \in DOMAIN rows : state' = Anchor(HashOf(i), signer)
      BY <1>6 DEF MigrateAnchor
    <2>2. HashOf(i) \in Hashes
      BY <1>0, <1>a, HashType
    <2>3. state' \in States
      BY <1>a, <2>1, <2>2, AnchorType
    <2> QED BY <1>0, <1>6, <2>3 DEF MigrateAnchor, TypeOK
  <1>7. CASE Open
    <2>1. [key |-> signer, prev |-> Zero] \in Rows /\ [seq |-> 1, signed |-> TRUE] \in Hashes
      BY <1>a DEF Rows, Zero, Hashes
    <2>2. <<[key |-> signer, prev |-> Zero]>> \in Seq(Rows)
      BY <2>1
    <2>3. rows' = rows \/ rows' = <<[key |-> signer, prev |-> Zero]>>
      BY <1>7 DEF Open
    <2>4. state' = state \/ state' = Anchor([seq |-> 1, signed |-> TRUE], signer)
      BY <1>7 DEF Open
    <2>5. rows' \in Seq(Rows)
      BY <1>a, <2>2, <2>3
    <2>6. state' \in States \cup {NoState}
      BY <1>0, <1>a, <2>1, <2>4, AnchorType DEF TypeOK
    <2> QED BY <1>0, <1>7, <2>5, <2>6 DEF Open, TypeOK
  <1>8. ASSUME stage = "open", WriteCommits \/ WriteFails
        PROVE  /\ rows' \in Seq(Rows) /\ keys' \subseteq KeyIds /\ signer' \in KeyIds
               /\ state' \in States \cup {NoState} /\ damage' \subseteq {"rotation", "rekey", "seal"}
    <2>1. CASE WriteCommits
      BY <1>0, <1>8, <2>1, WriteFacts DEF TypeOK
    <2>2. CASE WriteFails
      BY <1>0, <1>8, <2>2, FailFacts DEF TypeOK
    <2> QED BY <1>8, <2>1, <2>2
  <1>9. CASE LogEvent
    BY <1>0, <1>8, <1>9 DEF LogEvent, LogFree, TypeOK
  <1>10. CASE LogEventAsync
    BY <1>0, <1>10 DEF LogEventAsync, TypeOK
  <1>11. CASE WorkerWrites
    <2>1. pending' \in Nat
      BY <1>0, <1>11 DEF WorkerWrites, TypeOK
    <2>3. error' \in BOOLEAN
      BY <1>0, <1>11, Zenon DEF WorkerWrites, TypeOK
    <2>2. WriteCommits \/ WriteFails
      BY <1>11 DEF WorkerWrites
    <2> QED BY <1>0, <1>8, <1>11, <2>1, <2>2, <2>3 DEF WorkerWrites, LogFree, TypeOK
  <1>12. ASSUME NEW scope \in {"full", "recent"}, VerifyBegin(scope)
         PROVE  TypeOK'
    <2> DEFINE f == IF scope = "recent" /\ Len(rows) > Recent THEN Len(rows) - Recent + 1 ELSE 1
    <2>3. f \in Nat
      BY <1>a, AuditAssumption
    <2>4. view' = view \/ view' = [scope |-> scope, first |-> f, last |-> 0, keys |-> {}]
      BY <1>12 DEF VerifyBegin, Blank
    <2> HIDE DEF f
    <2>1. view' \in [scope : {"full", "recent"}, first : Nat, last : Nat, keys : SUBSET KeyIds]
      BY <1>0, <2>3, <2>4 DEF TypeOK
    <2> QED BY <1>0, <1>12, <2>1 DEF VerifyBegin, TypeOK
  <1>13. CASE LoadRows \/ LoadKeys
    BY <1>0, <1>a, <1>13 DEF LoadRows, LoadKeys, TypeOK
  <1>14. CASE Judge
    <2>1. verdict' \in {"none", "valid", "tampered"}
      BY <1>14 DEF Judge
    <2> QED BY <1>0, <1>14, <2>1 DEF Judge, TypeOK, Blank
  <1>15. CASE ChangePassword
    BY <1>0, <1>15 DEF ChangePassword, TypeOK
  <1>15b. CASE ActivateKey
    BY <1>0, <1>15b DEF ActivateKey, TypeOK
  <1>15a. CASE RekeyRefused
    BY <1>0, <1>15a DEF RekeyRefused, TypeOK
  <1>16. CASE RekeyRegister
    <2>1. signer' = [gen |-> signer.gen + 1, master |-> active]
      BY <1>16 DEF RekeyRegister
    <2>2. signer' \in KeyIds
      BY <1>a, <2>1 DEF KeyIds
    <2>3. keys' \subseteq KeyIds
      BY <1>a, <1>16, <2>2, RegisteredFacts DEF RekeyRegister
    <2> QED BY <1>0, <1>16, <2>2, <2>3 DEF RekeyRegister, TypeOK
  <1>17. CASE RekeyState
    <2>1. state \in States
      BY <1>0, <1>17 DEF RekeyState, Bookkeeping, TypeOK
    <2>2. state' \in States
      BY <1>a, <1>17, <2>1 DEF RekeyState, States, KeyIds
    <2> QED BY <1>0, <1>17, <2>2 DEF RekeyState, TypeOK
  <1>18. CASE CloseLogger
    BY <1>0, <1>18 DEF CloseLogger, TypeOK
  <1>18a. CASE Crash
    <2>1. damage' \subseteq {"rotation", "rekey", "seal"}
      BY <1>0, <1>18a DEF Crash, TypeOK
    <2> QED BY <1>0, <1>18a, <2>1 DEF Crash, Blank, TypeOK
  <1>19. CASE UNCHANGED vars
    BY <1>0, <1>19 DEF vars, TypeOK
  <1> QED
    BY <1>1, <1>2, <1>3, <1>4, <1>5, <1>6, <1>7, <1>9, <1>10, <1>11, <1>12, <1>13, <1>14,
       <1>15, <1>15a, <1>15b, <1>16, <1>17, <1>18, <1>18a, <1>19
    DEF Next, StartStep, WriteStep, VerifyStep, RekeyStep
\* Every step keeps stage, phase and state together.
LEMMA BookStep ==
  ASSUME IInv, [Next]_vars
  PROVE  Bookkeeping'
  <1> USE DEF Bookkeeping, Signed, diskVars, tkVars
  <1>0. TypeOK /\ Bookkeeping /\ rows \in Seq(Rows) /\ signer \in KeyIds
    BY DEF IInv, TypeOK
  <1>1. CASE FailedLogin
    <2>1. /\ Len(rows') = Len(rows) + 1 /\ rows'[Len(rows) + 1].key = Unsigned
          /\ DOMAIN rows' = 1..(Len(rows) + 1) /\ DOMAIN rows = 1..Len(rows)
          /\ \A i \in DOMAIN rows : rows'[i] = rows[i]
      BY <1>0, <1>1 DEF FailedLogin
    <2> QED BY <1>0, <1>1, <2>1 DEF FailedLogin
  <1>2. CASE StartLogger
    BY <1>0, <1>2 DEF StartLogger
  <1>3. CASE EnsureState
    <2>1. Zero \in Hashes
      BY DEF Zero, Hashes
    <2> QED BY <1>0, <1>3, <2>1, AnchorType DEF EnsureState
  <1>4. CASE MigrateRotate
    BY <1>0, <1>4 DEF MigrateRotate
  <1>5. CASE MigrateSign
    BY <1>0, <1>5 DEF MigrateSign
  <1>6. CASE MigrateAnchor
    <2>1. PICK i \in DOMAIN rows : state' = Anchor(HashOf(i), signer)
      BY <1>6 DEF MigrateAnchor
    <2>2. state' # NoState
      BY <1>0, <2>1, HashType, AnchorType
    <2> QED BY <1>0, <1>6, <2>2 DEF MigrateAnchor
  <1>7. CASE Open
    <2>1. [seq |-> 1, signed |-> TRUE] \in Hashes
      BY DEF Hashes
    <2>2. state' # NoState /\ rows' # <<>>
      BY <1>0, <1>7, <2>1, AnchorType DEF Open
    <2> QED BY <1>0, <1>7, <2>2 DEF Open
  <1>8. ASSUME stage = "open", WriteCommits \/ WriteFails
        PROVE  state' # NoState /\ rows' # <<>>
    <2>1. CASE WriteCommits
      BY <1>0, <1>8, <2>1, WriteFacts, UnsignedAssumption
    <2>2. CASE WriteFails
      BY <1>0, <1>8, <2>2, FailFacts
    <2> QED BY <1>8, <2>1, <2>2
  <1>9. CASE LogEvent \/ WorkerWrites
    BY <1>0, <1>8, <1>9 DEF LogEvent, WorkerWrites, LogFree
  <1>10. CASE LogEventAsync
    BY <1>0, <1>10 DEF LogEventAsync
  <1>11. CASE VerifyStep
    BY <1>0, <1>11 DEF VerifyStep, VerifyBegin, LoadRows, LoadKeys, Judge
  <1>12. CASE ChangePassword \/ ActivateKey \/ RekeyRegister \/ RekeyRefused
    BY <1>0, <1>12 DEF ChangePassword, ActivateKey, RekeyRegister, RekeyRefused
  <1>13. CASE RekeyState
    <2>1. state' \in States
      BY <1>0, <1>13 DEF RekeyState, States, KeyIds, TypeOK
    <2> QED BY <1>0, <1>13, <2>1, UnsignedAssumption DEF RekeyState
  <1>14. CASE CloseLogger \/ Crash
    BY <1>0, <1>14 DEF CloseLogger, Crash
  <1>15. CASE UNCHANGED vars
    BY <1>0, <1>15 DEF vars
  <1> QED
    BY <1>1, <1>2, <1>3, <1>4, <1>5, <1>6, <1>7, <1>9, <1>10, <1>11, <1>12, <1>13, <1>14, <1>15
    DEF Next, StartStep, WriteStep, RekeyStep

\* Every step keeps the chain.
LEMMA ChainStep ==
  ASSUME IInv, [Next]_vars
  PROVE  ChainSound'
  <1> USE DEF diskVars, tkVars
  <1>0. TypeOK /\ ChainSound /\ rows \in Seq(Rows) /\ signer \in KeyIds /\ keys \subseteq KeyIds
    BY DEF IInv, TypeOK
  <1>a. Unsigned \notin KeyIds
    BY UnsignedAssumption
  <1>1. CASE FailedLogin
    <2>1. /\ rows'[Len(rows) + 1].key = Unsigned
          /\ DOMAIN rows' = 1..(Len(rows) + 1) /\ DOMAIN rows = 1..Len(rows) /\ Len(rows) \in Nat
          /\ \A i \in DOMAIN rows : rows'[i] = rows[i]
      BY <1>0, <1>1 DEF FailedLogin
    <2>2. keys' = keys /\ stage' = "locked"
      BY <1>1 DEF FailedLogin
    <2>3. \A i \in DOMAIN rows : HashOf(i - 1)' = HashOf(i - 1)
      BY <2>1 DEF HashOf
    <2>4. ASSUME NEW j \in DOMAIN rows', rows'[j].key # Unsigned
          PROVE  /\ rows'[j].key \in keys'
                 /\ rows'[j].prev = HashOf(j - 1)'
                 /\ \A k \in 1..(j - 1) : rows'[k].key # Unsigned
      <3>1. j \in DOMAIN rows /\ rows'[j] = rows[j]
        BY <2>1, <2>4
      <3>2. \A k \in 1..(j - 1) : rows'[k] = rows[k]
        BY <2>1, <3>1
      <3> QED BY <1>0, <2>2, <2>3, <2>4, <3>1, <3>2 DEF ChainSound
    <2> QED BY <2>2, <2>4 DEF ChainSound
  <1>2. ASSUME rows' = rows, keys \subseteq keys', stage' = "open" => stage = "open"
        PROVE  ChainSound'
    BY <1>0, <1>2 DEF ChainSound, HashOf
  <1>3. CASE StartLogger
    <2>1. keys \subseteq keys'
      BY <1>3 DEF StartLogger, Registered
    <2> QED BY <1>2, <1>3, <2>1 DEF StartLogger
  <1>4. CASE MigrateRotate
    <2>1. keys \subseteq keys'
      BY <1>4 DEF MigrateRotate, Registered
    <2> QED BY <1>2, <1>4, <2>1 DEF MigrateRotate
  <1>5. CASE MigrateSign
    <2>1. PICK i \in DOMAIN rows :
            /\ FirstUnsigned(i)
            /\ IF signer \in keys
                 THEN /\ rows' = [rows EXCEPT ![i] = [key |-> signer, prev |-> HashOf(i - 1)]]
                      /\ stage' = "signed"
                 ELSE UNCHANGED rows /\ stage' = "failed"
      BY <1>5 DEF MigrateSign
    <2>2. keys' = keys
      BY <1>5 DEF MigrateSign
    <2>3. CASE signer \in keys
      <3>1. /\ DOMAIN rows' = DOMAIN rows /\ DOMAIN rows = 1..Len(rows) /\ Len(rows) \in Nat
            /\ rows'[i] = [key |-> signer, prev |-> HashOf(i - 1)]
            /\ \A j \in DOMAIN rows : j # i => rows'[j] = rows[j]
            /\ stage' = "signed"
        BY <1>0, <2>1, <2>3
      <3>2. \A j \in 1..(i - 1) : rows[j].key # Unsigned
        BY <2>1 DEF FirstUnsigned
      <3>4. HashOf(i - 1)' = HashOf(i - 1)
        BY <3>1 DEF HashOf
      <3>5. ASSUME NEW j \in DOMAIN rows', rows'[j].key # Unsigned
            PROVE  /\ rows'[j].key \in keys'
                   /\ rows'[j].prev = HashOf(j - 1)'
                   /\ \A k \in 1..(j - 1) : rows'[k].key # Unsigned
        <4>1. CASE j = i
          <5>1. \A k \in 1..(j - 1) : rows'[k] = rows[k]
            BY <3>1, <4>1
          <5> QED BY <2>2, <2>3, <3>1, <3>2, <3>4, <4>1, <5>1
        <4>2. CASE j # i
          <5>1. j < i /\ rows'[j] = rows[j] /\ rows[j].key # Unsigned
            BY <1>0, <2>1, <3>1, <3>5, <4>2 DEF ChainSound, FirstUnsigned
          <5>2. HashOf(j - 1)' = HashOf(j - 1)
            BY <3>1, <5>1 DEF HashOf
          <5>3. \A k \in 1..(j - 1) : rows'[k] = rows[k]
            BY <3>1, <5>1
          <5> QED BY <1>0, <2>2, <3>1, <5>1, <5>2, <5>3 DEF ChainSound
        <4> QED BY <4>1, <4>2
      <3> QED BY <3>1, <3>5 DEF ChainSound
    <2>4. CASE signer \notin keys
      BY <1>2, <2>1, <2>2, <2>4
    <2> QED BY <2>3, <2>4
  <1>6. CASE Open
    <2>1. keys' = keys
      BY <1>6 DEF Open
    <2>2. CASE rows = <<>>
      <3>1. rows' = <<[key |-> signer, prev |-> Zero]>> /\ signer \in keys
        BY <1>6, <2>2 DEF Open
      <3>2. DOMAIN rows' = {1} /\ rows'[1] = [key |-> signer, prev |-> Zero]
        BY <3>1
      <3> QED BY <1>0, <1>a, <2>1, <3>1, <3>2 DEF ChainSound, HashOf
    <2>3. CASE rows # <<>>
      <3>1. rows' = rows /\ \A i \in DOMAIN rows : rows[i].key # Unsigned
        BY <1>6, <2>3 DEF Open
      <3> QED BY <1>0, <2>1, <3>1 DEF ChainSound, HashOf
    <2> QED BY <2>2, <2>3
  <1>7. ASSUME stage = "open", stage' = "open", WriteCommits \/ WriteFails
        PROVE  ChainSound'
    <2>1. CASE WriteFails
      BY <1>2, <1>7, <2>1, FailFacts
    <2>2. CASE WriteCommits
      <3>1. /\ DOMAIN rows' = 1..(Len(rows) + 1) /\ DOMAIN rows = 1..Len(rows) /\ Len(rows) \in Nat
            /\ \A i \in DOMAIN rows : rows'[i] = rows[i]
            /\ rows'[Len(rows) + 1] = [key |-> signer', prev |-> HeadHash]
            /\ signer' \in keys' /\ signer' \in KeyIds /\ keys \subseteq keys'
        BY <1>0, <1>7, <2>2, WriteFacts
      <3>3. \A i \in DOMAIN rows : rows[i].key # Unsigned
        BY <1>0, <1>7 DEF ChainSound
      <3>4. \A i \in DOMAIN rows : HashOf(i - 1)' = HashOf(i - 1)
        BY <3>1 DEF HashOf
      <3>5. ASSUME NEW j \in DOMAIN rows'
            PROVE  /\ rows'[j].key # Unsigned /\ rows'[j].key \in keys'
                   /\ rows'[j].prev = HashOf(j - 1)'
                   /\ j \in Nat
        <4>1. CASE j \in DOMAIN rows
          BY <1>0, <3>1, <3>3, <3>4, <4>1 DEF ChainSound
        <4>2. CASE j = Len(rows) + 1
          <5>1. HashOf(j - 1)' = HashOf(j - 1)
            BY <3>1, <4>2 DEF HashOf
          <5>2. HashOf(j - 1) = HeadHash
            BY <3>1, <4>2 DEF HeadHash
          <5> QED BY <1>a, <3>1, <4>2, <5>1, <5>2
        <4> QED BY <3>1, <4>1, <4>2
      <3> QED BY <3>1, <3>5 DEF ChainSound
    <2> QED BY <1>7, <2>1, <2>2
  <1>8. CASE LogEvent \/ WorkerWrites
    BY <1>7, <1>8 DEF LogEvent, WorkerWrites, LogFree
  <1>9. CASE RekeyRegister
    <2>1. keys \subseteq keys'
      BY <1>9 DEF RekeyRegister, Registered
    <2> QED BY <1>2, <1>9, <2>1 DEF RekeyRegister
  <1>10. CASE EnsureState \/ MigrateAnchor \/ LogEventAsync
    BY <1>2, <1>10 DEF EnsureState, MigrateAnchor, LogEventAsync
  <1>11. CASE VerifyStep
    BY <1>2, <1>11 DEF VerifyStep, VerifyBegin, LoadRows, LoadKeys, Judge
  <1>12. CASE ChangePassword \/ ActivateKey \/ RekeyRefused \/ RekeyState \/ CloseLogger \/ Crash
    BY <1>2, <1>12 DEF ChangePassword, ActivateKey, RekeyRefused, RekeyState, CloseLogger, Crash
  <1>13. CASE UNCHANGED vars
    BY <1>2, <1>13 DEF vars
  <1> QED
    BY <1>1, <1>3, <1>4, <1>5, <1>6, <1>8, <1>9, <1>10, <1>11, <1>12, <1>13
    DEF Next, StartStep, WriteStep, RekeyStep
\* Every step keeps the order of the generations.
LEMMA GenerationStep ==
  ASSUME IInv, [Next]_vars, TypeOK'
  PROVE  KeysOnlyAdvance' /\ GenerationBound'
  <1> USE DEF diskVars, tkVars, Signed
  <1>0. /\ TypeOK /\ Bookkeeping /\ ChainSound /\ KeysOnlyAdvance /\ GenerationBound
        /\ rows \in Seq(Rows) /\ signer \in KeyIds /\ signer.gen \in Nat
        /\ signer' \in KeyIds /\ signer'.gen \in Nat
        /\ DOMAIN rows = 1..Len(rows) /\ Len(rows) \in Nat
    BY DEF IInv, TypeOK, KeyIds
  <1>a. state # NoState => state.gen \in Nat
    BY <1>0 DEF TypeOK, States
  <1>b. \A i \in DOMAIN rows : Signed(i) => rows[i].key.gen \in Nat
    <2> SUFFICES ASSUME NEW i \in DOMAIN rows, Signed(i) PROVE rows[i].key.gen \in Nat
      OBVIOUS
    <2>1. rows[i] \in Rows
      BY <1>0
    <2>2. rows[i].key \in KeyIds
      BY <2>1 DEF Rows
    <2> QED BY <2>2 DEF KeyIds
  <1>c. /\ \A i \in Nat \ {0} : Target(i) \in Nat
        /\ \A i, j \in Nat \ {0} : i <= j => Target(i) <= Target(j)
    BY TargetFacts
  \* The table does not change, and the generations it is compared with do not fall.
  <1>1. ASSUME rows' = rows,
               state' = state \/ (stage # "locked" /\ state'.gen = signer'.gen),
               stage' # "locked" => stage # "locked",
               stage # "locked" => signer'.gen >= signer.gen,
               stage' \notin {"registered", "migrating"}
        PROVE  KeysOnlyAdvance' /\ GenerationBound'
    <2>1. KeysOnlyAdvance'
      BY <1>0, <1>1 DEF KeysOnlyAdvance, Target
    <2>2. ASSUME NEW i \in DOMAIN rows, Signed(i)
          PROVE  /\ state' # NoState => rows[i].key.gen <= state'.gen \/ rows[i].key.gen <= Target(i)
                 /\ stage' # "locked" => rows[i].key.gen <= signer'.gen \/ rows[i].key.gen <= Target(i)
      <3>1. stage # "locked" => rows[i].key.gen <= signer'.gen \/ rows[i].key.gen <= Target(i)
        BY <1>0, <1>1, <1>b, <1>c, <2>2 DEF GenerationBound
      <3>2. state' = state => (state' # NoState => rows[i].key.gen <= state'.gen \/ rows[i].key.gen <= Target(i))
        BY <1>0, <2>2 DEF GenerationBound
      <3> QED BY <1>1, <3>1, <3>2
    <2> QED BY <1>1, <2>1, <2>2 DEF GenerationBound, Target
  <1>2. CASE FailedLogin
    <2>1. /\ rows'[Len(rows) + 1].key = Unsigned
          /\ DOMAIN rows' = 1..(Len(rows) + 1)
          /\ \A i \in DOMAIN rows : rows'[i] = rows[i]
          /\ state' = state /\ stage' = "locked"
      BY <1>0, <1>2 DEF FailedLogin
    <2>2. ASSUME NEW i \in DOMAIN rows', rows'[i].key # Unsigned
          PROVE  /\ i \in DOMAIN rows /\ rows'[i] = rows[i] /\ Signed(i)
                 /\ i > 1 => rows'[i - 1] = rows[i - 1]
      BY <1>0, <2>1, <2>2
    <2>3. KeysOnlyAdvance'
      BY <1>0, <2>2 DEF KeysOnlyAdvance, Target
    <2>4. GenerationBound'
      BY <1>0, <2>1, <2>2 DEF GenerationBound, Target
    <2> QED BY <2>3, <2>4
  <1>3. CASE StartLogger
    <2>1. /\ rows' = rows /\ state' = state /\ stage' = "registered"
          /\ state # NoState => signer'.gen = state.gen
      BY <1>3 DEF StartLogger
    <2>2. KeysOnlyAdvance'
      BY <1>0, <2>1 DEF KeysOnlyAdvance, Target
    <2>3. GenerationBound'
      BY <1>0, <1>a, <2>1 DEF GenerationBound, Bookkeeping, Target
    <2> QED BY <2>2, <2>3
  <1>4. CASE EnsureState
    <2>1. /\ rows' = rows /\ signer' = signer /\ stage = "registered" /\ stage' = "migrating"
          /\ IF state = NoState THEN state'.gen = signer.gen ELSE state' = state
      BY <1>4 DEF EnsureState, Anchor
    <2>2. KeysOnlyAdvance'
      BY <1>0, <2>1 DEF KeysOnlyAdvance, Target
    <2>3. GenerationBound'
      BY <1>0, <2>1 DEF GenerationBound, Bookkeeping, Target
    <2> QED BY <2>2, <2>3
  <1>5. CASE MigrateRotate
    <2>1. PICK i \in DOMAIN rows :
            /\ FirstUnsigned(i)
            /\ signer.gen < Target(i)
            /\ signer' = [gen |-> signer.gen + 1, master |-> active]
      BY <1>5 DEF MigrateRotate
    <2>2. rows' = rows /\ state' = state /\ stage = "migrating" /\ stage' = "migrating"
      BY <1>5 DEF MigrateRotate
    <2>3. signer'.gen = signer.gen + 1 /\ signer'.gen <= Target(i)
      BY <1>0, <1>c, <2>1
    <2>4. \A j \in DOMAIN rows : ~Signed(j) => signer'.gen <= Target(j)
      <3> SUFFICES ASSUME NEW j \in DOMAIN rows, ~Signed(j) PROVE signer'.gen <= Target(j)
        OBVIOUS
      <3>1. i <= j
        BY <1>0, <2>1 DEF FirstUnsigned
      <3>2. Target(i) <= Target(j) /\ Target(i) \in Nat /\ Target(j) \in Nat
        BY <1>0, <1>c, <3>1
      <3> QED BY <1>0, <2>3, <3>2
    <2>5. KeysOnlyAdvance'
      BY <1>0, <2>2 DEF KeysOnlyAdvance, Target
    <2>6. \A j \in DOMAIN rows : Signed(j) =>
            rows[j].key.gen <= signer'.gen \/ rows[j].key.gen <= Target(j)
      BY <1>0, <1>b, <1>c, <2>2, <2>3 DEF GenerationBound
    <2> QED BY <1>0, <2>2, <2>4, <2>5, <2>6 DEF GenerationBound, Target
  <1>6. CASE MigrateSign
    <2>1. PICK i \in DOMAIN rows :
            /\ FirstUnsigned(i)
            /\ signer.gen >= Target(i)
            /\ IF signer \in keys
                 THEN /\ rows' = [rows EXCEPT ![i] = [key |-> signer, prev |-> HashOf(i - 1)]]
                      /\ stage' = "signed"
                 ELSE UNCHANGED rows /\ stage' = "failed"
      BY <1>6 DEF MigrateSign
    <2>2. stage = "migrating" /\ state' = state /\ signer' = signer
      BY <1>6 DEF MigrateSign
    <2>3. CASE signer \notin keys
      BY <1>0, <1>1, <2>1, <2>2, <2>3
    <2>4. CASE signer \in keys
      <3>1. /\ DOMAIN rows' = DOMAIN rows
            /\ rows'[i].key = signer
            /\ \A j \in DOMAIN rows : j # i => rows'[j] = rows[j]
            /\ stage' = "signed"
        BY <1>0, <2>1, <2>4
      <3>2. i + 1 \in DOMAIN rows => rows[i + 1].key = Unsigned
        BY <1>0, <2>1 DEF ChainSound, FirstUnsigned
      <3>3. i > 1 => rows[i - 1].key.gen <= signer.gen
        <4> SUFFICES ASSUME i > 1 PROVE rows[i - 1].key.gen <= signer.gen
          OBVIOUS
        <4>1. i - 1 \in DOMAIN rows /\ Signed(i - 1) /\ i - 1 \in Nat \ {0} /\ i \in Nat \ {0}
          BY <1>0, <2>1 DEF FirstUnsigned
        <4>2. Target(i - 1) <= Target(i) /\ Target(i - 1) \in Nat /\ Target(i) \in Nat
          BY <1>c, <4>1
        <4>3. rows[i - 1].key.gen <= signer.gen \/ rows[i - 1].key.gen <= Target(i - 1)
          BY <1>0, <2>2, <4>1 DEF GenerationBound
        <4> QED BY <1>0, <1>b, <2>1, <4>1, <4>2, <4>3
      <3>4. ASSUME NEW j \in DOMAIN rows', rows'[j].key # Unsigned
            PROVE  /\ rows'[j].key.gen >= Target(j)
                   /\ j > 1 => rows'[j - 1].key.gen <= rows'[j].key.gen
        <4>1. CASE j = i
          <5>1. i > 1 => rows'[i - 1] = rows[i - 1]
            BY <1>0, <3>1
          <5> QED BY <2>1, <3>1, <3>3, <4>1, <5>1
        <4>2. CASE j # i
          <5>1. j # i + 1 /\ rows'[j] = rows[j] /\ (j > 1 => rows'[j - 1] = rows[j - 1])
            BY <1>0, <3>1, <3>2, <3>4, <4>2
          <5> QED BY <1>0, <3>1, <3>4, <5>1 DEF KeysOnlyAdvance
        <4> QED BY <4>1, <4>2
      <3>5. KeysOnlyAdvance'
        BY <3>4 DEF KeysOnlyAdvance, Target
      <3>6. signer.gen <= signer.gen /\ (signer.gen = state.gen \/ signer.gen <= Target(i))
        BY <1>0, <2>1, <2>2 DEF GenerationBound, FirstUnsigned, Bookkeeping
      <3>7. ASSUME NEW j \in DOMAIN rows', rows'[j].key # Unsigned
            PROVE  /\ rows'[j].key.gen <= state.gen \/ rows'[j].key.gen <= Target(j)
                   /\ rows'[j].key.gen <= signer.gen \/ rows'[j].key.gen <= Target(j)
        <4>1. CASE j = i
          BY <1>0, <1>a, <2>2, <3>1, <3>6, <4>1 DEF Bookkeeping
        <4>2. CASE j # i
          BY <1>0, <2>2, <3>1, <3>7, <4>2 DEF GenerationBound, Bookkeeping
        <4> QED BY <4>1, <4>2
      <3> QED BY <2>2, <3>1, <3>5, <3>7 DEF GenerationBound, Target
    <2> QED BY <2>3, <2>4
  <1>7. CASE MigrateAnchor
    <2>1. /\ rows' = rows /\ signer' = signer /\ state'.gen = signer.gen
          /\ stage = "signed" /\ stage' = "migrating"
      BY <1>7 DEF MigrateAnchor, Anchor
    <2>2. KeysOnlyAdvance'
      BY <1>0, <2>1 DEF KeysOnlyAdvance, Target
    <2>3. GenerationBound'
      BY <1>0, <2>1 DEF GenerationBound, Target
    <2> QED BY <2>2, <2>3
  <1>8. CASE Open
    <2>1. CASE rows # <<>>
      BY <1>0, <1>1, <1>8, <2>1 DEF Open
    <2>2. CASE rows = <<>>
      <3>1. rows' = <<[key |-> signer, prev |-> Zero]>> /\ signer' = signer /\ stage' = "open"
        BY <1>8, <2>2 DEF Open
      <3>2. DOMAIN rows' = {1} /\ rows'[1].key = signer
        BY <3>1
      <3>3. state'.gen = signer.gen
        BY <1>8, <2>2 DEF Open, Anchor
      <3>4. Target(1) = 0
        <4>1. /\ 0 \div Interval \in Nat
              /\ Interval * (0 \div Interval) <= 0
          BY DivBounds, AuditAssumption
        <4>2. 0 \div Interval = 0
          <5> DEFINE q == 0 \div Interval
          <5>1. q \in Nat /\ Interval * q <= 0 /\ Interval \in Nat \ {0}
            BY <4>1, AuditAssumption
          <5> HIDE DEF q
          <5>2. q >= 1 => Interval * q >= Interval * 0 + Interval
            BY <5>1, TimesMonotone
          <5>3. q = 0
            BY <5>1, <5>2
          <5> QED BY <5>3 DEF q
        <4> QED BY <4>2 DEF Target
      <3>5. KeysOnlyAdvance'
        BY <1>0, <3>2, <3>4 DEF KeysOnlyAdvance, Target
      <3> QED BY <1>0, <3>1, <3>2, <3>3, <3>5 DEF GenerationBound
    <2> QED BY <2>1, <2>2
  <1>9. ASSUME stage = "open", stage' = "open", WriteCommits \/ WriteFails
        PROVE  KeysOnlyAdvance' /\ GenerationBound'
    <2>1. CASE WriteFails
      BY <1>1, <1>9, <2>1, FailFacts
    <2>2. CASE WriteCommits
      <3> DEFINE n == Len(rows) + 1
      <3>1. /\ DOMAIN rows' = 1..n
            /\ \A i \in DOMAIN rows : rows'[i] = rows[i]
            /\ rows'[n].key = signer' /\ signer' = RotatedSigner(n) /\ state'.gen = signer'.gen
        BY <1>0, <1>9, <2>2, WriteFacts
      <3>2. signer'.gen >= Target(n) /\ signer'.gen >= signer.gen
        BY <1>0, <3>1, RotationFacts
      <3>3. ASSUME NEW i \in DOMAIN rows
            PROVE  /\ Signed(i) /\ rows[i].key.gen <= signer'.gen
        <4>1. Signed(i)
          BY <1>0, <1>9 DEF ChainSound
        <4>2. rows[i].key.gen <= signer.gen \/ rows[i].key.gen <= Target(i)
          BY <1>0, <1>9, <4>1 DEF GenerationBound
        <4>3. Target(i) <= Target(n) /\ Target(i) \in Nat /\ Target(n) \in Nat
          BY <1>0, <1>c
        <4> QED BY <1>0, <1>b, <3>2, <4>1, <4>2, <4>3
      <3>4. ASSUME NEW j \in DOMAIN rows'
            PROVE  /\ rows'[j].key.gen >= Target(j)
                   /\ j > 1 => rows'[j - 1].key.gen <= rows'[j].key.gen
                   /\ rows'[j].key.gen <= signer'.gen
        <4>1. CASE j = n
          <5>1. j > 1 => j - 1 \in DOMAIN rows /\ rows'[j - 1] = rows[j - 1]
            BY <1>0, <3>1, <4>1
          <5> QED BY <1>0, <3>1, <3>2, <3>3, <4>1, <5>1
        <4>2. CASE j # n
          <5>1. j \in DOMAIN rows /\ rows'[j] = rows[j] /\ (j > 1 => rows'[j - 1] = rows[j - 1])
            BY <1>0, <3>1, <4>2
          <5> QED BY <1>0, <3>3, <5>1 DEF KeysOnlyAdvance
        <4> QED BY <4>1, <4>2
      <3>5. KeysOnlyAdvance'
        BY <3>4 DEF KeysOnlyAdvance, Target
      <3> QED BY <1>9, <3>1, <3>4, <3>5 DEF GenerationBound
    <2> QED BY <1>9, <2>1, <2>2
  <1>10. CASE LogEvent \/ WorkerWrites
    BY <1>9, <1>10 DEF LogEvent, WorkerWrites, LogFree
  <1>11. CASE LogEventAsync
    BY <1>0, <1>1, <1>11 DEF LogEventAsync
  <1>12. CASE VerifyStep
    BY <1>0, <1>1, <1>12 DEF VerifyStep, VerifyBegin, LoadRows, LoadKeys, Judge, Bookkeeping
  <1>13. CASE ChangePassword \/ ActivateKey \/ RekeyRefused
    BY <1>0, <1>1, <1>13 DEF ChangePassword, ActivateKey, RekeyRefused, Bookkeeping
  <1>14. CASE RekeyRegister
    <2>1. signer'.gen = signer.gen + 1
      BY <1>14 DEF RekeyRegister
    <2> QED BY <1>0, <1>1, <1>14, <2>1 DEF RekeyRegister, Bookkeeping
  <1>15. CASE RekeyState
    <2>1. state' = state \/ state'.gen = signer'.gen
      <3>1. state \in States
        BY <1>0, <1>15 DEF RekeyState, Bookkeeping, TypeOK
      <3> QED BY <1>15, <3>1 DEF RekeyState, States
    <2> QED BY <1>0, <1>1, <1>15, <2>1 DEF RekeyState, Bookkeeping
  <1>16. CASE CloseLogger \/ Crash
    BY <1>0, <1>1, <1>16 DEF CloseLogger, Crash
  <1>17. CASE UNCHANGED vars
    <2>1. rows' = rows /\ state' = state /\ stage' = stage /\ signer' = signer
      BY <1>17 DEF vars
    <2> QED BY <1>0, <2>1 DEF KeysOnlyAdvance, GenerationBound, Target
  <1> QED
    BY <1>2, <1>3, <1>4, <1>5, <1>6, <1>7, <1>8, <1>10, <1>11, <1>12, <1>13, <1>14, <1>15, <1>16, <1>17
    DEF Next, StartStep, WriteStep, RekeyStep
\* Every step keeps the anchor at the last signed entry.
LEMMA AnchorStep ==
  ASSUME IInv, [Next]_vars, TypeOK'
  PROVE  AnchorFollows'
  <1> USE DEF diskVars, tkVars, Signed
  <1>0. /\ TypeOK /\ Bookkeeping /\ ChainSound /\ AnchorFollows
        /\ rows \in Seq(Rows) /\ signer \in KeyIds
        /\ DOMAIN rows = 1..Len(rows) /\ Len(rows) \in Nat
    BY DEF IInv, TypeOK
  <1>a. Unsigned \notin KeyIds
    BY UnsignedAssumption
  \* Neither the table nor the anchor changes, and no loss is forgotten.
  <1>1. ASSUME rows' = rows, stage' # "signed",
               state' # NoState => state # NoState /\ state'.hash = state.hash /\ state'.key = state.key,
               "seal" \notin damage' => stage # "signed" /\ "seal" \notin damage
        PROVE  AnchorFollows'
    <2>1. \A i : HashOf(i)' = HashOf(i)
      BY <1>1 DEF HashOf
    <2>2. \A i : LastSigned(i)' <=> LastSigned(i)
      BY <1>1 DEF LastSigned
    <2> QED BY <1>0, <1>1, <2>1, <2>2 DEF AnchorFollows
  <1>2. CASE FailedLogin
    <2>1. /\ rows'[Len(rows) + 1].key = Unsigned
          /\ DOMAIN rows' = 1..(Len(rows) + 1) /\ Len(rows') = Len(rows) + 1
          /\ \A i \in DOMAIN rows : rows'[i] = rows[i]
          /\ state' = state /\ stage = "locked" /\ stage' = "locked" /\ damage' = damage
      BY <1>0, <1>2 DEF FailedLogin
    <2>2. ASSUME NEW i \in DOMAIN rows', LastSigned(i)'
          PROVE  i \in DOMAIN rows /\ LastSigned(i) /\ rows'[i] = rows[i] /\ HashOf(i)' = HashOf(i)
      <3>1. i \in DOMAIN rows /\ rows'[i] = rows[i] /\ Signed(i)
        BY <1>0, <2>1, <2>2 DEF LastSigned
      <3>2. i < Len(rows) => rows'[i + 1] = rows[i + 1]
        BY <1>0, <2>1, <3>1
      <3> QED BY <1>0, <2>1, <2>2, <3>1, <3>2 DEF LastSigned, HashOf
    <2> QED BY <1>0, <2>1, <2>2 DEF AnchorFollows
  <1>3. CASE StartLogger \/ MigrateRotate
    BY <1>0, <1>1, <1>3 DEF StartLogger, MigrateRotate
  <1>4. CASE EnsureState
    <2>1. CASE state = NoState
      <3>1. \A i \in DOMAIN rows : ~Signed(i)
        BY <1>0, <2>1 DEF Bookkeeping
      <3> QED BY <1>4, <3>1 DEF EnsureState, AnchorFollows, LastSigned
    <2>2. CASE state # NoState
      BY <1>1, <1>4, <2>2 DEF EnsureState
    <2> QED BY <2>1, <2>2
  <1>5. CASE MigrateSign
    <2>1. PICK i \in DOMAIN rows :
            /\ FirstUnsigned(i)
            /\ IF signer \in keys
                 THEN /\ rows' = [rows EXCEPT ![i] = [key |-> signer, prev |-> HashOf(i - 1)]]
                      /\ stage' = "signed"
                 ELSE UNCHANGED rows /\ stage' = "failed"
      BY <1>5 DEF MigrateSign
    <2>2. stage = "migrating" /\ state' = state /\ signer' = signer /\ damage' = damage
      BY <1>5 DEF MigrateSign
    <2>3. CASE signer \notin keys
      BY <1>1, <2>1, <2>2, <2>3
    <2>4. CASE signer \in keys
      <3>1. /\ DOMAIN rows' = DOMAIN rows /\ Len(rows') = Len(rows)
            /\ rows'[i].key = signer
            /\ \A j \in DOMAIN rows : j # i => rows'[j] = rows[j]
            /\ stage' = "signed"
        BY <1>0, <2>1, <2>4
      <3>2. ASSUME NEW j \in DOMAIN rows', LastSigned(j)' PROVE j = i
        <4>1. j < i => rows'[j + 1].key # Unsigned
          <5> SUFFICES ASSUME j < i PROVE rows'[j + 1].key # Unsigned
            OBVIOUS
          <5>1. CASE j + 1 = i
            BY <1>0, <1>a, <3>1, <5>1
          <5>2. CASE j + 1 < i
            BY <1>0, <2>1, <3>1, <5>2 DEF FirstUnsigned
          <5> QED BY <1>0, <3>1, <5>1, <5>2
        <4>2. ~ (j < i)
          BY <1>0, <3>1, <3>2, <4>1 DEF LastSigned
        <4>3. ~ (j > i)
          <5> SUFFICES ASSUME j > i PROVE FALSE
            OBVIOUS
          <5>1. rows'[j] = rows[j] /\ rows[j].key # Unsigned
            BY <1>0, <3>1, <3>2 DEF LastSigned
          <5>2. rows[i].key = Unsigned /\ i \in 1..(j - 1)
            BY <1>0, <2>1, <3>1 DEF FirstUnsigned
          <5> QED BY <1>0, <3>1, <5>1, <5>2 DEF ChainSound
        <4> QED BY <1>0, <3>1, <4>2, <4>3
      <3> QED BY <2>2, <3>1, <3>2 DEF AnchorFollows
    <2> QED BY <2>3, <2>4
  <1>6. CASE MigrateAnchor
    <2>1. PICK i \in DOMAIN rows :
            /\ rows[i].key # Unsigned
            /\ i < Len(rows) => rows[i + 1].key = Unsigned
            /\ state' = Anchor(HashOf(i), signer)
      BY <1>6 DEF MigrateAnchor
    <2>2. rows' = rows /\ stage = "signed" /\ stage' = "migrating" /\ signer' = signer
      BY <1>6 DEF MigrateAnchor
    <2>3. LastSigned(i) /\ rows[i].key = signer
      BY <1>0, <2>1, <2>2 DEF AnchorFollows, LastSigned
    <2>4. state'.hash = HashOf(i) /\ state'.key = signer
      BY <2>1 DEF Anchor
    <2>5. \A j \in DOMAIN rows : LastSigned(j) => j = i
      <3> SUFFICES ASSUME NEW j \in DOMAIN rows, LastSigned(j) PROVE j = i
        OBVIOUS
      <3>1. ~ (j < i)
        BY <1>0, <2>3 DEF LastSigned, ChainSound
      <3>2. ~ (i < j)
        BY <1>0, <2>3 DEF LastSigned, ChainSound
      <3> QED BY <1>0, <3>1, <3>2
    <2>6. \A j : LastSigned(j)' <=> LastSigned(j)
      BY <2>2 DEF LastSigned
    <2>7. \A j : HashOf(j)' = HashOf(j)
      BY <2>2 DEF HashOf
    <2> QED BY <2>2, <2>3, <2>4, <2>5, <2>6, <2>7 DEF AnchorFollows
  <1>7. CASE Open
    <2>1. CASE rows # <<>>
      BY <1>1, <1>7, <2>1 DEF Open
    <2>2. CASE rows = <<>>
      <3>1. rows' = <<[key |-> signer, prev |-> Zero]>> /\ stage' = "open"
        BY <1>7, <2>2 DEF Open
      <3>2. DOMAIN rows' = {1} /\ rows'[1].key = signer
        BY <3>1
      <3>3. state'.hash = [seq |-> 1, signed |-> TRUE] /\ state'.key = signer
        BY <1>7, <2>2 DEF Open, Anchor
      <3>4. \A j \in DOMAIN rows' : HashOf(j)' = [seq |-> 1, signed |-> TRUE]
        <4> SUFFICES ASSUME NEW j \in DOMAIN rows'
                     PROVE  HashOf(j)' = [seq |-> 1, signed |-> TRUE]
          OBVIOUS
        <4>1. j = 1
          BY <3>2
        <4>2. HashOf(j)' = [seq |-> 1, signed |-> rows'[1].key # Unsigned]
          BY <4>1 DEF HashOf
        <4>3. (rows'[1].key # Unsigned) = TRUE
          BY <1>0, <1>a, <3>2
        <4> QED BY <4>2, <4>3, Zenon
      <3> QED BY <3>1, <3>2, <3>3, <3>4 DEF AnchorFollows
    <2> QED BY <2>1, <2>2
  <1>8. ASSUME stage = "open", stage' = "open", WriteCommits \/ WriteFails
        PROVE  AnchorFollows'
    <2>1. CASE WriteFails
      BY <1>1, <1>8, <2>1, FailFacts
    <2>2. CASE WriteCommits
      <3> DEFINE n == Len(rows) + 1
      <3>1. /\ DOMAIN rows' = 1..n /\ Len(rows') = n
            /\ \A i \in DOMAIN rows : rows'[i] = rows[i]
            /\ rows'[n].key = signer' /\ signer' \in KeyIds
            /\ state'.key = signer' /\ state'.hash = [seq |-> n, signed |-> TRUE]
        BY <1>0, <1>8, <2>2, WriteFacts
      <3>2. \A i \in DOMAIN rows : rows[i].key # Unsigned
        BY <1>0, <1>8 DEF ChainSound
      <3>3. \A i \in DOMAIN rows' : rows'[i].key # Unsigned
        BY <1>0, <1>a, <3>1, <3>2
      <3>4. \A i \in DOMAIN rows' : LastSigned(i)' => i = n
        BY <1>0, <3>1, <3>3 DEF LastSigned
      <3>5. \A i \in DOMAIN rows' : i = n => HashOf(i)' = [seq |-> n, signed |-> TRUE]
        <4> SUFFICES ASSUME NEW i \in DOMAIN rows', i = n
                     PROVE  HashOf(i)' = [seq |-> n, signed |-> TRUE]
          OBVIOUS
        <4>1. HashOf(i)' = [seq |-> i, signed |-> rows'[i].key # Unsigned]
          BY <1>0, <3>1 DEF HashOf
        <4>2. (rows'[i].key # Unsigned) = TRUE
          BY <3>3
        <4> QED BY <4>1, <4>2, Zenon
      <3> QED BY <1>8, <3>1, <3>4, <3>5 DEF AnchorFollows
    <2> QED BY <1>8, <2>1, <2>2
  <1>9. CASE LogEvent \/ WorkerWrites
    BY <1>8, <1>9 DEF LogEvent, WorkerWrites, LogFree
  <1>10. CASE LogEventAsync
    BY <1>1, <1>10 DEF LogEventAsync
  <1>11. CASE VerifyStep
    BY <1>0, <1>1, <1>11 DEF VerifyStep, VerifyBegin, LoadRows, LoadKeys, Judge, Bookkeeping
  <1>12. CASE ChangePassword \/ ActivateKey \/ RekeyRefused \/ RekeyRegister
    BY <1>0, <1>1, <1>12 DEF ChangePassword, ActivateKey, RekeyRefused, RekeyRegister, Bookkeeping
  <1>13. CASE RekeyState
    <2>1. state \in States /\ state # NoState
      BY <1>0, <1>13 DEF RekeyState, Bookkeeping, TypeOK
    <2>2. state'.hash = state.hash /\ state'.key = state.key
      BY <1>13, <2>1 DEF RekeyState, States
    <2> QED BY <1>0, <1>1, <1>13, <2>1, <2>2 DEF RekeyState, Bookkeeping
  <1>14. CASE CloseLogger
    BY <1>1, <1>14 DEF CloseLogger
  <1>15. CASE Crash
    BY <1>1, <1>15 DEF Crash
  <1>16. CASE UNCHANGED vars
    <2>1. /\ rows' = rows /\ state' = state /\ stage' = stage /\ signer' = signer
          /\ damage' = damage
      BY <1>16 DEF vars
    <2>2. \A i : HashOf(i)' = HashOf(i)
      BY <2>1 DEF HashOf
    <2>3. \A i : LastSigned(i)' <=> LastSigned(i)
      BY <2>1 DEF LastSigned
    <2> QED BY <1>0, <2>1, <2>2, <2>3 DEF AnchorFollows
  <1> QED
    BY <1>2, <1>3, <1>4, <1>5, <1>6, <1>7, <1>9, <1>10, <1>11, <1>12, <1>13, <1>14, <1>15, <1>16
    DEF Next, StartStep, WriteStep, RekeyStep
--------------------------------------------------------------------------------
(* The theorems. *)

\* The inductive invariant is preserved by every step.
LEMMA NextIInv == IInv /\ [Next]_vars => IInv'
  <1> SUFFICES ASSUME IInv, [Next]_vars PROVE IInv'
    OBVIOUS
  <1>1. TypeOK'
    BY TypeStep
  <1>2. Bookkeeping' /\ ChainSound'
    BY BookStep, ChainStep
  <1>3. KeysOnlyAdvance' /\ GenerationBound' /\ AnchorFollows'
    BY <1>1, GenerationStep, AnchorStep
  <1> QED BY <1>1, <1>2, <1>3 DEF IInv

\* The inductive invariant holds always.
THEOREM Invariance == Spec => []IInv
  BY InitIInv, NextIInv, PTL DEF Spec

\* Every variable of the log, on disk and in memory, keeps its type.
THEOREM TypeCorrect == Spec => []TypeOK
  <1>1. IInv => TypeOK
    BY DEF IInv
  <1> QED BY <1>1, Invariance, PTL

\* The chain of hashes and keys is unbroken in every state of the file: after any
\* migration, rollback, crash, rekey and rotation.
THEOREM ChainUnbroken == Spec => []ChainSound
  <1>1. IInv => ChainSound
    BY DEF IInv
  <1> QED BY <1>1, Invariance, PTL

\* No entry is signed with an older generation than the one before it, nor than its
\* number asks for.
THEOREM GenerationsAdvance == Spec => []KeysOnlyAdvance
  <1>1. IInv => KeysOnlyAdvance
    BY DEF IInv
  <1> QED BY <1>1, Invariance, PTL

\* The anchor is at the head of the log in every open session, but for a migration
\* that was interrupted.
THEOREM AnchorCorrect == Spec => []AnchorAtHead
  <1>1. ASSUME IInv PROVE AnchorAtHead
    <2> SUFFICES ASSUME stage = "open", "seal" \notin damage
                 PROVE  state.hash = HeadHash /\ state.key = rows[Len(rows)].key
      BY DEF AnchorAtHead
    <2>1. rows \in Seq(Rows) /\ rows # <<>> /\ state # NoState
      BY <1>1 DEF IInv, TypeOK, Bookkeeping
    <2>2. Len(rows) \in DOMAIN rows
      BY <2>1
    <2>3. LastSigned(Len(rows))
      BY <1>1, <2>1, <2>2 DEF IInv, ChainSound, LastSigned, Signed
    <2> QED BY <1>1, <2>1, <2>2, <2>3 DEF IInv, AnchorFollows, HeadHash
  <1> QED BY <1>1, Invariance, PTL
--------------------------------------------------------------------------------
(* The table keeps the promise of AuditTrail. *)

\* What an onlooker sees of a table is a sequence of keys and gaps.
LEMMA SealsType ==
  ASSUME NEW r \in Seq(Rows)
  PROVE  LET t == [i \in DOMAIN r |-> r[i].key]
         IN  /\ t \in Seq(KeyIds \cup {Unsigned}) /\ Len(t) = Len(r)
             /\ DOMAIN t = 1..Len(r) /\ Len(r) \in Nat
             /\ \A i \in 1..Len(r) : t[i] = r[i].key
  <1> DEFINE t == [i \in DOMAIN r |-> r[i].key]
  <1>1. DOMAIN r = 1..Len(r) /\ Len(r) \in Nat
    OBVIOUS
  <1>2. ASSUME NEW i \in 1..Len(r)
        PROVE  r[i].key \in KeyIds \cup {Unsigned}
    <2>1. r[i] \in Rows
      BY <1>1, <1>2
    <2> QED BY <2>1 DEF Rows
  <1>3. t \in [1..Len(r) -> KeyIds \cup {Unsigned}]
    BY <1>1, <1>2
  <1> HIDE DEF t
  <1>4. t \in Seq(KeyIds \cup {Unsigned}) /\ Len(t) = Len(r)
    BY <1>1, <1>3
  <1> QED BY <1>1, <1>4 DEF t

\* A table that grows by one entry and keeps the others shows a longer trail.
LEMMA ExtendedTrail ==
  ASSUME rows \in Seq(Rows), rows' \in Seq(Rows), Len(rows') = Len(rows) + 1,
         \A i \in DOMAIN rows : rows'[i] = rows[i]
  PROVE  Trail!Extended /\ Seals'[Len(Seals')] = rows'[Len(rows) + 1].key
  <1> DEFINE E == KeyIds \cup {Unsigned}
  <1>1. /\ Seals \in Seq(E) /\ Len(Seals) = Len(rows) /\ Len(rows) \in Nat
        /\ \A i \in 1..Len(rows) : Seals[i] = rows[i].key
    BY SealsType DEF Seals
  <1>2. /\ Seals' \in Seq(E) /\ Len(Seals') = Len(rows) + 1
        /\ \A i \in 1..(Len(rows) + 1) : Seals'[i] = rows'[i].key
    BY SealsType DEF Seals
  <1>3. \A i \in 1..Len(rows) : Seals'[i] = Seals[i] /\ Seals'[i] \in E
    BY <1>1, <1>2
  <1> HIDE DEF E
  <1>4. /\ SubSeq(Seals', 1, Len(Seals)) \in Seq(E)
        /\ Len(SubSeq(Seals', 1, Len(Seals))) = Len(Seals)
        /\ \A i \in 1..Len(Seals) : SubSeq(Seals', 1, Len(Seals))[i] = Seals'[i]
    <2>1. 1 \in Int /\ Len(Seals) \in Int /\ \A i \in 1..Len(Seals) : Seals'[i] \in E
      BY <1>1, <1>3
    <2>2. /\ SubSeq(Seals', 1, Len(Seals)) \in Seq(E)
          /\ Len(SubSeq(Seals', 1, Len(Seals))) =
               IF 1 <= Len(Seals) THEN Len(Seals) - 1 + 1 ELSE 0
          /\ \A i \in 1..(Len(Seals) - 1 + 1) : SubSeq(Seals', 1, Len(Seals))[i] = Seals'[1 + i - 1]
      BY <2>1, SubSeqProperties
    <2> QED BY <1>1, <2>2
  <1>5. SubSeq(Seals', 1, Len(Seals)) = Seals
    BY <1>1, <1>3, <1>4, SeqEqual
  <1> QED BY <1>1, <1>2, <1>5 DEF Trail!Extended

\* Every step extends the trail, seals its first gap or leaves it alone.
LEMMA StepKeepsTrail ==
  ASSUME IInv, [Next]_vars, TypeOK'
  PROVE  [Trail!TNext]_Seals
  <1> USE DEF diskVars, tkVars
  <1>0. /\ TypeOK /\ ChainSound /\ rows \in Seq(Rows) /\ rows' \in Seq(Rows) /\ signer \in KeyIds
        /\ DOMAIN rows = 1..Len(rows) /\ Len(rows) \in Nat
    BY DEF IInv, TypeOK
  <1>1. /\ DOMAIN Seals = DOMAIN rows
        /\ \A i \in DOMAIN rows : Seals[i] = rows[i].key
    BY <1>0 DEF Seals
  <1>2. ASSUME rows' = rows PROVE [Trail!TNext]_Seals
    BY <1>2 DEF Seals
  <1>3. CASE FailedLogin
    <2>1. /\ Len(rows') = Len(rows) + 1 /\ rows'[Len(rows) + 1].key = Unsigned
          /\ \A i \in DOMAIN rows : rows'[i] = rows[i]
      BY <1>0, <1>3 DEF FailedLogin
    <2> QED BY <1>0, <2>1, ExtendedTrail DEF Trail!TNext, Trail!Defer
  <1>4. ASSUME Len(rows') = Len(rows) + 1, \A i \in DOMAIN rows : rows'[i] = rows[i],
               rows'[Len(rows) + 1].key \in KeyIds,
               \A i \in DOMAIN rows : rows[i].key # Unsigned
        PROVE  [Trail!TNext]_Seals
    BY <1>0, <1>1, <1>4, ExtendedTrail DEF Trail!TNext, Trail!Record, Trail!AllSealed
  <1>5. CASE LogEvent \/ WorkerWrites
    <2>1. stage = "open" /\ (WriteCommits \/ WriteFails)
      BY <1>5 DEF LogEvent, WorkerWrites, LogFree
    <2>2. CASE WriteFails
      BY <1>2, <2>2, FailFacts
    <2>3. CASE WriteCommits
      <3>1. /\ Len(rows') = Len(rows) + 1 /\ \A i \in DOMAIN rows : rows'[i] = rows[i]
            /\ rows'[Len(rows) + 1].key \in KeyIds
        BY <2>1, <2>3, WriteFacts
      <3> QED BY <1>0, <1>4, <2>1, <3>1 DEF ChainSound
    <2> QED BY <2>1, <2>2, <2>3
  <1>6. CASE Open
    <2>1. CASE rows # <<>>
      BY <1>2, <1>6, <2>1 DEF Open
    <2>2. CASE rows = <<>>
      <3>1. rows' = <<[key |-> signer, prev |-> Zero]>>
        BY <1>6, <2>2 DEF Open
      <3> QED BY <1>0, <1>4, <2>2, <3>1
    <2> QED BY <2>1, <2>2
  <1>7. CASE MigrateSign
    <2>1. PICK i \in DOMAIN rows :
            /\ FirstUnsigned(i)
            /\ IF signer \in keys
                 THEN rows' = [rows EXCEPT ![i] = [key |-> signer, prev |-> HashOf(i - 1)]]
                 ELSE UNCHANGED rows
      BY <1>7 DEF MigrateSign
    <2>2. CASE signer \notin keys
      BY <1>2, <2>1, <2>2
    <2>3. CASE signer \in keys
      <3>1. /\ DOMAIN rows' = DOMAIN rows /\ rows'[i].key = signer
            /\ \A j \in DOMAIN rows : j # i => rows'[j] = rows[j]
        BY <1>0, <2>1, <2>3
      <3>2. Seals' = [j \in DOMAIN rows |-> rows'[j].key] /\ Seals = [j \in DOMAIN rows |-> rows[j].key]
        BY <3>1 DEF Seals
      <3>3. Seals' = [Seals EXCEPT ![i] = Seals'[i]]
        BY <3>1, <3>2
      <3>4. Seals'[i] \in KeyIds /\ Seals[i] = Unsigned /\ \A j \in 1..(i - 1) : Seals[j] # Unsigned
        BY <1>0, <1>1, <2>1, <3>1, <3>2 DEF FirstUnsigned
      <3> QED BY <1>1, <3>3, <3>4 DEF Trail!TNext, Trail!Seal
    <2> QED BY <2>2, <2>3
  <1>8. CASE StartLogger \/ EnsureState \/ MigrateRotate \/ MigrateAnchor \/ LogEventAsync
    BY <1>2, <1>8 DEF StartLogger, EnsureState, MigrateRotate, MigrateAnchor, LogEventAsync
  <1>9. CASE VerifyStep
    BY <1>2, <1>9 DEF VerifyStep, VerifyBegin, LoadRows, LoadKeys, Judge
  <1>10. CASE RekeyStep \/ CloseLogger \/ Crash
    BY <1>2, <1>10 DEF RekeyStep, ChangePassword, ActivateKey, RekeyRegister, RekeyRefused, RekeyState,
      CloseLogger, Crash
  <1>11. CASE UNCHANGED vars
    BY <1>2, <1>11 DEF vars
  <1> QED
    BY <1>3, <1>5, <1>6, <1>7, <1>8, <1>9, <1>10, <1>11 DEF Next, StartStep, WriteStep

\* The log implements the append-only trail: entries are never removed, reordered or
\* sealed twice, and the waiting ones are sealed in order.
THEOREM Refinement == Spec => TrailKept
  <1>1. Init => Trail!TInit
    <2> SUFFICES ASSUME Init PROVE Seals = <<>>
      BY DEF Trail!TInit
    <2>1. rows = <<>> /\ rows \in Seq(Rows)
      BY DEF Init
    <2>2. Seals \in Seq(KeyIds \cup {Unsigned}) /\ Len(Seals) = 0
      BY <2>1, SealsType DEF Seals
    <2> QED BY <2>2
  <1>2. IInv /\ [Next]_vars => [Trail!TNext]_Seals
    BY TypeStep, StepKeepsTrail
  <1> QED BY <1>1, <1>2, Invariance, PTL DEF Spec, TrailKept, Trail!TSpec

---------------------------------------------------------------------------------
(***************************************************************************)
(* What a session may rely on: that its log can be written, and that a     *)
(* verification does not cry wolf.                                         *)
(***************************************************************************)

\* The master password was changed, and the log has not been moved to the new key yet.
Moving == phase \in {"changing", "changed", "rekeying"}

\* Neither of the two ways in which the keys on disk fall behind has happened.
Clean == "rekey" \notin damage /\ "seal" \notin damage

\* The generation the next start begins with.
StartGen == IF state = NoState THEN 0 ELSE state.gen

\* The generation g is asked for by an entry that is signed or next to be signed.
AskedFor(g) == \E i \in DOMAIN rows : g <= Target(i) /\ \A j \in 1..(i - 1) : Signed(j)

\* A generation has one key; the signer is not behind the disk, and derived from the
\* current master key.
KeysApart == \A t, u \in keys : t.gen = u.gen => t = u
SignerAhead ==
  /\ state # NoState => state.key.gen <= state.gen
  /\ stage # "locked" => StartGen <= signer.gen
  /\ stage # "locked" /\ phase # "changing" => active = master
SignerCurrent ==
  /\ stage \in Starting => signer.master = master
  /\ stage = "open" /\ "rekey" \notin damage /\ phase \notin {"changing", "changed"} =>
       signer.master = master

\* No key is of a generation that nothing asks for.
KeysBounded ==
  "rekey" \notin damage =>
    \A t \in keys : \/ t.gen <= StartGen
                    \/ phase = "rekeying" /\ t.gen <= signer.gen
                    \/ AskedFor(t.gen)
SignedWith ==
  stage = "signed" =>
    /\ signer \in keys
    /\ "rekey" \notin damage => \A t \in keys : t.gen <= signer.gen

\* The keys the next start, or the next rotation, may meet are of the current master key.
KeysCurrent == Clean /\ ~Moving => \A t \in keys : StartGen <= t.gen => t.master = master

SignerRegistered ==
  Clean /\ "rotation" \notin damage /\ stage \in Starting \cup {"open"} => signer \in keys

\* Between the two statements of a rekey the new key is the only one ahead of the disk.
Rekeying ==
  Clean /\ phase = "rekeying" =>
    /\ signer \in keys /\ state.gen < signer.gen
    /\ \A t \in keys : t = signer \/ t.gen <= state.gen

KeyInv ==
  /\ KeysApart /\ SignerAhead /\ SignerCurrent /\ KeysBounded /\ SignedWith
  /\ KeysCurrent /\ SignerRegistered /\ Rekeying

\* What a verification has read is in the log, signed with keys it has read.
ViewSound ==
  /\ phase \in {"reading", "read", "judging"} => view.first >= 1
  /\ phase \in {"read", "judging"} => view.last \in 1..Len(rows)
  /\ phase = "judging" => \A i \in 1..view.last : rows[i].key \in view.keys

\* The strengthening of the invariant above.
SInv == IInv /\ KeyInv /\ ViewSound
--------------------------------------------------------------------------------
(* The verification. *)

\* What a verification has read stays true while others write.
LEMMA ViewStep ==
  ASSUME IInv, ViewSound, [Next]_vars
  PROVE  ViewSound'
  <1> USE DEF diskVars, tkVars
  <1>0. /\ TypeOK /\ Bookkeeping /\ ChainSound /\ rows \in Seq(Rows)
        /\ DOMAIN rows = 1..Len(rows) /\ Len(rows) \in Nat
    BY DEF IInv, TypeOK
  <1>1. ASSUME phase' \notin {"reading", "read", "judging"} PROVE ViewSound'
    BY <1>1 DEF ViewSound
  <1>2. CASE LogEvent \/ WorkerWrites
    <2>1. stage = "open" /\ (WriteCommits \/ WriteFails) /\ phase' = phase /\ view' = view
      BY <1>2 DEF LogEvent, WorkerWrites, LogFree
    <2>2. CASE WriteFails
      BY <2>1, <2>2, FailFacts DEF ViewSound
    <2>3. CASE WriteCommits
      <3>1. Len(rows') = Len(rows) + 1 /\ \A i \in 1..Len(rows) : rows'[i] = rows[i]
        BY <1>0, <2>1, <2>3, WriteFacts
      <3>2. view.last \in Nat
        BY <1>0 DEF TypeOK
      <3> QED BY <1>0, <2>1, <3>1, <3>2 DEF ViewSound
    <2> QED BY <2>1, <2>2, <2>3
  <1>3. ASSUME NEW scope \in {"full", "recent"}, VerifyBegin(scope)
        PROVE  ViewSound'
    <2> DEFINE f == IF scope = "recent" /\ Len(rows) > Recent THEN Len(rows) - Recent + 1 ELSE 1
    <2>1. f >= 1
      BY <1>0, AuditAssumption
    <2>2. phase = "idle" /\ (phase' = phase \/ (phase' = "reading" /\ view'.first = f))
      BY <1>3 DEF VerifyBegin, Blank
    <2> HIDE DEF f
    <2> QED BY <2>1, <2>2 DEF ViewSound
  <1>4. CASE LoadRows
    <2>1. rows # <<>> /\ Len(rows) >= 1
      BY <1>0, <1>4 DEF LoadRows, Bookkeeping
    <2>2. view'.last = Len(rows) /\ view'.first = view.first /\ phase = "reading" /\ phase' = "read"
      BY <1>0, <1>4 DEF LoadRows, TypeOK
    <2>3. rows' = rows
      BY <1>4 DEF LoadRows
    <2> QED BY <1>0, <2>1, <2>2, <2>3 DEF ViewSound
  <1>5. CASE LoadKeys
    <2>1. /\ view'.last = view.last /\ view'.first = view.first /\ view'.keys = keys
          /\ phase = "read" /\ rows' = rows
      BY <1>0, <1>5 DEF LoadKeys, TypeOK
    <2>2. \A i \in DOMAIN rows : rows[i].key \in keys
      BY <1>0, <2>1 DEF Bookkeeping, ChainSound
    <2>3. \A i \in 1..view.last : i \in DOMAIN rows
      BY <1>0, <2>1 DEF ViewSound
    <2> QED BY <2>1, <2>2, <2>3 DEF ViewSound
  <1>6. CASE Judge \/ CloseLogger \/ Crash
    BY <1>0, <1>1, <1>6 DEF Judge, CloseLogger, Crash
  <1>7. CASE FailedLogin \/ StartStep
    <2>1. stage # "open" /\ phase' = phase
      BY <1>7 DEF FailedLogin, StartStep, StartLogger, EnsureState, MigrateRotate, MigrateSign,
        MigrateAnchor, Open
    <2> QED BY <1>0, <1>1, <2>1 DEF Bookkeeping
  <1>8. CASE RekeyStep
    BY <1>1, <1>8 DEF RekeyStep, ChangePassword, ActivateKey, RekeyRegister, RekeyRefused, RekeyState
  <1>9. CASE LogEventAsync \/ UNCHANGED vars
    <2>1. rows' = rows /\ phase' = phase /\ view' = view
      BY <1>9 DEF LogEventAsync, vars
    <2> QED BY <2>1 DEF ViewSound
  <1> QED BY <1>2, <1>3, <1>4, <1>5, <1>6, <1>7, <1>8, <1>9 DEF Next, WriteStep, VerifyStep

\* The judgement of a log that has not grown and whose anchor was moved is right.
LEMMA JudgementRight ==
  ASSUME IInv, ViewSound, Judge, verdict' = "tampered"
  PROVE  view.scope = "full" /\ (Len(rows) > view.last \/ "seal" \in damage)
  <1>0. /\ TypeOK /\ ChainSound /\ rows \in Seq(Rows) /\ stage = "open" /\ state # NoState
        /\ DOMAIN rows = 1..Len(rows) /\ Len(rows) \in Nat /\ phase = "judging"
    BY DEF IInv, TypeOK, Bookkeeping, Judge
  <1>1. /\ view.first \in Nat /\ view.first >= 1 /\ view.last \in 1..Len(rows)
        /\ \A i \in 1..view.last : rows[i].key \in view.keys
    BY <1>0 DEF ViewSound, TypeOK
  <1>2. ChainValid
    BY <1>0, <1>1 DEF ChainValid, ChainSound
  <1>3. view.scope = "full" /\ ~AnchorValid
    BY <1>2 DEF Judge
  <1>4. SUFFICES ASSUME ~(Len(rows) > view.last), "seal" \notin damage
                 PROVE  AnchorValid
    BY <1>3
  <1>5. view.last = Len(rows)
    BY <1>0, <1>1, <1>4
  <1>6. LastSigned(Len(rows))
    BY <1>0, <1>1, <1>5 DEF ChainSound, LastSigned, Signed
  <1>7. state.hash = HashOf(view.last) /\ state.key = rows[view.last].key
    BY <1>0, <1>1, <1>4, <1>5, <1>6 DEF IInv, AnchorFollows
  <1> QED BY <1>0, <1>1, <1>7 DEF AnchorValid

\* A step that ends a verification with an alarm is explained.
LEMMA AlarmStep ==
  ASSUME IInv, ViewSound, [Next]_vars,
         phase = "judging", phase' = "idle", verdict' = "tampered"
  PROVE  view.scope = "full" /\ (Len(rows) > view.last \/ "seal" \in damage)
  <1>0. stage = "open"
    BY DEF IInv, Bookkeeping
  <1>1. CASE Judge
    BY <1>1, JudgementRight
  <1>2. CASE Crash
    BY <1>2 DEF Crash
  <1>3. CASE FailedLogin \/ StartStep
    BY <1>0, <1>3 DEF FailedLogin, StartStep, StartLogger, EnsureState, MigrateRotate, MigrateSign,
      MigrateAnchor, Open
  <1>4. CASE WriteStep
    BY <1>4 DEF WriteStep, LogEvent, LogEventAsync, WorkerWrites, tkVars
  <1>5. CASE (\E scope \in {"full", "recent"} : VerifyBegin(scope)) \/ LoadRows \/ LoadKeys
    BY <1>5 DEF VerifyBegin, LoadRows, LoadKeys
  <1>6. CASE RekeyStep \/ CloseLogger
    BY <1>6 DEF RekeyStep, ChangePassword, ActivateKey, RekeyRegister, RekeyRefused, RekeyState,
      CloseLogger
  <1>7. CASE UNCHANGED vars
    BY <1>7 DEF vars, tkVars
  <1> QED BY <1>1, <1>2, <1>3, <1>4, <1>5, <1>6, <1>7 DEF Next, VerifyStep
--------------------------------------------------------------------------------
(* Keys and generations. *)

\* The numbers the keys are compared by.
LEMMA KeyTypes ==
  ASSUME TypeOK
  PROVE  /\ signer \in KeyIds /\ signer.gen \in Nat /\ signer.master \in Nat
         /\ active \in Nat /\ master \in Nat /\ keys \subseteq KeyIds
         /\ \A t \in KeyIds : t.gen \in Nat /\ t.master \in Nat
         /\ StartGen \in Nat
         /\ state # NoState => state \in States /\ state.gen \in Nat /\ state.key.gen \in Nat
         /\ rows \in Seq(Rows) /\ DOMAIN rows = 1..Len(rows) /\ Len(rows) \in Nat
  BY DEF TypeOK, KeyIds, States, StartGen

\* A key is its generation and its master key.
LEMMA KeyEqual ==
  ASSUME NEW t \in KeyIds, NEW u \in KeyIds, t.gen = u.gen, t.master = u.master
  PROVE  t = u
  BY DEF KeyIds

\* Registering a key keeps the others, and the table has a key of its generation after.
LEMMA RegisteredKeys ==
  ASSUME NEW table, NEW k
  PROVE  /\ \A t \in Registered(k, table) : t \in table \/ (t = k /\ \A u \in table : u.gen # k.gen)
         /\ (\A u \in table : u.gen = k.gen => u = k) => k \in Registered(k, table)
         /\ (\A t, u \in table : t.gen = u.gen => t = u) =>
              \A t, u \in Registered(k, table) : t.gen = u.gen => t = u
  BY DEF Registered

\* The keys a rotation adds are derived from the active master key, and later than the signer.
LEMMA RotationKeys ==
  ASSUME TypeOK, NEW n \in Nat \ {0}
  PROVE  /\ RotatedSigner(n) = signer \/ RotatedSigner(n).master = active
         /\ signer.gen >= Target(n) => RotatedSigner(n) = signer
         /\ signer.gen < Target(n) => RotatedSigner(n) = [gen |-> Target(n), master |-> active]
         /\ \A t \in RotatedKeys(n) :
              \/ t \in keys
              \/ /\ t.master = active /\ signer.gen < t.gen /\ t.gen <= Target(n)
                 /\ \A u \in keys : u.gen # t.gen
  <1>1. Target(n) \in Nat /\ signer.gen \in Nat /\ active \in Nat
    BY TargetFacts, KeyTypes
  <1>2. ASSUME NEW t \in RotatedKeys(n), t \notin keys
        PROVE  /\ t.master = active /\ signer.gen < t.gen /\ t.gen <= Target(n)
               /\ \A u \in keys : u.gen # t.gen
    <2>1. t \in [gen : (signer.gen + 1)..Target(n), master : {active}] /\ \A u \in keys : u.gen # t.gen
      BY <1>2 DEF RotatedKeys
    <2> QED BY <1>1, <2>1
  <1> QED BY <1>1, <1>2 DEF RotatedSigner

\* A rotation keeps generations apart.
LEMMA RotationApart ==
  ASSUME TypeOK, KeysApart, NEW n \in Nat \ {0}
  PROVE  \A t, u \in RotatedKeys(n) : t.gen = u.gen => t = u
  <1> SUFFICES ASSUME NEW t \in RotatedKeys(n), NEW u \in RotatedKeys(n), t.gen = u.gen
               PROVE  t = u
    OBVIOUS
  <1>1. t \in KeyIds /\ u \in KeyIds
    BY RotationFacts
  <1>2. (t \in keys \/ (t.master = active /\ \A v \in keys : v.gen # t.gen))
        /\ (u \in keys \/ (u.master = active /\ \A v \in keys : v.gen # u.gen))
    BY RotationKeys
  <1> QED BY <1>1, <1>2, KeyEqual DEF KeysApart

\* In a session whose log is whole, no key is ahead of the generation on disk.
LEMMA NoKeyAhead ==
  ASSUME IInv, SignerAhead, KeysBounded, stage = "open", phase # "rekeying", Clean
  PROVE  /\ state # NoState /\ state.gen <= signer.gen
         /\ \A t \in keys : t.gen <= state.gen
  <1>0. /\ TypeOK /\ ChainSound /\ KeysOnlyAdvance /\ state # NoState /\ rows # <<>>
    BY DEF IInv, Bookkeeping
  <1>1. /\ rows \in Seq(Rows) /\ DOMAIN rows = 1..Len(rows) /\ Len(rows) \in Nat \ {0}
        /\ state.gen \in Nat /\ state.key.gen \in Nat /\ StartGen = state.gen /\ signer.gen \in Nat
        /\ \A t \in keys : t.gen \in Nat
    BY <1>0, KeyTypes DEF StartGen
  <1>2. Signed(Len(rows)) /\ LastSigned(Len(rows))
    BY <1>0, <1>1 DEF ChainSound, LastSigned, Signed
  <1>3. state.key = rows[Len(rows)].key
    BY <1>0, <1>1, <1>2 DEF IInv, AnchorFollows, Clean
  <1>4. Target(Len(rows)) <= state.gen
    <2>1. Target(Len(rows)) \in Nat
      BY <1>1, TargetFacts
    <2>2. Target(Len(rows)) <= state.key.gen
      BY <1>0, <1>1, <1>2, <1>3 DEF KeysOnlyAdvance, Signed
    <2> QED BY <1>0, <1>1, <2>1, <2>2 DEF SignerAhead
  <1>5. ASSUME NEW t \in keys PROVE t.gen <= state.gen
    <2>1. t.gen <= StartGen \/ AskedFor(t.gen)
      BY DEF KeysBounded, Clean
    <2>2. ASSUME AskedFor(t.gen) PROVE t.gen <= state.gen
      <3>1. PICK i \in DOMAIN rows : t.gen <= Target(i)
        BY <2>2 DEF AskedFor
      <3>2. Target(i) <= Target(Len(rows)) /\ Target(i) \in Nat /\ Target(Len(rows)) \in Nat
        BY <1>1, TargetFacts
      <3> QED BY <1>1, <1>4, <3>1, <3>2
    <2> QED BY <1>1, <2>1, <2>2
  <1> QED BY <1>0, <1>1, <1>5 DEF SignerAhead
--------------------------------------------------------------------------------
(* The steps, as far as keys are concerned. *)

\* A write on any thread.
Write ==
  /\ stage = "open" /\ phase # "rekeying"
  /\ WriteCommits \/ WriteFails
  /\ UNCHANGED <<master, stage, phase, active>>

\* A step that has nothing to do with keys.
Quiet ==
  /\ UNCHANGED <<rows, keys, state, master, stage, signer, active, damage>>
  /\ \/ phase' = phase
     \/ {phase, phase'} \subseteq {"idle", "reading", "read", "judging"}

\* Every step is one of these.
LEMMA StepKinds ==
  ASSUME [Next]_vars
  PROVE  \/ FailedLogin \/ StartStep \/ Write \/ RekeyStep \/ CloseLogger \/ Crash \/ Quiet
  <1> USE DEF diskVars, tkVars
  <1>1. CASE LogEvent \/ WorkerWrites
    BY <1>1 DEF LogEvent, WorkerWrites, LogFree, Write
  <1>2. CASE LogEventAsync \/ VerifyStep \/ UNCHANGED vars
    BY <1>2 DEF LogEventAsync, VerifyStep, VerifyBegin, LoadRows, LoadKeys, Judge, vars, Quiet
  <1> QED BY <1>1, <1>2 DEF Next, WriteStep

\* A generation keeps its one key.
LEMMA ApartStep ==
  ASSUME IInv, KeysApart, [Next]_vars
  PROVE  KeysApart'
  <1> USE DEF diskVars, tkVars
  <1>0. TypeOK /\ Len(rows) + 1 \in Nat \ {0}
    BY KeyTypes DEF IInv
  <1>1. ASSUME keys' = keys PROVE KeysApart'
    BY <1>1 DEF KeysApart
  <1>2. ASSUME NEW k, keys' = Registered(k, keys) PROVE KeysApart'
    BY <1>2, RegisteredKeys DEF KeysApart
  <1>3. CASE Write
    <2>1. CASE WriteCommits
      BY <1>0, <2>1, RotationApart DEF WriteCommits, KeysApart
    <2>2. CASE WriteFails
      BY <1>1, <2>2 DEF WriteFails
    <2> QED BY <1>3, <2>1, <2>2 DEF Write
  <1>4. CASE StartStep
    BY <1>1, <1>2, <1>4 DEF StartStep, StartLogger, EnsureState, MigrateRotate, MigrateSign,
      MigrateAnchor, Open
  <1>5. CASE RekeyStep
    BY <1>1, <1>2, <1>5 DEF RekeyStep, ChangePassword, ActivateKey, RekeyRegister, RekeyRefused,
      RekeyState
  <1>6. CASE FailedLogin \/ CloseLogger \/ Crash \/ Quiet
    BY <1>1, <1>6 DEF FailedLogin, CloseLogger, Crash, Quiet
  <1> QED BY <1>3, <1>4, <1>5, <1>6, StepKinds

\* The signer stays ahead of the disk.
LEMMA AheadStep ==
  ASSUME IInv, SignerAhead, [Next]_vars, TypeOK'
  PROVE  SignerAhead'
  <1> USE DEF diskVars, tkVars
  <1>0. /\ TypeOK /\ Bookkeeping /\ Len(rows) + 1 \in Nat \ {0}
        /\ signer.gen \in Nat /\ signer'.gen \in Nat /\ StartGen \in Nat
        /\ signer \in KeyIds /\ signer' \in KeyIds
        /\ state # NoState => state \in States /\ state.gen \in Nat /\ state.key.gen \in Nat
    BY KeyTypes DEF IInv, TypeOK, KeyIds
  \* A new anchor carries the signer and its generation.
  <1>1. ASSUME NEW h \in Hashes, state' = Anchor(h, signer'), stage' # "locked", active' = master'
        PROVE  SignerAhead'
    BY <1>0, <1>1, AnchorType DEF SignerAhead, StartGen
  <1>2. CASE StartLogger
    <2>1. signer' = [gen |-> StartGen, master |-> master]
      BY <1>2 DEF StartLogger, StartGen
    <2>2. state' = state /\ StartGen' = StartGen /\ signer'.gen = StartGen
      BY <1>2, <2>1 DEF StartLogger, StartGen
    <2> QED BY <1>0, <1>2, <2>2 DEF SignerAhead, StartLogger
  <1>3. CASE EnsureState
    <2>1. Zero \in Hashes
      BY DEF Zero, Hashes
    <2>2. stage = "registered" /\ stage' = "migrating" /\ phase = "idle" /\ phase' = phase
          /\ signer' = signer /\ active' = active /\ master' = master /\ active = master
      BY <1>0, <1>3 DEF EnsureState, Bookkeeping, SignerAhead
    <2>3. CASE state = NoState
      BY <1>1, <1>3, <2>1, <2>2, <2>3 DEF EnsureState
    <2>4. CASE state # NoState
      BY <1>3, <2>2, <2>4 DEF EnsureState, SignerAhead, StartGen
    <2> QED BY <2>3, <2>4
  <1>4. CASE MigrateRotate
    <2>1. signer' = [gen |-> signer.gen + 1, master |-> active] /\ StartGen' = StartGen
          /\ state' = state /\ stage' = stage /\ phase' = phase /\ active' = active /\ master' = master
      BY <1>4 DEF MigrateRotate, StartGen
    <2>2. signer'.gen = signer.gen + 1
      BY <2>1
    <2> QED BY <1>0, <2>1, <2>2 DEF SignerAhead
  <1>5. CASE MigrateSign
    BY <1>5 DEF MigrateSign, SignerAhead, StartGen
  <1>6. CASE MigrateAnchor
    <2>1. PICK i \in DOMAIN rows : state' = Anchor(HashOf(i), signer)
      BY <1>6 DEF MigrateAnchor
    <2>2. HashOf(i) \in Hashes
      BY <1>0, HashType DEF TypeOK
    <2>3. /\ signer' = signer /\ stage' = "migrating" /\ active' = active /\ master' = master
          /\ active = master
      BY <1>0, <1>6 DEF MigrateAnchor, Bookkeeping, SignerAhead
    <2> QED BY <1>1, <2>1, <2>2, <2>3
  <1>7. CASE Open
    <2>1. /\ signer' = signer /\ stage = "migrating" /\ stage' = "open" /\ phase' = phase
          /\ active' = active /\ master' = master /\ active = master
      BY <1>0, <1>7 DEF Open, Bookkeeping, SignerAhead
    <2>2. [seq |-> 1, signed |-> TRUE] \in Hashes
      BY DEF Hashes
    <2>3. CASE rows = <<>>
      BY <1>1, <1>7, <2>1, <2>2, <2>3 DEF Open
    <2>4. CASE rows # <<>>
      BY <1>7, <2>1, <2>4 DEF Open, SignerAhead, StartGen
    <2> QED BY <2>3, <2>4
  <1>8. CASE Write
    <2>1. /\ stage = "open" /\ stage' = "open" /\ phase' = phase /\ active' = active /\ master' = master
      BY <1>8 DEF Write
    <2>2. CASE WriteCommits
      <3>1. state' \in States /\ state'.key = signer' /\ state'.gen = signer'.gen
        BY <2>1, <2>2, WriteFacts
      <3>2. state' # NoState
        BY <3>1, UnsignedAssumption
      <3> QED BY <1>0, <2>1, <3>1, <3>2 DEF SignerAhead, StartGen
    <2>3. CASE WriteFails
      <3>1. state' = state /\ signer'.gen >= signer.gen
        BY <2>3, FailFacts
      <3> QED BY <1>0, <2>1, <3>1 DEF SignerAhead, StartGen
    <2> QED BY <1>8, <2>2, <2>3 DEF Write
  <1>9. CASE ChangePassword \/ ActivateKey \/ RekeyRefused
    BY <1>0, <1>9 DEF ChangePassword, ActivateKey, RekeyRefused, SignerAhead, StartGen, Bookkeeping
  <1>10. CASE RekeyRegister
    <2>1. signer'.gen = signer.gen + 1 /\ state' = state /\ stage' = stage
          /\ active' = active /\ master' = master /\ phase = "changed"
      BY <1>10 DEF RekeyRegister
    <2> QED BY <1>0, <2>1 DEF SignerAhead, StartGen
  <1>11. CASE RekeyState
    <2>1. /\ state \in States /\ state # NoState /\ stage' = stage /\ signer' = signer
          /\ active' = active /\ master' = master /\ phase = "rekeying" /\ stage = "open"
      BY <1>0, <1>11 DEF RekeyState, Bookkeeping
    <2>2. state' = state \/ state' = [state EXCEPT !.gen = signer.gen]
      BY <1>11 DEF RekeyState
    <2>3. state'.key = state.key /\ (state'.gen = state.gen \/ state'.gen = signer.gen)
      BY <2>1, <2>2 DEF States
    <2>4. state' \in States /\ state' # NoState
      BY <1>0, <2>1, <2>2, UnsignedAssumption DEF States
    <2> QED BY <1>0, <2>1, <2>3, <2>4 DEF SignerAhead, StartGen
  <1>12. CASE FailedLogin \/ CloseLogger \/ Crash
    BY <1>12 DEF FailedLogin, CloseLogger, Crash, SignerAhead, StartGen
  <1>13. CASE Quiet
    BY <1>13 DEF Quiet, SignerAhead, StartGen
  <1> QED
    BY <1>2, <1>3, <1>4, <1>5, <1>6, <1>7, <1>8, <1>9, <1>10, <1>11, <1>12, <1>13, StepKinds
    DEF StartStep, RekeyStep

\* The signer of a running session stays the one of the current password.
LEMMA CurrentStep ==
  ASSUME IInv, SignerAhead, SignerCurrent, [Next]_vars
  PROVE  SignerCurrent'
  <1> USE DEF diskVars, tkVars, Starting
  <1>0. TypeOK /\ Bookkeeping /\ Len(rows) + 1 \in Nat \ {0}
    BY KeyTypes DEF IInv
  <1>1. CASE StartLogger
    BY <1>1 DEF StartLogger, SignerCurrent
  <1>2. CASE MigrateRotate
    <2>1. phase = "idle" /\ active = master
      BY <1>0, <1>2 DEF MigrateRotate, Bookkeeping, SignerAhead
    <2> QED BY <1>2, <2>1 DEF MigrateRotate, SignerCurrent
  <1>3. CASE EnsureState \/ MigrateSign \/ MigrateAnchor \/ Open
    BY <1>3 DEF EnsureState, MigrateSign, MigrateAnchor, Open, SignerCurrent
  <1>4. CASE Write
    <2>1. /\ stage = "open" /\ stage' = stage /\ phase' = phase /\ active' = active /\ master' = master
      BY <1>4 DEF Write
    <2>2. signer' = signer \/ signer' = RotatedSigner(Len(rows) + 1)
      BY <1>4 DEF Write, WriteCommits, WriteFails
    <2>3. signer' = signer \/ signer'.master = active
      BY <1>0, <2>2, RotationKeys
    <2>4. "rekey" \in damage => "rekey" \in damage'
      BY <1>4 DEF Write, WriteCommits, WriteFails
    <2> QED BY <2>1, <2>3, <2>4 DEF SignerCurrent, SignerAhead
  <1>5. CASE RekeyRegister
    <2>1. stage = "open" /\ active = master /\ signer'.master = active /\ master' = master /\ stage' = stage
      BY <1>0, <1>5 DEF RekeyRegister, Bookkeeping, SignerAhead
    <2> QED BY <2>1 DEF SignerCurrent
  <1>6. CASE ChangePassword \/ ActivateKey \/ RekeyRefused \/ RekeyState
    BY <1>0, <1>6 DEF ChangePassword, ActivateKey, RekeyRefused, RekeyState, SignerCurrent, Bookkeeping
  <1>7. CASE FailedLogin \/ CloseLogger \/ Crash
    BY <1>7 DEF FailedLogin, CloseLogger, Crash, SignerCurrent
  <1>8. CASE Quiet
    BY <1>8 DEF Quiet, SignerCurrent
  <1> QED BY <1>1, <1>2, <1>3, <1>4, <1>5, <1>6, <1>7, <1>8, StepKinds DEF StartStep, RekeyStep

\* What is asked for stays asked for: entries are signed, not unsigned.
LEMMA AskedStep ==
  ASSUME IInv, [Next]_vars, NEW g, AskedFor(g)
  PROVE  AskedFor(g)'
  <1> USE DEF diskVars, tkVars
  <1>0. TypeOK /\ rows \in Seq(Rows) /\ DOMAIN rows = 1..Len(rows) /\ Len(rows) \in Nat /\ signer \in KeyIds
    BY KeyTypes DEF IInv
  <1>a. Unsigned \notin KeyIds
    BY UnsignedAssumption
  <1>1. PICK i \in DOMAIN rows : g <= Target(i) /\ \A j \in 1..(i - 1) : Signed(j)
    BY DEF AskedFor
  <1>2. ASSUME DOMAIN rows \subseteq DOMAIN rows',
               \A j \in DOMAIN rows : Signed(j) => rows'[j].key # Unsigned
        PROVE  AskedFor(g)'
    <2>1. i \in DOMAIN rows' /\ \A j \in 1..(i - 1) : rows'[j].key # Unsigned
      BY <1>0, <1>1, <1>2
    <2> QED BY <1>1, <2>1 DEF AskedFor, Signed, Target
  <1>3. ASSUME rows' = rows PROVE AskedFor(g)'
    BY <1>2, <1>3 DEF Signed
  <1>4. ASSUME Len(rows') = Len(rows) + 1, rows' \in Seq(Rows), \A j \in DOMAIN rows : rows'[j] = rows[j]
        PROVE  AskedFor(g)'
    BY <1>0, <1>2, <1>4 DEF Signed
  <1>5. CASE FailedLogin
    <2>1. HeadHash \in Hashes
      BY <1>0, HashType DEF HeadHash
    <2>2. [key |-> Unsigned, prev |-> HeadHash] \in Rows
      BY <2>1 DEF Rows
    <2>3. rows' = Append(rows, [key |-> Unsigned, prev |-> HeadHash])
      BY <1>5 DEF FailedLogin
    <2> QED BY <1>0, <1>4, <2>2, <2>3
  <1>6. CASE Write
    <2>1. CASE WriteCommits
      BY <1>4, <1>6, <2>1, WriteFacts DEF Write
    <2>2. CASE WriteFails
      BY <1>3, <2>2, FailFacts
    <2> QED BY <1>6, <2>1, <2>2 DEF Write
  <1>7. CASE MigrateSign
    <2>1. PICK n \in DOMAIN rows :
            rows' = rows \/ rows' = [rows EXCEPT ![n] = [key |-> signer, prev |-> HashOf(n - 1)]]
      BY <1>7 DEF MigrateSign
    <2>2. ASSUME rows' = [rows EXCEPT ![n] = [key |-> signer, prev |-> HashOf(n - 1)]]
          PROVE  AskedFor(g)'
      <3>1. DOMAIN rows' = DOMAIN rows /\ rows'[n].key = signer /\ \A j \in DOMAIN rows : j # n => rows'[j] = rows[j]
        BY <1>0, <2>2
      <3> QED BY <1>0, <1>a, <1>2, <3>1 DEF Signed
    <2> QED BY <1>3, <2>1, <2>2
  <1>8. CASE Open
    <2>1. rows # <<>>
      BY <1>0, <1>1
    <2> QED BY <1>3, <1>8, <2>1 DEF Open
  <1>9. CASE StartLogger \/ EnsureState \/ MigrateRotate \/ MigrateAnchor
    BY <1>3, <1>9 DEF StartLogger, EnsureState, MigrateRotate, MigrateAnchor
  <1>10. CASE RekeyStep \/ CloseLogger \/ Crash \/ Quiet
    BY <1>3, <1>10 DEF RekeyStep, ChangePassword, ActivateKey, RekeyRegister, RekeyRefused, RekeyState,
      CloseLogger, Crash, Quiet
  <1> QED BY <1>5, <1>6, <1>7, <1>8, <1>9, <1>10, StepKinds DEF StartStep

\* No step makes a key of a generation that nothing asks for.
LEMMA BoundStep ==
  ASSUME IInv, SignerAhead, KeysBounded, [Next]_vars, TypeOK', SignerAhead'
  PROVE  KeysBounded'
  <1> USE DEF diskVars, tkVars
  <1>0. /\ TypeOK /\ Bookkeeping /\ Len(rows) + 1 \in Nat \ {0}
        /\ signer.gen \in Nat /\ StartGen \in Nat /\ signer \in KeyIds /\ keys \subseteq KeyIds
        /\ rows \in Seq(Rows) /\ DOMAIN rows = 1..Len(rows) /\ Len(rows) \in Nat
        /\ \A t \in keys : t.gen \in Nat
    BY KeyTypes DEF IInv
  <1>b. /\ signer'.gen \in Nat /\ StartGen' \in Nat /\ \A t \in keys' : t.gen \in Nat
    <2>1. signer' \in KeyIds /\ keys' \subseteq KeyIds /\ state' \in States \cup {NoState}
      BY DEF TypeOK
    <2> QED BY <2>1 DEF KeyIds, StartGen, States
  \* A step from which neither the generation on disk goes back nor a rekey is left open.
  <1>1. ASSUME "rekey" \notin damage' => "rekey" \notin damage,
               "rekey" \notin damage' => phase # "rekeying", StartGen <= StartGen',
               "rekey" \notin damage' =>
                 \A t \in keys' \ keys : t.gen <= StartGen' \/ AskedFor(t.gen)
                                         \/ (phase' = "rekeying" /\ t.gen <= signer'.gen)
        PROVE  KeysBounded'
    <2> SUFFICES ASSUME "rekey" \notin damage', NEW t \in keys'
                 PROVE  \/ t.gen <= StartGen'
                        \/ phase' = "rekeying" /\ t.gen <= signer'.gen
                        \/ AskedFor(t.gen)'
      BY DEF KeysBounded
    <2>1. CASE t \in keys
      <3>1. t.gen <= StartGen \/ AskedFor(t.gen)
        BY <1>1, <2>1 DEF KeysBounded
      <3> QED BY <1>0, <1>1, <1>b, <2>1, <3>1, AskedStep
    <2>2. CASE t \notin keys
      BY <1>1, <2>2, AskedStep
    <2> QED BY <2>1, <2>2
  <1>c. stage # "open" => phase = "idle"
    BY <1>0 DEF Bookkeeping
  <1>2. CASE StartLogger
    <2>1. signer' = [gen |-> StartGen, master |-> master] /\ keys' = Registered(signer', keys)
          /\ state' = state /\ damage' = damage /\ stage = "locked"
      BY <1>2 DEF StartLogger, StartGen
    <2>2. StartGen' = StartGen /\ \A t \in keys' \ keys : t.gen = StartGen'
      BY <2>1, RegisteredKeys DEF StartGen
    <2> QED BY <1>0, <1>1, <1>b, <1>c, <2>1, <2>2
  <1>3. CASE MigrateRotate
    <2>1. PICK i \in DOMAIN rows : FirstUnsigned(i) /\ signer.gen < Target(i)
      BY <1>3 DEF MigrateRotate
    <2>2. signer' = [gen |-> signer.gen + 1, master |-> active] /\ keys' = Registered(signer', keys)
          /\ state' = state /\ damage' = damage /\ stage = "migrating" /\ StartGen' = StartGen
      BY <1>3 DEF MigrateRotate, StartGen
    <2>3. \A t \in keys' \ keys : t.gen = signer.gen + 1
      BY <2>2, RegisteredKeys
    <2>4. Target(i) \in Nat
      BY <1>0, TargetFacts
    <2>5. AskedFor(signer.gen + 1)
      BY <1>0, <2>1, <2>4 DEF AskedFor, FirstUnsigned, Signed
    <2> QED BY <1>0, <1>1, <1>b, <1>c, <2>2, <2>3, <2>5
  <1>4. ASSUME keys' = keys, damage' \subseteq damage, "rekey" \in damage => "rekey" \in damage',
               phase # "rekeying", StartGen <= StartGen'
        PROVE  KeysBounded'
    BY <1>1, <1>4
  <1>5. ASSUME state' = state PROVE StartGen <= StartGen'
    BY <1>0, <1>5 DEF StartGen
  \* An anchor made by the signer.
  <1>d. ASSUME NEW h \in Hashes, state' = Anchor(h, signer'), signer'.gen >= signer.gen,
               stage # "locked"
        PROVE  StartGen' = signer'.gen /\ StartGen <= StartGen'
    <2>1. signer' \in KeyIds
      BY DEF TypeOK
    <2>2. state' # NoState /\ state'.gen = signer'.gen
      BY <1>d, <2>1, AnchorType
    <2> QED BY <1>0, <1>b, <1>d, <2>2 DEF StartGen, SignerAhead
  <1>6. CASE EnsureState
    <2>1. Zero \in Hashes
      BY DEF Zero, Hashes
    <2>2. state' = state \/ state' = Anchor(Zero, signer')
      BY <1>6 DEF EnsureState
    <2>3. keys' = keys /\ damage' = damage /\ signer' = signer /\ stage = "registered"
      BY <1>6 DEF EnsureState
    <2>4. StartGen <= StartGen'
      BY <1>0, <1>5, <1>d, <2>1, <2>2, <2>3
    <2> QED BY <1>4, <1>c, <2>3, <2>4
  <1>7. CASE MigrateSign
    BY <1>4, <1>5, <1>7, <1>c DEF MigrateSign
  <1>8. CASE MigrateAnchor
    <2>1. PICK i \in DOMAIN rows : state' = Anchor(HashOf(i), signer)
      BY <1>8 DEF MigrateAnchor
    <2>2. HashOf(i) \in Hashes
      BY <1>0, HashType
    <2>3. keys' = keys /\ damage' = damage \ {"seal"} /\ signer' = signer /\ stage = "signed"
      BY <1>8 DEF MigrateAnchor
    <2>4. StartGen <= StartGen'
      BY <1>0, <1>d, <2>1, <2>2, <2>3
    <2> QED BY <1>4, <1>c, <2>3, <2>4
  <1>9. CASE Open
    <2>1. [seq |-> 1, signed |-> TRUE] \in Hashes
      BY DEF Hashes
    <2>2. keys' = keys /\ damage' = damage /\ signer' = signer /\ stage = "migrating"
      BY <1>9 DEF Open
    <2>3. state' = state \/ state' = Anchor([seq |-> 1, signed |-> TRUE], signer')
      BY <1>9 DEF Open
    <2>4. StartGen <= StartGen'
      BY <1>0, <1>5, <1>d, <2>1, <2>2, <2>3
    <2> QED BY <1>4, <1>c, <2>2, <2>4
  <1>10. CASE Write
    <2> DEFINE n == Len(rows) + 1
    <2>1. stage = "open" /\ phase # "rekeying"
      BY <1>10 DEF Write
    <2>2. CASE WriteFails
      BY <1>1, <1>5, <2>1, <2>2, FailFacts
    <2>3. CASE WriteCommits
      <3>1. /\ state' \in States /\ state'.gen = signer'.gen /\ signer' = RotatedSigner(n)
            /\ damage' = damage \ {"seal"} /\ keys' = RotatedKeys(n)
        BY <2>1, <2>3, WriteFacts DEF WriteCommits
      <3>2. StartGen' = signer'.gen
        BY <3>1, UnsignedAssumption DEF StartGen
      <3>3. signer'.gen >= signer.gen /\ signer'.gen >= Target(n) /\ Target(n) \in Nat
        BY <1>0, <3>1, RotationFacts, TargetFacts
      <3>4. StartGen <= StartGen'
        BY <1>0, <1>b, <2>1, <3>2, <3>3 DEF SignerAhead
      <3>5. \A t \in keys' \ keys : t.gen <= StartGen'
        BY <1>0, <1>b, <3>1, <3>2, <3>3, RotationKeys
      <3> QED BY <1>1, <2>1, <3>1, <3>4, <3>5
    <2> QED BY <1>10, <2>2, <2>3 DEF Write
  <1>11. CASE ChangePassword \/ ActivateKey \/ RekeyRefused
    BY <1>1, <1>5, <1>11 DEF ChangePassword, ActivateKey, RekeyRefused
  <1>12. CASE RekeyRegister
    <2>1. state' = state /\ phase = "changed" /\ signer'.gen = signer.gen + 1
      BY <1>12 DEF RekeyRegister
    <2>2. CASE phase' = "rekeying"
      <3>1. keys' = Registered(signer', keys) /\ damage' = damage
        BY <1>12, <2>2 DEF RekeyRegister
      <3>2. \A t \in keys' \ keys : t = signer'
        BY <3>1, RegisteredKeys
      <3>3. \A t \in keys' \ keys : t.gen <= signer'.gen
        BY <1>b, <3>2
      <3> QED BY <1>1, <1>5, <2>1, <2>2, <3>1, <3>3
    <2>3. CASE phase' # "rekeying"
      <3>1. "rekey" \in damage'
        BY <1>12, <2>3 DEF RekeyRegister
      <3> QED BY <3>1 DEF KeysBounded
    <2> QED BY <2>2, <2>3
  <1>13. CASE RekeyState
    <2>1. phase = "rekeying" /\ keys' = keys /\ rows' = rows /\ signer' = signer /\ stage = "open"
      BY <1>0, <1>13 DEF RekeyState, Bookkeeping
    <2>2. state \in States /\ state # NoState
      BY <1>0, <2>1 DEF Bookkeeping, TypeOK
    <2>3. CASE "rekey" \in damage'
      BY <2>3 DEF KeysBounded
    <2>4. CASE "rekey" \notin damage'
      <3>1. state' = [state EXCEPT !.gen = signer.gen] /\ damage' = damage
        BY <1>13, <2>4 DEF RekeyState
      <3>2. state' \in States /\ state'.gen = signer.gen
        BY <1>0, <2>2, <3>1 DEF States
      <3>3. StartGen' = signer.gen
        BY <3>2, UnsignedAssumption DEF StartGen
      <3>4. StartGen <= signer.gen
        BY <2>1 DEF SignerAhead
      <3>5. ASSUME NEW t \in keys PROVE t.gen <= signer.gen \/ AskedFor(t.gen)'
        <4>1. t.gen <= StartGen \/ t.gen <= signer.gen \/ AskedFor(t.gen)
          BY <2>4, <3>1 DEF KeysBounded
        <4> QED BY <1>0, <3>4, <4>1, AskedStep
      <3> QED BY <2>1, <3>3, <3>5 DEF KeysBounded
    <2> QED BY <2>3, <2>4
  <1>14. CASE FailedLogin
    BY <1>4, <1>5, <1>14, <1>c DEF FailedLogin
  <1>15. CASE CloseLogger
    BY <1>4, <1>5, <1>15 DEF CloseLogger
  <1>16. CASE Crash
    <2>1. state' = state /\ keys' = keys
          /\ ("rekey" \in damage => "rekey" \in damage') /\ ("rekey" \notin damage' => phase # "rekeying")
      BY <1>16 DEF Crash
    <2> QED BY <1>1, <1>5, <2>1
  <1>17. CASE Quiet
    <2>1. state' = state /\ keys' = keys /\ damage' = damage /\ rows' = rows /\ signer' = signer
      BY <1>17 DEF Quiet
    <2>2. phase = "rekeying" => phase' = "rekeying"
      BY <1>17 DEF Quiet
    <2>3. \A t \in keys : AskedFor(t.gen) => AskedFor(t.gen)'
      BY AskedStep
    <2> QED BY <2>1, <2>2, <2>3 DEF KeysBounded, StartGen
  <1> QED
    BY <1>2, <1>3, <1>6, <1>7, <1>8, <1>9, <1>10, <1>11, <1>12, <1>13, <1>14, <1>15, <1>16,
       <1>17, StepKinds
    DEF StartStep, RekeyStep

\* What is signed in a migration is signed by the last key there is.
LEMMA SignedStep ==
  ASSUME IInv, SignerAhead, KeysBounded, SignedWith, [Next]_vars
  PROVE  SignedWith'
  <1> USE DEF diskVars, tkVars
  <1>0. /\ TypeOK /\ Bookkeeping /\ signer.gen \in Nat /\ StartGen \in Nat
        /\ DOMAIN rows = 1..Len(rows) /\ Len(rows) \in Nat /\ \A t \in keys : t.gen \in Nat
    BY KeyTypes DEF IInv
  <1>1. ASSUME stage' # "signed" PROVE SignedWith'
    BY <1>1 DEF SignedWith
  <1>2. CASE MigrateSign
    <2>1. PICK i \in DOMAIN rows :
            FirstUnsigned(i) /\ signer.gen >= Target(i) /\ (signer \notin keys => stage' = "failed")
      BY <1>2 DEF MigrateSign
    <2>2. keys' = keys /\ signer' = signer /\ damage' = damage /\ stage = "migrating"
      BY <1>2 DEF MigrateSign
    <2>3. ASSUME "rekey" \notin damage, NEW t \in keys PROVE t.gen <= signer.gen
      <3>1. t.gen <= StartGen \/ AskedFor(t.gen)
        BY <1>0, <2>2, <2>3 DEF KeysBounded, Bookkeeping
      <3>2. StartGen <= signer.gen
        BY <2>2 DEF SignerAhead
      <3>3. ASSUME AskedFor(t.gen) PROVE t.gen <= signer.gen
        <4>1. PICK m \in DOMAIN rows : t.gen <= Target(m) /\ \A j \in 1..(m - 1) : Signed(j)
          BY <3>3 DEF AskedFor
        <4>2. m <= i
          BY <1>0, <2>1, <4>1 DEF FirstUnsigned, Signed
        <4>3. Target(m) <= Target(i) /\ Target(m) \in Nat /\ Target(i) \in Nat
          BY <1>0, <4>2, TargetFacts
        <4> QED BY <1>0, <2>1, <4>1, <4>3
      <3> QED BY <1>0, <3>1, <3>2, <3>3
    <2> QED BY <1>1, <2>1, <2>2, <2>3 DEF SignedWith
  <1>3. CASE Quiet
    BY <1>3 DEF Quiet, SignedWith
  <1>4. CASE StartLogger \/ EnsureState \/ MigrateRotate \/ MigrateAnchor \/ Open \/ FailedLogin
    BY <1>1, <1>4 DEF StartLogger, EnsureState, MigrateRotate, MigrateAnchor, Open, FailedLogin
  <1>5. CASE Write \/ CloseLogger \/ Crash
    BY <1>1, <1>5 DEF Write, CloseLogger, Crash
  <1>6. CASE RekeyStep
    BY <1>0, <1>1, <1>6 DEF RekeyStep, ChangePassword, ActivateKey, RekeyRegister, RekeyRefused,
      RekeyState, Bookkeeping
  <1> QED BY <1>2, <1>3, <1>4, <1>5, <1>6, StepKinds DEF StartStep

\* The key that a start or a rekey registers is new, or is the one registered before.
LEMMA RegistersOwn ==
  ASSUME TypeOK, NEW k \in KeyIds, keys' = Registered(k, keys),
         \A t \in keys : t.gen = k.gen => t.master = k.master
  PROVE  k \in keys'
  <1>1. \A t \in keys : t.gen = k.gen => t = k
    BY KeyTypes, KeyEqual
  <1> QED BY <1>1, RegisteredKeys

\* The signer is registered, unless a rotation was rolled back or keys fell behind.
LEMMA RegisteredStep ==
  ASSUME IInv, SignerAhead, KeysBounded, SignedWith, KeysCurrent, SignerRegistered,
         [Next]_vars, TypeOK'
  PROVE  SignerRegistered'
  <1> USE DEF diskVars, tkVars, Starting
  <1>0. /\ TypeOK /\ Bookkeeping /\ signer.gen \in Nat /\ StartGen \in Nat
        /\ signer' \in KeyIds /\ \A t \in keys : t.gen \in Nat
    BY KeyTypes DEF IInv, TypeOK
  <1>1. CASE StartLogger
    <2>1. signer' = [gen |-> StartGen, master |-> master] /\ keys' = Registered(signer', keys)
          /\ damage' = damage /\ phase = "idle"
      BY <1>0, <1>1 DEF StartLogger, StartGen, Bookkeeping
    <2>2. Clean => signer' \in keys'
      BY <1>0, <2>1, RegistersOwn DEF KeysCurrent, Moving
    <2> QED BY <2>1, <2>2 DEF SignerRegistered, Clean
  <1>2. CASE MigrateRotate
    <2>1. signer' = [gen |-> signer.gen + 1, master |-> active] /\ keys' = Registered(signer', keys)
          /\ damage' = damage /\ phase = "idle" /\ stage = "migrating"
      BY <1>0, <1>2 DEF MigrateRotate, Bookkeeping
    <2>2. active = master /\ StartGen <= signer.gen
      BY <2>1 DEF SignerAhead
    <2>3. Clean => signer' \in keys'
      BY <1>0, <2>1, <2>2, RegistersOwn DEF KeysCurrent, Moving
    <2> QED BY <2>1, <2>3 DEF SignerRegistered, Clean
  <1>3. CASE MigrateAnchor
    BY <1>3 DEF MigrateAnchor, SignedWith, SignerRegistered
  <1>4. CASE EnsureState \/ MigrateSign \/ Open
    BY <1>4 DEF EnsureState, MigrateSign, Open, SignerRegistered, Clean
  <1>5. CASE Write
    <2>1. stage = "open" /\ (WriteCommits \/ WriteFails)
      BY <1>5 DEF Write
    <2>2. CASE WriteCommits
      BY <2>1, <2>2, WriteFacts DEF SignerRegistered
    <2>3. CASE WriteFails
      BY <2>1, <2>3 DEF WriteFails, SignerRegistered, Clean
    <2> QED BY <2>1, <2>2, <2>3
  <1>6. CASE RekeyRegister
    <2>1. signer' = [gen |-> signer.gen + 1, master |-> active] /\ phase = "changed" /\ stage = "open"
      BY <1>0, <1>6 DEF RekeyRegister, Bookkeeping
    <2>2. CASE "rekey" \in damage'
      BY <2>2 DEF SignerRegistered, Clean
    <2>3. CASE "rekey" \notin damage'
      <3>1. keys' = Registered(signer', keys) /\ damage' = damage
        BY <1>6, <2>3 DEF RekeyRegister
      <3>2. ASSUME Clean PROVE \A t \in keys : t.gen # signer'.gen
        <4>1. state.gen <= signer.gen /\ state.gen \in Nat /\ \A t \in keys : t.gen <= state.gen
          BY <1>0, <2>1, <3>2, NoKeyAhead, KeyTypes
        <4> QED BY <1>0, <2>1, <4>1
      <3>3. Clean => signer' \in keys'
        BY <1>0, <3>1, <3>2, RegistersOwn
      <3> QED BY <3>1, <3>3 DEF SignerRegistered, Clean
    <2> QED BY <2>2, <2>3
  <1>7. CASE ChangePassword \/ ActivateKey \/ RekeyRefused \/ RekeyState
    BY <1>7 DEF ChangePassword, ActivateKey, RekeyRefused, RekeyState, SignerRegistered, Clean
  <1>8. CASE FailedLogin \/ CloseLogger \/ Crash
    BY <1>8 DEF FailedLogin, CloseLogger, Crash, SignerRegistered
  <1>9. CASE Quiet
    BY <1>9 DEF Quiet, SignerRegistered, Clean
  <1> QED BY <1>1, <1>2, <1>3, <1>4, <1>5, <1>6, <1>7, <1>8, <1>9, StepKinds DEF StartStep, RekeyStep

\* The key a rekey registers is the only one ahead of the disk until the rekey is done.
LEMMA RekeyingStep ==
  ASSUME IInv, SignerAhead, KeysBounded, Rekeying, [Next]_vars, TypeOK'
  PROVE  Rekeying'
  <1> USE DEF diskVars, tkVars
  <1>0. /\ TypeOK /\ Bookkeeping /\ signer.gen \in Nat
        /\ signer' \in KeyIds /\ \A t \in keys : t.gen \in Nat
    BY KeyTypes DEF IInv, TypeOK
  <1>1. ASSUME phase' # "rekeying" PROVE Rekeying'
    BY <1>1 DEF Rekeying
  <1>2. CASE RekeyRegister
    <2>1. /\ signer' = [gen |-> signer.gen + 1, master |-> active] /\ phase = "changed"
          /\ stage = "open" /\ state' = state
      BY <1>0, <1>2 DEF RekeyRegister, Bookkeeping
    <2>2. CASE phase' = "rekeying" /\ Clean'
      <3>1. keys' = Registered(signer', keys) /\ damage' = damage
        BY <1>2, <2>2 DEF RekeyRegister
      <3>2. state.gen <= signer.gen /\ state.gen \in Nat /\ \A t \in keys : t.gen <= state.gen
        BY <2>1, <2>2, <3>1, <1>0, NoKeyAhead, KeyTypes DEF Clean
      <3>3. \A t \in keys : t.gen # signer'.gen
        BY <1>0, <2>1, <3>2
      <3>4. signer' \in keys' /\ \A t \in keys' : t = signer' \/ t \in keys
        BY <1>0, <3>1, <3>3, RegistersOwn, RegisteredKeys
      <3> QED BY <1>0, <2>1, <3>2, <3>4 DEF Rekeying
    <2> QED BY <1>1, <2>2 DEF Rekeying
  <1>3. CASE Quiet
    BY <1>3 DEF Quiet, Rekeying, Clean
  <1>4. CASE StartStep \/ FailedLogin
    <2>1. stage # "open" /\ phase' = phase
      BY <1>4 DEF StartStep, StartLogger, EnsureState, MigrateRotate, MigrateSign, MigrateAnchor, Open,
        FailedLogin
    <2> QED BY <1>0, <1>1, <2>1 DEF Bookkeeping
  <1>5. CASE Write \/ CloseLogger \/ Crash
    BY <1>1, <1>5 DEF Write, CloseLogger, Crash
  <1>6. CASE ChangePassword \/ ActivateKey \/ RekeyRefused \/ RekeyState
    BY <1>1, <1>6 DEF ChangePassword, ActivateKey, RekeyRefused, RekeyState
  <1> QED BY <1>2, <1>3, <1>4, <1>5, <1>6, StepKinds DEF RekeyStep

\* The keys that a start or a rotation may meet stay those of the current password.
LEMMA KeysCurrentStep ==
  ASSUME IInv, KeyInv, [Next]_vars, TypeOK', KeysApart', SignerAhead', SignerCurrent', KeysBounded'
  PROVE  KeysCurrent'
  <1> USE DEF diskVars, tkVars, Starting
  <1>0. /\ TypeOK /\ Bookkeeping /\ signer.gen \in Nat /\ StartGen \in Nat
        /\ Len(rows) + 1 \in Nat \ {0} /\ \A t \in keys : t.gen \in Nat
        /\ KeysApart /\ SignerAhead /\ SignerCurrent /\ SignedWith /\ KeysCurrent /\ Rekeying
        /\ DOMAIN rows = 1..Len(rows) /\ Len(rows) \in Nat
    BY KeyTypes DEF IInv, KeyInv
  <1>b. signer' \in KeyIds /\ signer'.gen \in Nat /\ StartGen' \in Nat /\ \A t \in keys' : t.gen \in Nat
    <2>1. signer' \in KeyIds /\ keys' \subseteq KeyIds /\ state' \in States \cup {NoState}
      BY DEF TypeOK
    <2> QED BY <2>1 DEF KeyIds, StartGen, States
  \* A step that adds keys of the current password only, and lets nothing be forgotten.
  <1>1. ASSUME Clean' => Clean, ~Moving' => ~Moving, StartGen <= StartGen',
               ~Moving' => master' = master /\ \A t \in keys' \ keys : t.master = master
        PROVE  KeysCurrent'
    BY <1>0, <1>1, <1>b DEF KeysCurrent
  \* A step after which the signer has the last generation there is.
  <1>2. ASSUME Clean' /\ ~Moving' =>
                 /\ signer' \in keys' /\ signer'.master = master' /\ StartGen' = signer'.gen
                 /\ \A t \in keys' : t.gen <= signer'.gen
        PROVE  KeysCurrent'
    BY <1>2, <1>b DEF KeysCurrent, KeysApart
  <1>3. ASSUME state' = state PROVE StartGen' = StartGen /\ StartGen <= StartGen'
    BY <1>0, <1>3 DEF StartGen
  <1>c. stage # "open" => phase = "idle" /\ ~Moving
    BY <1>0 DEF Bookkeeping, Moving
  <1>d. ASSUME NEW h \in Hashes, state' = Anchor(h, signer')
        PROVE  StartGen' = signer'.gen
    BY <1>b, <1>d, AnchorType DEF StartGen
  <1>4. CASE StartLogger
    <2>1. /\ signer' = [gen |-> StartGen, master |-> master] /\ keys' = Registered(signer', keys)
          /\ state' = state /\ damage' = damage /\ master' = master /\ stage = "locked" /\ phase' = phase
      BY <1>4 DEF StartLogger, StartGen
    <2>2. \A t \in keys' \ keys : t.master = master
      BY <2>1, RegisteredKeys
    <2> QED BY <1>1, <1>3, <1>c, <2>1, <2>2 DEF Clean
  <1>5. CASE MigrateRotate
    <2>1. /\ signer' = [gen |-> signer.gen + 1, master |-> active] /\ keys' = Registered(signer', keys)
          /\ state' = state /\ damage' = damage /\ master' = master /\ stage = "migrating" /\ phase' = phase
      BY <1>5 DEF MigrateRotate
    <2>2. active = master
      BY <1>0, <1>c, <2>1 DEF SignerAhead
    <2>3. \A t \in keys' \ keys : t.master = master
      BY <2>1, <2>2, RegisteredKeys
    <2> QED BY <1>1, <1>3, <1>c, <2>1, <2>3 DEF Clean
  <1>6. CASE MigrateSign \/ FailedLogin
    <2>1. /\ keys' = keys /\ state' = state /\ damage' = damage /\ master' = master /\ stage # "open"
      BY <1>6 DEF MigrateSign, FailedLogin
    <2> QED BY <1>1, <1>3, <1>c, <2>1 DEF Clean
  <1>7. CASE EnsureState \/ Open
    <2>1. /\ keys' = keys /\ damage' = damage /\ master' = master /\ stage \in {"registered", "migrating"}
          /\ signer' = signer
      BY <1>7 DEF EnsureState, Open
    <2>2. Zero \in Hashes /\ [seq |-> 1, signed |-> TRUE] \in Hashes
      BY DEF Zero, Hashes
    <2>3. state' = state \/ state' = Anchor(Zero, signer') \/ state' = Anchor([seq |-> 1, signed |-> TRUE], signer')
      BY <1>7 DEF EnsureState, Open
    <2>4. StartGen' = StartGen \/ StartGen' = signer.gen
      BY <1>3, <1>d, <2>1, <2>2, <2>3
    <2>5. StartGen <= StartGen'
      BY <1>0, <2>1, <2>4 DEF SignerAhead
    <2> QED BY <1>1, <1>c, <2>1, <2>5 DEF Clean
  <1>8. CASE MigrateAnchor
    <2>1. PICK i \in DOMAIN rows : state' = Anchor(HashOf(i), signer)
      BY <1>8 DEF MigrateAnchor
    <2>2. HashOf(i) \in Hashes
      BY <1>0, HashType
    <2>3. /\ keys' = keys /\ signer' = signer /\ master' = master /\ stage = "signed"
          /\ damage' = damage \ {"seal"}
      BY <1>8 DEF MigrateAnchor
    <2>4. StartGen' = signer'.gen
      BY <1>d, <2>1, <2>2, <2>3
    <2>5. signer \in keys /\ signer.master = master
      BY <1>0, <2>3 DEF SignedWith, SignerCurrent
    <2>6. Clean' => \A t \in keys' : t.gen <= signer'.gen
      BY <1>0, <2>3 DEF SignedWith, Clean
    <2> QED BY <1>2, <2>3, <2>4, <2>5, <2>6
  <1>9. CASE Write
    <2> DEFINE n == Len(rows) + 1
    <2>1. /\ stage = "open" /\ stage' = "open" /\ phase' = phase /\ master' = master /\ active' = active
          /\ phase # "rekeying"
      BY <1>9 DEF Write
    <2>2. CASE WriteFails
      <3>1. keys' = keys /\ state' = state /\ damage \subseteq damage'
        BY <2>2, FailFacts
      <3> QED BY <1>1, <1>3, <2>1, <3>1 DEF Clean, Moving
    <2>3. CASE WriteCommits
      <3>1. /\ signer' \in keys' /\ signer' = RotatedSigner(n) /\ state' \in States
            /\ state'.gen = signer'.gen /\ damage' = damage \ {"seal"}
            /\ Len(rows') = n /\ rows' \in Seq(Rows)
        BY <2>1, <2>3, WriteFacts
      <3>2. StartGen' = signer'.gen
        BY <3>1, UnsignedAssumption DEF StartGen
      <3>3. signer'.gen >= Target(n) /\ Target(n) \in Nat
        BY <1>0, <3>1, RotationFacts, TargetFacts
      <3>4. ASSUME "rekey" \notin damage', NEW t \in keys' PROVE t.gen <= signer'.gen
        <4>1. t.gen <= StartGen' \/ AskedFor(t.gen)'
          BY <2>1, <3>4 DEF KeysBounded
        <4>2. ASSUME AskedFor(t.gen)' PROVE t.gen <= signer'.gen
          <5>1. PICK i \in DOMAIN rows' : t.gen <= Target(i)
            BY <4>2 DEF AskedFor, Target
          <5>2. Target(i) <= Target(n) /\ Target(i) \in Nat
            BY <1>0, <3>1, <5>1, TargetFacts
          <5> QED BY <1>b, <3>3, <5>1, <5>2
        <4> QED BY <3>2, <4>1, <4>2
      <3>5. "rekey" \notin damage' /\ ~Moving' => signer'.master = master'
        BY <2>1 DEF SignerCurrent, Moving
      <3> QED BY <1>2, <3>1, <3>2, <3>4, <3>5 DEF Clean
    <2> QED BY <1>9, <2>2, <2>3 DEF Write
  <1>10. CASE ChangePassword \/ ActivateKey
    <2>1. Moving'
      BY <1>10 DEF ChangePassword, ActivateKey, Moving
    <2> QED BY <2>1 DEF KeysCurrent
  <1>11. CASE RekeyRegister \/ RekeyRefused
    <2>1. Moving' \/ ~Clean'
      BY <1>11 DEF RekeyRegister, RekeyRefused, Moving, Clean
    <2> QED BY <2>1 DEF KeysCurrent
  <1>12. CASE RekeyState
    <2>1. /\ phase = "rekeying" /\ keys' = keys /\ signer' = signer /\ master' = master
          /\ stage = "open" /\ state \in States
      BY <1>0, <1>12 DEF RekeyState, Bookkeeping, TypeOK
    <2>2. CASE "rekey" \in damage'
      BY <2>2 DEF KeysCurrent, Clean
    <2>3. CASE "rekey" \notin damage'
      <3>1. state' = [state EXCEPT !.gen = signer.gen] /\ damage' = damage
        BY <1>12, <2>3 DEF RekeyState
      <3>2. state' \in States /\ state'.gen = signer.gen /\ state.gen \in Nat
        BY <1>0, <2>1, <3>1 DEF States
      <3>3. StartGen' = signer'.gen
        BY <2>1, <3>2, UnsignedAssumption DEF StartGen
      <3>4. signer.master = master
        BY <1>0, <2>1, <2>3, <3>1 DEF SignerCurrent
      <3>5. Clean' => signer \in keys /\ \A t \in keys : t.gen <= signer.gen
        BY <1>0, <2>1, <3>1, <3>2 DEF Rekeying, Clean
      <3> QED BY <1>2, <2>1, <3>3, <3>4, <3>5
    <2> QED BY <2>2, <2>3
  <1>13. CASE CloseLogger
    BY <1>1, <1>3, <1>13 DEF CloseLogger, Clean, Moving
  <1>14. CASE Crash
    <2>1. keys' = keys /\ state' = state /\ master' = master /\ (Clean' => Clean /\ ~Moving)
      BY <1>14 DEF Crash, Clean, Moving
    <2> QED BY <1>3, <2>1, <1>0 DEF KeysCurrent
  <1>15. CASE Quiet
    BY <1>1, <1>3, <1>15 DEF Quiet, Clean, Moving
  <1> QED
    BY <1>4, <1>5, <1>6, <1>7, <1>8, <1>9, <1>10, <1>11, <1>12, <1>13, <1>14, <1>15, StepKinds
    DEF StartStep, RekeyStep
--------------------------------------------------------------------------------
(* The theorems. *)

\* Every step keeps what is known about keys.
LEMMA KeyStep ==
  ASSUME IInv, KeyInv, [Next]_vars, TypeOK'
  PROVE  KeyInv'
  <1>0. /\ KeysApart /\ SignerAhead /\ SignerCurrent /\ KeysBounded /\ SignedWith
        /\ KeysCurrent /\ SignerRegistered /\ Rekeying
    BY DEF KeyInv
  <1>1. KeysApart' /\ SignerAhead' /\ SignerCurrent'
    BY <1>0, ApartStep, AheadStep, CurrentStep
  <1>2. KeysBounded' /\ SignedWith'
    BY <1>0, <1>1, BoundStep, SignedStep
  <1>3. SignerRegistered' /\ Rekeying'
    BY <1>0, RegisteredStep, RekeyingStep
  <1>4. KeysCurrent'
    BY <1>1, <1>2, KeysCurrentStep
  <1> QED BY <1>1, <1>2, <1>3, <1>4 DEF KeyInv

\* The strengthened invariant holds always.
LEMMA SessionInvariance == Spec => []SInv
  <1>1. Init => SInv
    <2> SUFFICES ASSUME Init PROVE SInv
      OBVIOUS
    <2>1. keys = {} /\ stage = "locked" /\ phase = "idle" /\ state = NoState
      BY DEF Init
    <2>2. KeyInv
      BY <2>1 DEF KeyInv, KeysApart, SignerAhead, SignerCurrent, KeysBounded, SignedWith, KeysCurrent,
        SignerRegistered, Rekeying, Starting
    <2> QED BY <2>1, <2>2, InitIInv DEF SInv, ViewSound
  <1>2. SInv /\ [Next]_vars => SInv'
    <2> SUFFICES ASSUME SInv, [Next]_vars PROVE SInv'
      OBVIOUS
    <2>1. IInv /\ KeyInv /\ ViewSound
      BY DEF SInv
    <2>2. IInv' /\ TypeOK'
      BY <2>1, NextIInv, TypeStep
    <2> QED BY <2>1, <2>2, KeyStep, ViewStep DEF SInv
  <1> QED BY <1>1, <1>2, PTL DEF Spec

\* An undamaged session can write: the key of the next entry is registered, or can be.
LEMMA CanWriteFromKeys ==
  ASSUME IInv, KeyInv, stage = "open", phase = "idle", damage = {}
  PROVE  CanWrite
  <1> DEFINE n == Len(rows) + 1
             k == RotatedSigner(n)
  <1>0. /\ TypeOK /\ n \in Nat \ {0} /\ signer.gen \in Nat /\ active \in Nat /\ StartGen \in Nat
        /\ \A t \in keys : t \in KeyIds /\ t.gen \in Nat
    BY KeyTypes DEF IInv
  <1>1. Clean /\ ~Moving /\ signer \in keys /\ active = master /\ StartGen <= signer.gen
    BY DEF KeyInv, SignerRegistered, SignerAhead, Clean, Moving
  <1>2. keys \subseteq RotatedKeys(n) /\ k \in KeyIds /\ Target(n) \in Nat
    BY <1>0, RotationFacts, TargetFacts
  <1>3. CASE signer.gen >= Target(n)
    BY <1>0, <1>1, <1>2, <1>3, RotationKeys DEF CanWrite
  <1>4. CASE signer.gen < Target(n)
    <2>1. k = [gen |-> Target(n), master |-> active]
      BY <1>0, <1>4, RotationKeys
    <2>2. CASE \E t \in keys : t.gen = Target(n)
      <3>1. PICK t \in keys : t.gen = Target(n)
        BY <2>2
      <3>2. t.master = master
        BY <1>0, <1>1, <1>2, <1>4, <3>1 DEF KeyInv, KeysCurrent
      <3>3. t = k
        BY <1>0, <1>1, <1>2, <2>1, <3>1, <3>2, KeyEqual
      <3> QED BY <1>2, <3>3 DEF CanWrite
    <2>3. CASE \A t \in keys : t.gen # Target(n)
      <3>1. k \in [gen : (signer.gen + 1)..Target(n), master : {active}]
        BY <1>0, <1>2, <1>4, <2>1
      <3>2. k.gen = Target(n)
        BY <2>1
      <3> QED BY <2>3, <3>1, <3>2 DEF CanWrite, RotatedKeys
    <2> QED BY <2>2, <2>3
  <1> QED BY <1>0, <1>2, <1>3, <1>4

\* An idle session can write its log unless a rotation was rolled back in it, or a
\* change of the password was not followed by a complete rekey: after any number of
\* restarts, rotations and rekeys.
THEOREM AlwaysWritable == Spec => []WritableUnlessDamaged
  <1>1. SInv => WritableUnlessDamaged
    BY CanWriteFromKeys DEF SInv, WritableUnlessDamaged
  <1> QED BY <1>1, SessionInvariance, PTL

\* A verification reports tampering only if the log grew while it read or the anchor
\* was left behind by an interrupted migration, and never when it reads the recent range.
THEOREM NoCryingWolf == Spec => AlarmsExplained
  <1>1. SInv /\ [Next]_vars =>
          [phase = "judging" /\ phase' = "idle" /\ verdict' = "tampered" =>
             view.scope = "full" /\ (Len(rows) > view.last \/ "seal" \in damage)]_vars
    BY AlarmStep DEF SInv
  <1> QED BY <1>1, SessionInvariance, PTL DEF Spec, AlarmsExplained
=============================================================================
