--------------------------------- MODULE Nonces ---------------------------------
(***************************************************************************)
(* The table exchange_nonces: what was received once is remembered until it*)
(* expires, and forgotten by the first look at the table after that.       *)
(***************************************************************************)
EXTENDS Naturals, FiniteSets

CONSTANT MaxTime  \* bound: ticks of the clock

VARIABLES
  now,     \* the clock
  nonces   \* the rows: [nonce, expires]

NoncesInit == now = 0 /\ nonces = {}

\* Time passes between any two steps.
Tick ==
  /\ now < MaxTime
  /\ now' = now + 1 /\ UNCHANGED nonces

Kept == {row \in nonces : row.expires > now}
NonceUsed(n) == n \in {row.nonce : row \in Kept}

\* A slip: everything is forgotten a tick early.
MarkEarly(n, expires) ==
  nonces' = {row \in nonces : row.expires > now + 1} \cup {[nonce |-> n, expires |-> expires]}

\* mark_nonce_used of a nonce that is not in the table.
MarkNonce(n, expires) == nonces' = Kept \cup {[nonce |-> n, expires |-> expires]}
================================================================================
