--------------------------- MODULE ClipboardPromise ---------------------------
(***************************************************************************)
(* What the secure clipboard promises, whatever threads and timers it is   *)
(* built from: at most one secret is exposed at a time, it is exposed on a *)
(* lease, and time does not pass while an expired lease is still held.     *)
(* The unit of time is the tick of module Clipboard (five seconds).        *)
(***************************************************************************)
EXTENDS Naturals

CONSTANTS Secrets,   \* the values that may be exposed
          NoSecret,  \* nothing is exposed
          Never      \* a lease that does not run out

VARIABLES held,      \* the exposed secret, or NoSecret
          lease      \* the ticks left before it must be withdrawn, or Never

promiseVars == <<held, lease>>

Lease == Nat \cup {Never}

PInit == held = NoSecret /\ lease = Never

\* A secret is exposed; whatever was exposed before is withdrawn by the same step.
Expose(v) == held' = v /\ lease' \in Lease \ {0}

\* The lease of the exposed secret is renewed (new settings) or cut short
\* (suspicious access).
ChangeLease == held # NoSecret /\ held' = held /\ lease' \in Lease

Withdraw == held # NoSecret /\ held' = NoSecret /\ lease' = Never

\* Time passes only while the exposed secret still has lease left.
PTick == /\ held # NoSecret
         /\ lease \in Nat \ {0}
         /\ lease' = lease - 1
         /\ held' = held

PNext == (\E v \in Secrets : Expose(v)) \/ ChangeLease \/ Withdraw \/ PTick

PSpec == PInit /\ [][PNext]_promiseVars
===============================================================================
