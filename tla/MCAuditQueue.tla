----------------------------- MODULE MCAuditQueue -----------------------------
(* AuditQueue with two producers and three events, for TLC.                     *)
EXTENDS AuditQueue

CONSTANTS tk, timer, e1, e2, e3

MCProducers == {tk, timer}
MCEvents    == {e1, e2, e3}
MCTwoEvents == {e1, e2}
===============================================================================
