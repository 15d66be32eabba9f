----------------------------- MODULE MCEntryVault -----------------------------
(* EntryVault with three entries, one of them read-only, for TLC.               *)
EXTENDS EntryVault

CONSTANTS a, b, c, v1, v2, clipboard

MCIds == {a, b, c}
MCReadOnly == {c}
MCValues == {v1, v2}
MCSettings == {clipboard}
===============================================================================
