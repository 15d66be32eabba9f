---------------------------- MODULE MCVaultSession ----------------------------
(* VaultSession with a few databases open at a time, for TLC.                   *)
EXTENDS VaultSession

CONSTANTS h1, h2, h3
MCHandles == {h1, h2, h3}
TwoHandles == {h1, h2}
===============================================================================
