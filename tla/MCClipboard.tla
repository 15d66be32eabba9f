----------------------------- MODULE MCClipboard -----------------------------
(* ClipboardMonitor, the service with its real monitor, on the three profiles   *)
(* of ClipboardConfig.profile (30, 15 and 5 seconds are 6, 3 and 1 ticks) and   *)
(* the "no timeout" setting, for TLC.                                           *)
EXTENDS ClipboardMonitor

CONSTANTS s1, s2, other

Standard == [timeout |-> 6, strict |-> FALSE, ephemeral |-> FALSE]
Secure   == [timeout |-> 3, strict |-> TRUE,  ephemeral |-> FALSE]
Public   == [timeout |-> 1, strict |-> TRUE,  ephemeral |-> TRUE]
Forever  == [timeout |-> Never, strict |-> FALSE, ephemeral |-> FALSE]

MCSecrets == {s1, s2}
MCOthers  == {other}
MCConfigs == {Standard, Secure, Public, Forever}
Timed     == {Secure}
===============================================================================
