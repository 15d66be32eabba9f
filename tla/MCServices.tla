------------------------------ MODULE MCServices ------------------------------
(* MemoryGuard, ActivityMonitor, AuditArchive and PasswordGenerator, one of them at a  *)
(* time, for TLC: two threads and two blocks; two watching threads and three ticks;    *)
(* two rows and three days; passwords of three characters from two groups.             *)
EXTENDS MemoryGuard, ActivityMonitor, AuditArchive, PasswordGenerator

CONSTANTS t1, t2, b1, b2, w1, w2, move, press

VARIABLE part  \* the component a behaviour is about

MCThreads == {t1, t2}
MCBlocks == {b1, b2}
MCWatchers == {w1, w2}
MCTimeouts == {1, 2}
MCKinds == {move, press}
MCAccepted == {press}
MCStamps == 0..2
MCGroups == <<"letters", "digits">>
MCChars == [letters |-> {1, 2, 4}, digits |-> {7}]
MCAmbiguous == {2}
MCLengths == {1, 3}
MCBits == [g \in SUBSET {"letters", "digits"} |-> Cardinality(g) + 1]
MCThresholds == {2, 4, 7}
MCAlphabet == <<1, 2, 3, 4>>
MCFragments == {<<7, 7>>}

Parts == {"guard", "monitor", "archive", "generator"}

Init ==
  /\ part \in Parts
  /\ GuardInit /\ MonitorInit /\ ArchiveInit /\ GeneratorInit
  /\ part # "archive" => wall = 0
  /\ part # "monitor" => timeout = 2

Rests(vars, mine) == part # mine => UNCHANGED vars

Next ==
  /\ UNCHANGED part
  /\ \/ part = "guard" /\ GuardNext
     \/ part = "monitor" /\ MonitorNext
     \/ part = "archive" /\ ArchiveNext
     \/ part = "generator" /\ GeneratorNext
  /\ Rests(guardVars, "guard") /\ Rests(monitorVars, "monitor") /\ Rests(archiveVars, "archive")
  /\ Rests(generatorVars, "generator")

servicesVars == <<guardVars, monitorVars, archiveVars, generatorVars, part>>

Spec == Init /\ [][Next]_servicesVars /\ MonitorFairness
===============================================================================
