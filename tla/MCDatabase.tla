------------------------------ MODULE MCDatabase ------------------------------
(* The Tk thread, the audit worker and a reader, over two connections. *)
EXTENDS Database

CONSTANTS tk, worker, reader, b1, b2, r1, s1

MCThreads == {tk, worker, reader}
MCBatches == {b1, b2}
MCReads   == {r1}
MCSingles == {s1}
MCCalls   == [t \in MCThreads |->
                CASE t = tk     -> {b1, b2, s1}
                  [] t = worker -> {b1, b2}
                  [] t = reader -> {r1, s1}]
===============================================================================
