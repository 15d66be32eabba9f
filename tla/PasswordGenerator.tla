---------------------------- MODULE PasswordGenerator ----------------------------
(***************************************************************************)
(* PasswordGenerator.generate: one character of each selected group, the   *)
(* rest of all of them, a shuffle, the judgement of the strength analyzer, *)
(* and the history of recent passwords, up to Tries times.                 *)
(***************************************************************************)
EXTENDS Integers, SequencesExt, FiniteSetsExt

CONSTANTS
  Groups,      \* the names of the character sets, in order
  Chars,       \* their characters
  Ambiguous,   \* AMBIGUOUS_CHARACTERS
  Lengths,     \* the lengths asked for
  Tries,       \* 128
  HistorySize, \* 20
  Bits,        \* bits a character has when the groups of a set occur in the password
  Thresholds,  \* 28, 36, 48, 70 bits
  Strong,      \* 3
  Alphabet,    \* runs of neighbours are looked for in this sequence, and backwards
  RunLength,   \* 4
  Fragments    \* COMMON_FRAGMENTS

ASSUME GeneratorAssumption == Lengths \subseteq Nat /\ HistorySize \in Nat \ {0}

VARIABLES
  job,       \* generate under way: [step, length, groups, chars, at, tries], or a job that rests
  history,   \* _history
  delivered  \* history: the password last given out, with what was asked for

generatorVars == <<job, history, delivered>>

Rest == [step |-> "rest", length |-> 0, groups |-> << >>, chars |-> << >>, at |-> 0, tries |-> 0]

GeneratorInit == job = Rest /\ history = << >> /\ delivered = << >>

--------------------------------------------------------------------------------
\* PasswordStrengthAnalyzer

Occurring(p) == {g \in ToSet(Groups) : \E n \in DOMAIN p : p[n] \in Chars[g]}
Entropy(p) == Len(p) * Bits[Occurring(p)]
Within(f, p) == \E n \in 0..Len(p) - Len(f) : SubSeq(p, n + 1, n + Len(f)) = f
ContainsSequence(p) ==
  \E n \in 1..Len(p) - RunLength + 1 : \E s \in {Alphabet, Reverse(Alphabet)} :
    Within(SubSeq(p, n, n + RunLength - 1), s)
Repeats(p) == \E n \in 1..Len(p) - 2 : p[n] = p[n + 1] /\ p[n + 1] = p[n + 2]
Common(p) == \E f \in Fragments : Within(f, p)

Score(p) ==
  LET base == Cardinality({t \in Thresholds : Entropy(p) >= t})
      repeated == IF Repeats(p) THEN 1 ELSE 0
      sequence == IF ContainsSequence(p) THEN 1 ELSE 0
  IN IF Common(p) THEN 0 ELSE IF base < repeated + sequence THEN 0 ELSE base - repeated - sequence

--------------------------------------------------------------------------------

\* _build_groups: the selected sets in order, without the ambiguous characters.
BuildGroups(selected, exclude) ==
  LET names == SelectSeq(Groups, LAMBDA g : g \in selected)
  IN [n \in DOMAIN names |-> Chars[names[n]] \ (IF exclude THEN Ambiguous ELSE {})]

\* There is a group, a place for each, and a character left in each.
Possible(groups, length) ==
  groups # << >> /\ DOMAIN groups \subseteq 1..length /\ \A n \in DOMAIN groups : groups[n] # {}

Generate(length, selected, exclude) ==
  LET groups == BuildGroups(selected, exclude)
  IN /\ job = Rest /\ Possible(groups, length)
     /\ job' = [Rest EXCEPT !.step = "choose", !.length = length, !.groups = groups]
     /\ delivered' = << >> /\ UNCHANGED history

\* One of each group first.
Choose ==
  /\ job.step = "choose"
  /\ \E p \in [1..job.length -> UNION ToSet(job.groups)] :
       /\ \A n \in DOMAIN job.groups : p[n] \in job.groups[n]
       /\ job' = [job EXCEPT !.step = "shuffle", !.chars = p, !.at = job.length]
  /\ UNCHANGED <<history, delivered>>

\* A slip: the two assignments one after the other.
SwapBadly(p, i, j) == [p EXCEPT ![i] = p[j]]
Swap(p, i, j) == [p EXCEPT ![i] = p[j], ![j] = p[i]]

\* Each place from the last to the second is swapped with one not behind it.
Shuffle ==
  /\ job.step = "shuffle"
  /\ IF job.at < 2 THEN job' = [job EXCEPT !.step = "judge"]
     ELSE \E j \in 1..job.at : job' = [job EXCEPT !.chars = Swap(@, job.at, j), !.at = @ - 1]
  /\ UNCHANGED <<history, delivered>>

Remember(p) == IF Len(history) < HistorySize THEN Append(history, p) ELSE Append(Tail(history), p)

\* A weak or a recent password is thrown away, and after the last try an error is raised.
Judge ==
  /\ job.step = "judge"
  /\ IF Score(job.chars) >= Strong /\ job.chars \notin ToSet(history)
     THEN /\ history' = Remember(job.chars)
          /\ delivered' = <<[password |-> job.chars, groups |-> job.groups, length |-> job.length,
                             recent |-> history]>>
          /\ job' = Rest
     ELSE /\ job' = IF job.tries + 1 < Tries THEN [job EXCEPT !.step = "choose", !.tries = @ + 1] ELSE Rest
          /\ UNCHANGED <<history, delivered>>

\* _clear_sensitive_data
ClearHistory == job = Rest /\ history' = << >> /\ UNCHANGED <<job, delivered>>

GeneratorNext ==
  \/ \E length \in Lengths, selected \in SUBSET ToSet(Groups), exclude \in BOOLEAN :
       Generate(length, selected, exclude)
  \/ Choose \/ Shuffle \/ Judge \/ ClearHistory

GeneratorSpec == GeneratorInit /\ [][GeneratorNext]_generatorVars

--------------------------------------------------------------------------------

\* Whatever was chosen, shuffled and thrown away before: a password that is given out has
\* the length and a character of every group asked for and no other, is strong, and is none
\* of the last HistorySize.
GeneratorSound ==
  \A n \in DOMAIN delivered :
    LET d == delivered[n]
    IN /\ Len(d.password) = d.length /\ ToSet(d.password) \subseteq UNION ToSet(d.groups)
       /\ \A g \in ToSet(d.groups) : ToSet(d.password) \cap g # {}
       /\ Score(d.password) >= Strong
       /\ d.password \notin ToSet(d.recent) /\ Len(history) <= HistorySize
================================================================================
