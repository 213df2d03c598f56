-------------------------------- MODULE SeqOps --------------------------------
(***************************************************************************)
(* Operators on sequences as recursive functions, so that there are        *)
(* definitions to prove things from: SelectSeq with a set for the test,    *)
(* and FoldLeft with a function for the step.                              *)
(***************************************************************************)
EXTENDS Integers, Sequences

Elements(s) == {s[i] : i \in DOMAIN s}

\* What is left of a sequence when only the elements of a set are kept.
Only(s, S) ==
  LET kept[n \in 0..Len(s)] ==
        IF n = 0 THEN <<>>
        ELSE IF s[n] \in S THEN Append(kept[n - 1], s[n]) ELSE kept[n - 1]
  IN  kept[Len(s)]

\* Where a sequence leads from x, when step[x][e] is where e leads.
Folded(step, x, s) ==
  LET after[n \in 0..Len(s)] ==
        IF n = 0 THEN x ELSE step[after[n - 1]][s[n]]
  IN  after[Len(s)]
=============================================================================
