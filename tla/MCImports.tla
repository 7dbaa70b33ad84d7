----------------------------- MODULE MCImports -----------------------------
EXTENDS Imports, TLC

CONSTANTS i1, i2, p1

\* Two files with one phone; the second has it twice.
MCFileOf == [i \in Imports |-> IF i = i1 THEN <<p1>> ELSE <<p1, p1>>]

\* The first import is corrected and validated again, the second is only mapped.
MCMaxRevision == [i \in Imports |-> IF i = i1 THEN 5 ELSE 3]

\* One import is parsed or validated at a time, by executions that may overlap.
\* What a validation sees of the other import is the invitations it created.
PreparedOneAtATime ==
    Cardinality({j.import : j \in queue \union
                     {exec[w].job : w \in {v \in Workers : exec[v] # NoExec}}}) <= 1

\* A fault or an invitation created by hand, not both.
OneDisturbance == faults + Cardinality(ByHand) <= 1

WorkerSymmetry == Permutations(Workers)
=============================================================================
