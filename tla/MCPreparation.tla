--------------------------- MODULE MCPreparation ---------------------------
EXTENDS Preparation, TLC

Symmetry == Permutations(Requests) \union Permutations(Invitations)

\* With one version of the template two edits or one fault, with two one edit
\* and no second message yet.
FewDisturbances ==
    /\ changes + 2 * faults + Len(templates) =< 3
    /\ Len(templates) = 2 => \A i, j \in Invitations :
           messages[i] # <<>> /\ messages[j] # <<>> => i = j /\ Len(messages[i]) = 1
=============================================================================
