----------------------------- MODULE MCExports -----------------------------
EXTENDS Exports, TLC

CONSTANTS j1, j2

\* One request of each preset.
MCPresetOf == [j \in Jobs |-> IF j = j1 THEN "FULL_GUEST_LIST" ELSE "CONFIRMED_ATTENDANCE"]

WorkerSymmetry == Permutations(Workers)
=============================================================================
