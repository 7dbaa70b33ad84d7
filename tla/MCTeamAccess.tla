---------------------------- MODULE MCTeamAccess ----------------------------
EXTENDS TeamAccess, TLC

TeamSymmetry == Permutations(People) \union Permutations(Invitations)
=============================================================================
