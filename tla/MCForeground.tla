---------------------------- MODULE MCForeground ----------------------------
EXTENDS Foreground, TLC

Symmetry == Permutations(Groups) \union Permutations(Evaluations)
              \union Permutations(Branches)
=============================================================================
