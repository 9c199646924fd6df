----------------------------- MODULE MCSessions -----------------------------
EXTENDS Sessions, TLC

Symmetry == Permutations(Installations) \cup Permutations(Tokens)
                \cup Permutations(Workers)

=============================================================================
