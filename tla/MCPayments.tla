----------------------------- MODULE MCPayments -----------------------------
EXTENDS Payments, TLC

Symmetry == Permutations(Orders) \cup Permutations(Updates)
              \cup Permutations(Keys) \cup Permutations(Workers)
=============================================================================
