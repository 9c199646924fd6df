----------------------------- MODULE MCBotChats -----------------------------
EXTENDS BotChats, TLC

Symmetry == Permutations(Convs) \cup Permutations(Orders) \cup Permutations(Offers)
                \cup Permutations(Workers)

=============================================================================
