---------------------------- MODULE MCAppUpdates ----------------------------
EXTENDS AppUpdates, TLC

Symmetry == Permutations(Ids) \cup Permutations(Uploads)
              \cup Permutations(Workers)

\* legacy is written and never read here.
ButLegacy == <<row, apk, req, deployed, pending, flow, phone>>
=============================================================================
