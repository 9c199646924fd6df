------------------------------ MODULE MCAccess ------------------------------
(***************************************************************************)
(* What the app may do and the policy it shows share no state: the initial *)
(* state chooses which of the two runs, and the variables of the other     *)
(* stay Null.                                                              *)
(***************************************************************************)
EXTENDS TLC

CONSTANTS
    Licenses, Devices, Snapshots, Ranks, MaxTime,
    Policies, Texts, Whole, Default, Tabs, MaxRevision,
    Null

VARIABLES
    part,
    license, slot, claim, trial, now, snap, held, late, best,
    policy, page, save, publish, edited

A == INSTANCE AppAccess WITH None <- Null
P == INSTANCE PrivacyPolicy WITH None <- Null, raced <- edited

ASSUME AppAssumption == A!AppAccessAssumption /\ P!PrivacyPolicyAssumption

accessVars == <<license, slot, claim, trial, now, snap, held, late, best>>
policyVars == <<policy, page, save, publish, edited>>
appVars == <<part, accessVars, policyVars>>

NoAccess ==
    /\ license = Null /\ slot = Null /\ claim = Null /\ trial = Null
    /\ now = Null /\ snap = Null /\ held = Null /\ late = Null /\ best = Null

NoPolicies ==
    /\ policy = Null /\ page = Null /\ save = Null /\ publish = Null
    /\ edited = Null

AppInit ==
    \/ part = "access" /\ A!AccessInit /\ NoPolicies
    \/ part = "policy" /\ P!PolicyInit /\ NoAccess

AppNext ==
    /\ UNCHANGED part
    /\ \/ part = "access" /\ A!AccessNext /\ UNCHANGED policyVars
       \/ part = "policy" /\ P!PolicyNext /\ UNCHANGED accessVars

AppSpec == AppInit /\ [][AppNext]_appVars

Symmetry == Permutations(Licenses) \cup Permutations(Devices)
              \cup Permutations(Policies) \cup Permutations(Tabs)

-----------------------------------------------------------------------------
\* The app is told that it has access when it has, and not when it has not.
AccessIsRight == part = "access" => A!AccessIsRight

\* The panel shows a device as what it is.
PanelAgrees == part = "access" => A!PanelAgrees

\* One policy is served, in both languages.
ServedIsWhole == part = "policy" => P!ServedIsWhole
=============================================================================
