------------------------------ MODULE MCOffice ------------------------------
(***************************************************************************)
(* The resets of data from the panel and the dialogs of the administrator  *)
(* in the bot share no state: the initial state chooses which of the two   *)
(* runs.  The variables of DataReset keep an initial value meanwhile,      *)
(* those of AdminDialogs stay None.                                        *)
(***************************************************************************)
EXTENDS DataReset, TLC

CONSTANTS Reasons, Custom, Panel, Dialogs, Methods, Workers

VARIABLES part, bill, session, method, req, told, both, mixed

D == INSTANCE AdminDialogs WITH order <- bill, raced <- both

ASSUME DialogsAssumption == D!AdminDialogsAssumption

dialogVars == <<bill, session, method, req, told, both, mixed>>
allVars == <<part, vars, dialogVars>>

NoDialogs ==
    /\ bill = None /\ session = None /\ method = None /\ req = None
    /\ told = None /\ both = None /\ mixed = None

OfficeInit ==
    /\ Init
    /\ \/ part = "reset" /\ NoDialogs
       \/ part = "dialogs" /\ D!Init /\ UsersHere = {}

OfficeNext ==
    /\ UNCHANGED part
    /\ \/ part = "reset" /\ Next /\ UNCHANGED dialogVars
       \/ part = "dialogs" /\ D!Next /\ UNCHANGED vars

OfficeSpec == OfficeInit /\ [][OfficeNext]_allVars

Symmetry == Permutations(Reasons) \cup Permutations(Methods)
              \cup Permutations(Workers) \cup Permutations(Resets)

\* An order stays raced for ever, and no action reads its reason or what was told: of a
\* raced order neither is looked at any more.
UnlessRaced(f, none) == [o \in Orders |-> IF o \in both THEN none ELSE f[o]]
ButRaced ==
    <<part, vars, session, method, req, both, mixed,
      IF part = "reset" THEN None
      ELSE <<UnlessRaced(told, {}), UnlessRaced([o \in Orders |-> bill[o].reason], None),
             [o \in Orders |-> <<bill[o].status, bill[o].licensed>>]>> >>

-----------------------------------------------------------------------------
\* A customer is told the reason for which his order was rejected.
ToldIsOnRecord == part = "dialogs" => D!ToldIsOnRecord

\* A wizard of the bot makes one payment method.
OneMethodPerWizard == part = "dialogs" => D!OneMethodPerWizard

\* A rejection keeps its reason.
RejectionStands == [][part = "dialogs" => D!KeepsReason]_allVars
=============================================================================
