------------------------------- MODULE MCShop -------------------------------
(***************************************************************************)
(* The payment of orders, and what plans cost, share no state: the initial *)
(* state chooses which of the two runs, and the variables of the other     *)
(* keep an initial value.                                                  *)
(***************************************************************************)
EXTENDS Payments, TLC

CONSTANTS MaxAmount, Filled, Sales, Customers, MaxBusy

VARIABLES part, plan, price, call, sale, job, told, had, unsold, crossed

P == INSTANCE PlanSales WITH Periods <- Offers, Tabs <- Workers

ASSUME SalesAssumption == P!PlanSalesAssumption

salesVars == <<plan, price, call, sale, job, told, had, unsold, crossed>>
allVars == <<part, vars, salesVars>>

ShopInit ==
    /\ Init /\ P!SalesInit
    /\ \/ part = "payments" /\ plan = "missing"
       \/ part = "sales"

ShopNext ==
    /\ UNCHANGED part
    /\ \/ part = "payments" /\ Next /\ UNCHANGED salesVars
       \/ part = "sales" /\ P!SalesNext /\ UNCHANGED vars

Shop == ShopInit /\ [][ShopNext]_allVars

Symmetry == Permutations(Orders) \cup Permutations(Workers)
              \cup Permutations(Customers)

-----------------------------------------------------------------------------
\* An order is charged what its offer cost, and the customer is told so.
OfferIsKept == P!OfferIsKept

=============================================================================
