------------------------------ MODULE PlanSales ------------------------------
(***************************************************************************)
(* What a plan costs, who changes it, and what a customer is told to pay.  *)
(* Administrators edit prices and availability in tabs of the panel whose  *)
(* page may be out of date; a customer presses buttons that were shown     *)
(* under older prices; an order keeps the amount it was created with, and  *)
(* a pending order is found again for the same offer.                      *)
(*                                                                         *)
(* One plan stands for all: they share no rows.  Sessions, cancelling and  *)
(* receipts are in BotChats and Payments.                                  *)
(***************************************************************************)
EXTENDS Integers, FiniteSets

CONSTANTS
    Periods,    \* the billing periods of the plan
    MaxAmount,  \* bound: the amounts somebody types
    Filled,     \* bound: the periods a form may fill, the others are blank
    Tabs,       \* bound: the tabs of administrators with the page of plans
    Sales,      \* bound: the Order rows
    Customers,  \* bound: the updates in progress for the customer
    MaxBusy,    \* bound: the calls and updates in progress at one time
    None        \* "no value"

\* What the constants are taken to be.
PlanSalesAssumption ==
    /\ MaxAmount \in Nat
    /\ None \notin Periods \cup Sales

VARIABLES
    plan,   \* the Plan row: missing, or its isActive
    price,  \* PlanPrice rows: the amount, 0 for no row
    call,   \* the call of a tab in progress
    sale,   \* Order rows
    job,    \* the customer's updates in progress
    told,   \* history: the amount the customer was last told for an order
    had,    \* history: the prices the offer of an order has had since the
            \* requests that created or found it began
    unsold, \* history: orders whose plan was not for sale all along that request
    crossed \* history: orders that a request took for the one it had made

vars == <<plan, price, call, sale, job, told, had, unsold, crossed>>

Amounts == 1..MaxAmount
PlanRow == {"missing", "off", "on"}
PriceRows == [Periods -> 0..MaxAmount]
Priced(row) == {p \in Periods : row[p] > 0}
Forms == {form \in PriceRows : Priced(form) \in Filled}
NoCall == [pc |-> "idle", on |-> "keep", price |-> None, rows |-> {}]
NoSale == [status |-> "none", period |-> None, amount |-> 0]
Idle == [pc |-> "idle", period |-> None, quote |-> 0, amount |-> 0, sale |-> None,
         had |-> {}, on |-> FALSE]

SaleRows == [status : {"none", "PENDING", "AWAITING", "REVIEW", "over"},
             period : Periods \cup {None}, amount : 0..MaxAmount]

SalesTypeOK ==
    /\ plan \in PlanRow
    /\ price \in PriceRows
    /\ \A t \in Tabs :
          /\ call[t].pc \in {"idle", "tx"}
    /\ \A s \in Sales : sale[s] \in SaleRows
    /\ \A c \in Customers :
          job[c].pc \in {"idle", "quote", "cancel", "find", "available", "price",
                         "create", "reset", "tell", "attach"}
    /\ told \in [Sales -> 0..MaxAmount]
    /\ had \in [Sales -> SUBSET Amounts]
    /\ unsold \subseteq Sales
    /\ crossed \subseteq Sales

SalesInit ==
    /\ \/ plan = "missing" /\ price = [p \in Periods |-> 0]
       \/ plan \in {"off", "on"} /\ price \in [Periods -> {0, 1}]
    /\ call = [t \in Tabs |-> NoCall]
    /\ sale = [s \in Sales |-> NoSale]
    /\ job = [c \in Customers |-> Idle]
    /\ told = [s \in Sales |-> 0]
    /\ had = [s \in Sales |-> {}]
    /\ unsold = {}
    /\ crossed = {}

-----------------------------------------------------------------------------
\* A definition whose comment begins with "Mutant:" is a wrong version of the
\* definition that follows it.  Nothing uses it: it stands for a bug the
\* properties must notice.

\* isPlanPeriodAvailableForPurchase, isPlanAvailableForPurchase
Available(periods) == plan = "on" /\ \E p \in periods : price[p] > 0

\* The histories of the orders, and of the requests that have none yet, follow plan
\* and price.
Witness(jobs) ==
    [c \in Customers |->
       IF jobs[c].pc = "idle" \/ jobs[c].sale # None THEN jobs[c]
       ELSE [jobs[c] EXCEPT !.had = @ \cup ({price'[jobs[c].period]} \ {0}),
                            !.on = @ \/ plan' = "on"]]
WitnessSales ==
    had' = [s \in Sales |-> IF sale[s].status \in {"none", "over"} THEN had[s]
                            ELSE had[s] \cup ({price'[sale[s].period]} \ {0})]

Room == Cardinality({t \in Tabs : call[t].pc # "idle"})
          + Cardinality({c \in Customers : job[c].pc # "idle"}) < MaxBusy

CallStep(t, c) == call' = [call EXCEPT ![t] = c]
AdminKeeps == UNCHANGED <<sale, told, unsold, crossed>> /\ job' = Witness(job) /\ WitnessSales

-----------------------------------------------------------------------------
\* A tab sends a form of PlansPage: it was filled with the prices the page has
\* shown, some were changed, or left blank, which is 0.  The page may be as old
\* as it likes, so that the form holds anything.  updatePlan reads the plan and
\* the price rows it has of the periods that are filled,
SavePrices(t, form) ==
    /\ call[t].pc = "idle" /\ plan # "missing" /\ Room
    /\ CallStep(t, [NoCall EXCEPT !.pc = "tx", !.price = form,
                                  !.rows = Priced(form) \cap Priced(price)])
    /\ UNCHANGED <<plan, price, sale, job, told, had, unsold, crossed>>

\* and so it does when the button sends the opposite of the availability shown,
Toggle(t, on) ==
    /\ call[t].pc = "idle" /\ plan # "missing" /\ Room
    /\ CallStep(t, [NoCall EXCEPT !.pc = "tx", !.on = on])
    /\ UNCHANGED <<plan, price, sale, job, told, had, unsold, crossed>>

Sent(t) == IF call[t].price = None THEN {} ELSE Priced(call[t].price)

NewAvailability(t) == IF call[t].on = "keep" THEN plan ELSE call[t].on

\* and one transaction updates the rows it has read and creates the others.
\* The unique index refuses a row that was created meanwhile, and all with it.
WritePlan(t) ==
    /\ call[t].pc = "tx"
    /\ IF \E p \in Sent(t) \ call[t].rows : price[p] > 0
       THEN UNCHANGED <<plan, price>> /\ CallStep(t, NoCall)
       ELSE /\ plan' = NewAvailability(t)
            /\ price' = [p \in Periods |-> IF p \in Sent(t) THEN call[t].price[p]
                                           ELSE price[p]]
            /\ CallStep(t, NoCall)
    /\ AdminKeeps

\* The server fails before the transaction.
LoseCall(t) ==
    /\ call[t].pc # "idle"
    /\ CallStep(t, NoCall)
    /\ UNCHANGED <<plan, price, sale, job, told, had, unsold, crossed>>

\* restoreCanonical: bootstrapMissingCanonicalPlans creates the plan if it is
\* missing, with the availability of the catalog, and no price.
Bootstrap ==
    /\ plan' \in IF plan = "missing" THEN {"on", "off"} ELSE {plan}
    /\ UNCHANGED <<price, call>>
    /\ AdminKeeps

-----------------------------------------------------------------------------
\* The customer presses a duration, maybe under an old price.
Work(c, j) == job' = Witness([job EXCEPT ![c] = j])
Goto(c, stage) == Work(c, [job[c] EXCEPT !.pc = stage])
At(c, stage) == job[c].pc = stage
ShopKeeps == UNCHANGED <<plan, price, call>>
Pending(s) == sale[s].status \in {"PENDING", "AWAITING"}

\* The update has its order.
Take(c, s) == Work(c, [Idle EXCEPT !.pc = "reset", !.quote = job[c].quote, !.sale = s])

PressDuration(c, p) ==
    /\ At(c, "idle") /\ Room
    /\ Available({p})
    /\ ShopKeeps /\ UNCHANGED <<sale, told, had, unsold, crossed>>
    /\ Work(c, [Idle EXCEPT !.pc = "quote", !.period = p])

\* startOrderFlow reads the price that the summary will show.
ReadQuote(c) ==
    /\ At(c, "quote")
    /\ ShopKeeps /\ UNCHANGED <<sale, told, had, unsold, crossed>>
    /\ IF Available({job[c].period})
       THEN Work(c, [job[c] EXCEPT !.pc = "cancel", !.quote = price[job[c].period]])
       ELSE Work(c, Idle)

\* cancelStalePendingPurchases
CancelOthers(c) ==
    /\ At(c, "cancel")
    /\ sale' = [s \in Sales |-> IF Pending(s) /\ sale[s].period # job[c].period
                                THEN [sale[s] EXCEPT !.status = "over"] ELSE sale[s]]
    /\ ShopKeeps /\ UNCHANGED <<told, had, unsold, crossed>>
    /\ Goto(c, "find")

\* findOrCreatePendingOrder finds an order of the same offer, with its amount,
FindPending(c) ==
    LET same == {s \in Sales : Pending(s) /\ sale[s].period = job[c].period} IN
    /\ At(c, "find")
    /\ ShopKeeps /\ UNCHANGED <<sale, told, unsold, crossed>>
    /\ IF same = {} THEN Goto(c, "available") /\ UNCHANGED had
       ELSE \E s \in same : Take(c, s) /\ had' = [had EXCEPT ![s] = @ \cup job[c].had]

\* or asks whether the plan is for sale at all,
CheckAvailable(c) ==
    /\ At(c, "available")
    /\ ShopKeeps /\ UNCHANGED <<sale, told, had, unsold, crossed>>
    /\ IF Available(Periods) THEN Goto(c, "price") ELSE Work(c, Idle)

\* Mutant: getPlanPrice takes the first price of the plan.
AnyPriceOf(p) == {price[q] : q \in Periods} \ {0}

PriceOf(p) == {price[p]} \ {0}

\* reads the price again, whether the plan is for sale or not,
ReadPrice(c) ==
    /\ At(c, "price")
    /\ ShopKeeps /\ UNCHANGED <<sale, told, had, unsold, crossed>>
    /\ \/ \E a \in PriceOf(job[c].period) :
              Work(c, [job[c] EXCEPT !.pc = "create", !.amount = a])
       \/ PriceOf(job[c].period) = {} /\ Work(c, Idle)

\* and creates the order with it.
CreateSale(c, s) ==
    /\ At(c, "create") /\ sale[s].status = "none"
    /\ sale' = [sale EXCEPT ![s] = [status |-> "PENDING", period |-> job[c].period,
                                    amount |-> job[c].amount]]
    /\ had' = [had EXCEPT ![s] = job[c].had]
    /\ unsold' = IF job[c].on THEN unsold ELSE unsold \cup {s}
    /\ ShopKeeps /\ UNCHANGED <<told, crossed>>
    /\ Take(c, s)

\* startPaymentFlow resets the order it found or created.
ResetSale(c) ==
    /\ At(c, "reset")
    /\ sale' = [sale EXCEPT ![job[c].sale].status = IF @ = "AWAITING" THEN "PENDING" ELSE @]
    /\ ShopKeeps /\ UNCHANGED <<told, had, unsold, crossed>>
    /\ Goto(c, "tell")

\* The summary tells the price that was read first.  Without payment methods
\* the customer's current order awaits the receipt at once, and the same price
\* is told once more: it is another order when a second update has made one
\* meanwhile.
TellSummary(c) ==
    /\ At(c, "tell")
    /\ \/ /\ told' = [told EXCEPT ![job[c].sale] = job[c].quote]
          /\ UNCHANGED <<sale, crossed>>
       \/ \E s \in Sales :
             /\ Pending(s)
             /\ sale' = [sale EXCEPT ![s].status = "AWAITING"]
             /\ told' = [told EXCEPT ![s] = job[c].quote]
             /\ crossed' = crossed \cup ({s} \ {job[c].sale})
    /\ ShopKeeps /\ UNCHANGED <<had, unsold>>
    /\ Work(c, Idle)

\* A payment method is chosen for the current order,
ChooseMethod(c, s) ==
    /\ At(c, "idle") /\ Room
    /\ Pending(s)
    /\ ShopKeeps /\ UNCHANGED <<sale, told, had, unsold, crossed>>
    /\ Work(c, [Idle EXCEPT !.pc = "attach", !.sale = s, !.amount = sale[s].amount])

\* which awaits the receipt; the instructions tell its own amount.
AttachMethod(c) ==
    /\ At(c, "attach")
    /\ sale' = [sale EXCEPT ![job[c].sale].status = IF @ = "PENDING" THEN "AWAITING" ELSE @]
    /\ told' = [told EXCEPT ![job[c].sale] = job[c].amount]
    /\ ShopKeeps /\ UNCHANGED <<had, unsold, crossed>>
    /\ Work(c, Idle)

\* A call fails, or the invocation is ended.
Abandon(c) ==
    /\ ~At(c, "idle")
    /\ ShopKeeps /\ UNCHANGED <<sale, told, had, unsold, crossed>>
    /\ Work(c, Idle)

\* The receipt arrives and administrators are shown the amount of the order;
\* it is decided, or cancelled before.
SubmitReceipt(s) ==
    /\ sale[s].status = "AWAITING"
    /\ sale' = [sale EXCEPT ![s].status = "REVIEW"]
    /\ ShopKeeps /\ UNCHANGED <<job, told, had, unsold, crossed>>

EndSale(s) ==
    /\ sale[s].status \in {"PENDING", "AWAITING", "REVIEW"}
    /\ sale' = [sale EXCEPT ![s].status = "over"]
    /\ ShopKeeps /\ UNCHANGED <<job, told, had, unsold, crossed>>

SalesNext ==
    \/ \E t \in Tabs, form \in Forms : SavePrices(t, form)
    \/ \E t \in Tabs, on \in {"on", "off"} : Toggle(t, on)
    \/ \E t \in Tabs : WritePlan(t) \/ LoseCall(t)
    \/ Bootstrap
    \/ \E c \in Customers, p \in Periods : PressDuration(c, p)
    \/ \E c \in Customers : ReadQuote(c) \/ CancelOthers(c) \/ FindPending(c)
    \/ \E c \in Customers : CheckAvailable(c) \/ ReadPrice(c) \/ ResetSale(c)
    \/ \E c \in Customers : TellSummary(c) \/ AttachMethod(c) \/ Abandon(c)
    \/ \E c \in Customers, s \in Sales : CreateSale(c, s) \/ ChooseMethod(c, s)
    \/ \E s \in Sales : SubmitReceipt(s) \/ EndSale(s)

-----------------------------------------------------------------------------
\* Safety.

\* The amount of an order was the price of its offer while the request that
\* created it ran, and the plan was for sale in that time.
OrderIsAnOffer == \A s \in Sales : sale[s].status # "none" => sale[s].amount \in had[s] /\ s \notin unsold

\* A customer is told another amount than the order has only when the price was
\* changed since he asked for the order or found it again: a pending order that is
\* found keeps its amount.  Two updates that make orders at one time may tell the
\* amount of one for the other.
ToldIsCharged ==
    \A s \in Sales \ crossed : told[s] # 0 /\ told[s] # sale[s].amount =>
        {told[s], sale[s].amount} \subseteq had[s]

OfferIsKept == OrderIsAnOffer /\ ToldIsCharged

=============================================================================
