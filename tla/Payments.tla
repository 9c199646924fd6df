------------------------------ MODULE Payments ------------------------------
(***************************************************************************)
(* Orders, receipts, the approval of payments and the issue of licenses.   *)
(*                                                                         *)
(* The database tables Order, Receipt, License and NotificationOutbox are  *)
(* shared by requests that run in separate serverless invocations.  A      *)
(* request takes one action per database call it awaits, so other requests *)
(* interleave between any two of its calls, and what a request has read is *)
(* kept in its record req[w] and may be stale when it is used.  A          *)
(* prisma.$transaction whose statements do not depend on a read of its own *)
(* is one action.  A request may also stop between two calls (a killed     *)
(* function, a lost connection): Crash.                                    *)
(***************************************************************************)
CONSTANTS
    Users,      \* the customers
    Offers,     \* what can be bought: a plan with a billing period
    Orders,     \* bound: the ids of Order rows that may be created
    Updates,    \* bound: the Telegram updates that carry a receipt file
    Keys,       \* bound: the license keys that may be generated
    Workers,    \* bound: the requests in progress at one time
    None        \* SQL NULL, "no value"

ASSUME NoneAssumption == None \notin Orders \cup Updates \cup Keys

VARIABLES
    order,      \* Order rows: status, userId and plan + billingPeriod
    awaiting,   \* the orders whose column awaitingReceipt is true
    claimed,    \* TelegramProcessedUpdate rows
    receipt,    \* Receipt rows by telegramUpdateId: their order and status
    licenses,   \* License rows: orderId and the key (keyHash)
    outbox,     \* NotificationOutbox rows of type telegram_license_key
    delivered,  \* the keys Telegram has accepted for the customer
    req         \* the requests in progress

db == <<order, awaiting, claimed, receipt, licenses, outbox, delivered>>
vars == <<order, awaiting, claimed, receipt, licenses, outbox, delivered, req>>

OrderStatus == {"PENDING", "RECEIPT_SUBMITTED", "UNDER_REVIEW", "APPROVED",
                "COMPLETED", "REJECTED", "CANCELLED"}
ReceiptStatus == {"PENDING", "APPROVED", "REJECTED"}
Absent == [status |-> "ABSENT", user |-> None, offer |-> None]
NoReceipt == [status |-> "ABSENT", order |-> None]

\* Where a request is: the call it makes next.
Stages == {"idle", "find", "create", "reset", "current", "attach",
           "lookup", "submit", "issue", "license", "complete", "deliver",
           "reject"}
Begun(stage, u, f, o, upd) ==
    [pc |-> stage, user |-> u, offer |-> f, order |-> o, upd |-> upd,
     key |-> None]
Idle == Begun("idle", None, None, None, None)

OrderRows == [status : OrderStatus \cup {"ABSENT"}, user : Users \cup {None},
              offer : Offers \cup {None}]
ReceiptRows == [status : ReceiptStatus \cup {"ABSENT"},
                order : Orders \cup {None}]
LicenseRows == [order : Orders, key : Keys]
Requests == [pc : Stages, user : Users \cup {None}, offer : Offers \cup {None},
             order : Orders \cup {None}, upd : Updates \cup {None},
             key : Keys \cup {None}]

TypeOK ==
    /\ order \in [Orders -> OrderRows]
    /\ awaiting \subseteq Orders
    /\ claimed \subseteq Updates
    /\ receipt \in [Updates -> ReceiptRows]
    /\ licenses \subseteq LicenseRows
    /\ outbox \subseteq LicenseRows
    /\ delivered \subseteq Keys
    /\ req \in [Workers -> Requests]

Init ==
    /\ order = [o \in Orders |-> Absent]
    /\ awaiting = {}
    /\ claimed = {}
    /\ receipt = [u \in Updates |-> NoReceipt]
    /\ licenses = {}
    /\ outbox = {}
    /\ delivered = {}
    /\ req = [w \in Workers |-> Idle]

-----------------------------------------------------------------------------
\* Queries over the tables.
\*
\* A definition whose comment begins with "Mutant:" is a wrong version of the
\* definition that follows it.  Nothing uses it: it stands for a bug the
\* properties must notice.

Pending(o, u) == order[o].status = "PENDING" /\ order[o].user = u
HasReceipt(o) == \E u \in Updates : receipt[u].order = o
HasLicense(o) == \E l \in licenses : l.order = o
Decided == {"COMPLETED", "APPROVED"}
Reviewable == {"UNDER_REVIEW", "RECEIPT_SUBMITTED"}

\* An id or key the client generates: held by no row and by no request.
FreshOrder(o) == order[o] = Absent /\ \A w \in Workers : req[w].order # o
FreshKey(k) == /\ \A l \in licenses : l.key # k
               /\ \A w \in Workers : req[w].key # k

\* Mutant: the status and the receipt are not looked at.
MayApproveAny(o) == ~HasLicense(o) /\ order[o].status # "ABSENT"

\* PaymentApprovalService.approve and reject, before they change anything.
MayApprove(o) == /\ ~HasLicense(o)
                 /\ order[o].status \in Reviewable
                 /\ HasReceipt(o)
MayReject(o) == order[o].status \notin Decided \cup {"REJECTED", "ABSENT"}

\* The unique index on License.orderId, at the time of the insert.
OrderIdFree(o) == ~HasLicense(o)

SetStatus(o, s) == order' = [order EXCEPT ![o].status = s]
Goto(w, stage) == req' = [req EXCEPT ![w].pc = stage]
TakeOrder(w, stage, o) ==
    req' = [req EXCEPT ![w] = [@ EXCEPT !.pc = stage, !.order = o]]
Finish(w) == req' = [req EXCEPT ![w] = Idle]
At(w, stage) == req[w].pc = stage
NewLicense(w) == [order |-> req[w].order, key |-> req[w].key]

-----------------------------------------------------------------------------
\* The customer chooses a plan and a period in the bot.  The first call
\* cancels the customer's other pending orders that have no receipt.
StartPayment(w, u, f) ==
    /\ At(w, "idle")
    /\ LET stale == {o \in Orders : /\ Pending(o, u)
                                    /\ ~HasReceipt(o)
                                    /\ order[o].offer # f}
       IN /\ order' = [o \in Orders |->
                         IF o \in stale
                         THEN [order[o] EXCEPT !.status = "CANCELLED"]
                         ELSE order[o]]
          /\ awaiting' = awaiting \ stale
    /\ req' = [req EXCEPT ![w] = Begun("find", u, f, None, None)]
    /\ UNCHANGED <<claimed, receipt, licenses, outbox, delivered>>

\* A pending order of the same plan and period is reused.
ReusePending(w) ==
    /\ At(w, "find")
    /\ \E o \in Orders :
         /\ Pending(o, req[w].user)
         /\ order[o].offer = req[w].offer
         /\ TakeOrder(w, "reset", o)
    /\ UNCHANGED db

\* There is none: a new one is created, unless the plan is not for sale.
NoPendingFound(w) ==
    /\ At(w, "find")
    /\ \A o \in Orders : Pending(o, req[w].user)
                            => order[o].offer # req[w].offer
    /\ \/ \E o \in Orders :
            /\ FreshOrder(o)
            /\ TakeOrder(w, "create", o)
       \/ Finish(w)
    /\ UNCHANGED db

CreateOrder(w) ==
    /\ At(w, "create")
    /\ order' = [order EXCEPT ![req[w].order] =
                   [status |-> "PENDING", user |-> req[w].user,
                    offer |-> req[w].offer]]
    /\ Goto(w, "reset")
    /\ UNCHANGED <<awaiting, claimed, receipt, licenses, outbox, delivered>>

\* The payment method is cleared, whatever the order's status is by now.
\* When the shop has no payment method the bot goes on to attach the
\* configured card itself.
ResetOrder(w) ==
    /\ At(w, "reset")
    /\ awaiting' = awaiting \ {req[w].order}
    /\ \/ Finish(w)
       \/ Goto(w, "current")
    /\ UNCHANGED <<order, claimed, receipt, licenses, outbox, delivered>>

\* The customer presses a payment method.
ChooseMethod(w, u) ==
    /\ At(w, "idle")
    /\ req' = [req EXCEPT ![w] = Begun("current", u, None, None, None)]
    /\ UNCHANGED db

\* Timestamps are not modelled: of several pending orders any may be the one
\* updated last.
ReadCurrentOrder(w) ==
    /\ At(w, "current")
    /\ \/ \E o \in Orders : /\ Pending(o, req[w].user)
                            /\ TakeOrder(w, "attach", o)
       \/ /\ \A o \in Orders : ~Pending(o, req[w].user)
          /\ Finish(w)
    /\ UNCHANGED db

\* The row is addressed by its id alone: its status is not looked at again.
AttachMethod(w) ==
    /\ At(w, "attach")
    /\ awaiting' = awaiting \cup {req[w].order}
    /\ Finish(w)
    /\ UNCHANGED <<order, claimed, receipt, licenses, outbox, delivered>>

CancelOrder(o) ==
    /\ order[o].status = "PENDING"
    /\ SetStatus(o, "CANCELLED")
    /\ awaiting' = awaiting \ {o}
    /\ UNCHANGED <<claimed, receipt, licenses, outbox, delivered, req>>

\* A photo or document arrives.  The webhook first claims the update id, so a
\* redelivered update is dropped here even if its first delivery crashed.
UploadReceipt(w, u, upd) ==
    /\ At(w, "idle")
    /\ upd \notin claimed
    /\ claimed' = claimed \cup {upd}
    /\ req' = [req EXCEPT ![w] = Begun("lookup", u, None, None, upd)]
    /\ UNCHANGED <<order, awaiting, receipt, licenses, outbox, delivered>>

LookupAwaiting(w) ==
    /\ At(w, "lookup")
    /\ \/ \E o \in awaiting : /\ Pending(o, req[w].user)
                              /\ TakeOrder(w, "submit", o)
       \/ /\ \A o \in awaiting : ~Pending(o, req[w].user)
          /\ Finish(w)
    /\ UNCHANGED db

\* One transaction; the order read before it is not read again.
SubmitReceipt(w) ==
    /\ At(w, "submit")
    /\ receipt' = [receipt EXCEPT ![req[w].upd] =
                     [status |-> "PENDING", order |-> req[w].order]]
    /\ SetStatus(req[w].order, "UNDER_REVIEW")
    /\ awaiting' = awaiting \ {req[w].order}
    /\ Finish(w)
    /\ UNCHANGED <<claimed, licenses, outbox, delivered>>

-----------------------------------------------------------------------------
\* An administrator approves, in the panel or in the bot.  An order that has a
\* license already is answered without any change.
BeginApprove(w, o) ==
    /\ At(w, "idle")
    /\ MayApprove(o)
    /\ req' = [req EXCEPT ![w] = Begun("issue", None, None, o, None)]
    /\ UNCHANGED db

\* LicenseIssuanceService looks again, then generates a key.
CheckIssued(w) ==
    /\ At(w, "issue")
    /\ \/ /\ HasLicense(req[w].order)
          /\ Finish(w)
       \/ /\ ~HasLicense(req[w].order)
          /\ \E k \in Keys : /\ FreshKey(k)
                             /\ req' = [req EXCEPT ![w] = [@ EXCEPT !.pc = "license",
                                                           !.key = k]]
    /\ UNCHANGED db

\* The issuing transaction, serialised by the unique index on orderId.  The
\* loser's transaction is aborted by PostgreSQL and its request fails.
CreateLicense(w) ==
    /\ At(w, "license")
    /\ \/ /\ OrderIdFree(req[w].order)
          /\ licenses' = licenses \cup
                           {NewLicense(w)}
          /\ Goto(w, "complete")
       \/ /\ ~OrderIdFree(req[w].order)
          /\ Finish(w)
          /\ UNCHANGED licenses
    /\ UNCHANGED <<order, awaiting, claimed, receipt, outbox, delivered>>

\* Mutant: the key is only kept once Telegram has accepted it.
CompleteWithoutKeeping(w) ==
    /\ At(w, "complete")
    /\ SetStatus(req[w].order, "COMPLETED")
    /\ Goto(w, "deliver")
    /\ UNCHANGED <<awaiting, claimed, receipt, licenses, outbox, delivered>>

\* Mutant: an order that was rejected meanwhile is left alone.
CompleteIfReviewable(w) ==
    /\ At(w, "complete")
    /\ IF order[req[w].order].status \in Reviewable
       THEN /\ SetStatus(req[w].order, "COMPLETED")
            /\ outbox' = outbox \cup {NewLicense(w)}
       ELSE UNCHANGED <<order, outbox>>
    /\ Goto(w, "deliver")
    /\ UNCHANGED <<awaiting, claimed, receipt, licenses, delivered>>

\* A second transaction closes the order and keeps the key for later display.
CompleteOrder(w) ==
    /\ At(w, "complete")
    /\ SetStatus(req[w].order, "COMPLETED")
    /\ receipt' = [u \in Updates |->
                     IF /\ receipt[u].order = req[w].order
                        /\ receipt[u].status = "PENDING"
                     THEN [receipt[u] EXCEPT !.status = "APPROVED"]
                     ELSE receipt[u]]
    /\ outbox' = outbox \cup {NewLicense(w)}
    /\ Goto(w, "deliver")
    /\ UNCHANGED <<awaiting, claimed, licenses, delivered>>

\* The key is sent once; a failed call to Telegram is logged, not repeated.
DeliverKey(w) ==
    /\ At(w, "deliver")
    /\ \/ delivered' = delivered \cup {req[w].key}
       \/ UNCHANGED delivered
    /\ Finish(w)
    /\ UNCHANGED <<order, awaiting, claimed, receipt, licenses, outbox>>

BeginReject(w, o) ==
    /\ At(w, "idle")
    /\ MayReject(o)
    /\ req' = [req EXCEPT ![w] = Begun("reject", None, None, o, None)]
    /\ UNCHANGED db

RejectOrder(w) ==
    /\ At(w, "reject")
    /\ SetStatus(req[w].order, "REJECTED")
    /\ awaiting' = awaiting \ {req[w].order}
    /\ receipt' = [u \in Updates |->
                     IF receipt[u].order = req[w].order
                     THEN [receipt[u] EXCEPT !.status = "REJECTED"]
                     ELSE receipt[u]]
    /\ Finish(w)
    /\ UNCHANGED <<claimed, licenses, outbox, delivered>>

Crash(w) ==
    /\ ~At(w, "idle")
    /\ Finish(w)
    /\ UNCHANGED db

-----------------------------------------------------------------------------
\* A customer or an administrator begins a request.
Begin(w) ==
    \/ \E u \in Users, f \in Offers : StartPayment(w, u, f)
    \/ \E u \in Users : ChooseMethod(w, u)
    \/ \E u \in Users, upd \in Updates : UploadReceipt(w, u, upd)
    \/ \E o \in Orders : BeginApprove(w, o)
    \/ \E o \in Orders : BeginReject(w, o)

\* A request in progress makes its next call.
Continue(w) ==
    \/ ReusePending(w) \/ NoPendingFound(w) \/ CreateOrder(w) \/ ResetOrder(w)
    \/ ReadCurrentOrder(w) \/ AttachMethod(w)
    \/ LookupAwaiting(w) \/ SubmitReceipt(w)
    \/ CheckIssued(w) \/ CreateLicense(w) \/ CompleteOrder(w) \/ DeliverKey(w)
    \/ RejectOrder(w)

Step == \/ \E w \in Workers : Begin(w) \/ Continue(w)
        \/ \E o \in Orders : CancelOrder(o)

Next == Step \/ \E w \in Workers : Crash(w)

Spec == Init /\ [][Next]_vars

\* A request that is not killed runs on: the function's event loop serves
\* every awaited call.  Customers and administrators owe nothing.
FairSpec == Init /\ [][Step]_vars /\ \A w \in Workers : WF_vars(Continue(w))
-----------------------------------------------------------------------------
\* Safety.

\* An order never gets a second license, however many administrators approve
\* it at the same time, and no two orders share a key.
OneLicensePerOrder ==
    \A a, b \in licenses : a.order = b.order \/ a.key = b.key => a = b

\* A license is only ever issued for an order the customer has sent a receipt
\* for, and such an order is not left in a status that says otherwise.
LicenseNeedsReceipt ==
    \A l \in licenses :
        /\ HasReceipt(l.order)
        /\ order[l.order].status \notin {"ABSENT", "PENDING", "CANCELLED"}

\* A completed order has its license and the key is kept, so that a second
\* approval can answer with the key and "Order already completed without
\* license record" is never reached.
CompletedHasKey ==
    \A o \in Orders : order[o].status = "COMPLETED"
                          => \E l \in outbox \cap licenses : l.order = o

\* An order under review always has a receipt that is still to be decided, so
\* that the administrators' queue never holds an order with nothing to look at.
ReviewHasPendingReceipt ==
    \A o \in Orders : order[o].status = "UNDER_REVIEW"
        => \E u \in Updates : receipt[u] = [status |-> "PENDING", order |-> o]

\* What is kept for the customer is the key of the order's license, never the
\* key of a request that lost the race, and only committed keys are sent.
KeptKeysAreIssued ==
    /\ outbox \subseteq licenses
    /\ \A k \in delivered : \E l \in outbox : l.key = k

\* The payment flow implements the ledger.
Ledger == INSTANCE LicenseLedger WITH
            paid <- {o \in Orders : HasReceipt(o)},
            issued <- licenses,
            kept <- outbox,
            sent <- delivered

ImplementsLedger == Ledger!Spec

-----------------------------------------------------------------------------
\* Liveness, when no request is killed.

\* A license once issued has its key kept for the customer, whatever a
\* concurrent rejection does to the order.
IssuedKeyIsKept ==
    \A o \in Orders : HasLicense(o) ~> \E l \in outbox : l.order = o

-----------------------------------------------------------------------------
\* What the repository says of the flow and the code does not do.

\* payment-approval.service.ts: "Completed orders cannot be rejected".
CompletedNotRejected ==
    [][\A o \in Orders : order[o].status = "COMPLETED"
                            => order'[o].status # "REJECTED"]_vars
=============================================================================
