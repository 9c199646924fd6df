--------------------------- MODULE PaymentsProofs ---------------------------
(***************************************************************************)
(* The safety of Payments, for every number of customers, orders, keys and *)
(* requests: its invariants, and that it implements LicenseLedger.         *)
(***************************************************************************)
EXTENDS MCShop, Integers, FiniteSets, TLAPS

\* The stages of an approval after its first read.
Licensing == {"issue", "license", "complete", "deliver"}
Holding == {"create", "reset", "attach", "submit", "reject"} \cup Licensing

\* The statuses of an order that has never been under review.
Early == {"ABSENT", "PENDING", "CANCELLED"}

\* The order a request has read may have changed since, but never to what
\* would make the request's writes wrong.
OrderHeld(w) ==
    /\ req[w].pc \in Holding => req[w].order \in Orders
    /\ req[w].pc = "create" =>
          /\ order[req[w].order] = Absent
          /\ \A v \in Workers \ {w} : req[v].order # req[w].order
    /\ req[w].pc # "create" /\ req[w].order \in Orders =>
          order[req[w].order].status # "ABSENT"
    /\ req[w].pc \in Licensing =>
          /\ HasReceipt(req[w].order)
          /\ order[req[w].order].status \notin Early

OrdersHeld == \A w \in Workers : OrderHeld(w)

\* Each generated key is held by one request, up to the row it is stored in.
KeyHeld(w) ==
    /\ req[w].pc \in Licensing \ {"issue"} => req[w].key \in Keys
    /\ req[w].pc = "license" => \A l \in licenses : l.key # req[w].key
    /\ req[w].pc = "complete" => NewLicense(w) \in licenses
    /\ req[w].pc = "deliver" => NewLicense(w) \in outbox
    /\ \A v \in Workers : req[w].key = req[v].key /\ req[w].key \in Keys => v = w

KeysHeld == \A w \in Workers : KeyHeld(w)

\* Each claimed update is held by one request, and has no receipt until then.
UpdateHeld(w) ==
    /\ req[w].pc \in {"lookup", "submit"} => req[w].upd \in Updates
    /\ req[w].upd \in Updates =>
          /\ req[w].upd \in claimed
          /\ receipt[req[w].upd] = NoReceipt
          /\ \A v \in Workers : req[v].upd = req[w].upd => v = w

UpdatesHeld ==
    /\ \A u \in Updates : u \notin claimed => receipt[u] = NoReceipt
    /\ \A w \in Workers : UpdateHeld(w)

IInv ==
    /\ TypeOK
    /\ OrdersHeld
    /\ KeysHeld
    /\ UpdatesHeld
    /\ OneLicensePerOrder
    /\ LicenseNeedsReceipt
    /\ CompletedHasKey
    /\ ReviewHasPendingReceipt
    /\ KeptKeysAreIssued

-----------------------------------------------------------------------------
\* How a request's record and an order's status change keeps their types.
LEMMA RequestTypes ==
    ASSUME req \in [Workers -> Requests], NEW w \in Workers
    PROVE  /\ Finish(w) => req' \in [Workers -> Requests]
           /\ \A s \in Stages : Goto(w, s) => req' \in [Workers -> Requests]
           /\ \A s \in Stages, o \in Orders :
                 TakeOrder(w, s, o) => req' \in [Workers -> Requests]
           /\ \A k \in Keys :
                 [req[w] EXCEPT !.pc = "license", !.key = k] \in Requests
           /\ \A s \in Stages, u \in Users \cup {None}, f \in Offers \cup {None},
                 o \in Orders \cup {None}, upd \in Updates \cup {None} :
                 Begun(s, u, f, o, upd) \in Requests
<1>1. Idle \in Requests
  BY DEF Idle, Begun, Requests, Stages
<1>2. ASSUME NEW s \in Stages, Goto(w, s)
      PROVE  req' \in [Workers -> Requests]
  BY <1>2 DEF Goto, Requests
<1>3. ASSUME NEW s \in Stages, NEW o \in Orders, TakeOrder(w, s, o)
      PROVE  req' \in [Workers -> Requests]
  BY <1>3 DEF TakeOrder, Requests
<1>4. ASSUME NEW k \in Keys
      PROVE  [req[w] EXCEPT !.pc = "license", !.key = k] \in Requests
  BY DEF Requests, Stages
<1>5. ASSUME NEW s \in Stages, NEW u \in Users \cup {None},
             NEW f \in Offers \cup {None}, NEW o \in Orders \cup {None},
             NEW upd \in Updates \cup {None}
      PROVE  Begun(s, u, f, o, upd) \in Requests
  BY DEF Begun, Requests
<1> QED
  BY <1>1, <1>2, <1>3, <1>4, <1>5 DEF Finish

LEMMA RowTypes ==
    ASSUME order \in [Orders -> OrderRows], receipt \in [Updates -> ReceiptRows]
    PROVE  /\ \A o \in Orders, s \in OrderStatus :
                 SetStatus(o, s) => order' \in [Orders -> OrderRows]
           /\ \A o \in Orders : [order[o] EXCEPT !.status = "CANCELLED"] \in OrderRows
           /\ \A u \in Updates, s \in ReceiptStatus :
                 [receipt[u] EXCEPT !.status = s] \in ReceiptRows
BY DEF SetStatus, OrderRows, OrderStatus, ReceiptRows

\* The types of the variables hold initially and are preserved by every step.
LEMMA TypeStep == IInv /\ [Next]_vars => TypeOK'
<1> SUFFICES ASSUME IInv, [Next]_vars PROVE TypeOK'
  OBVIOUS
<1>s. /\ {"idle", "find", "create", "reset", "current", "attach", "lookup",
          "submit", "issue", "license", "complete", "deliver", "reject"}
           \subseteq Stages
      /\ {"CANCELLED", "UNDER_REVIEW", "COMPLETED", "REJECTED"}
           \subseteq OrderStatus
      /\ {"PENDING", "APPROVED", "REJECTED"} \subseteq ReceiptStatus
  BY DEF Stages, OrderStatus, ReceiptStatus
<1> USE RequestTypes, RowTypes, <1>s DEF IInv, TypeOK, At, db
<1>1. ASSUME NEW w \in Workers, Begin(w)
      PROVE  TypeOK'
  <2>1. ASSUME NEW u \in Users, NEW f \in Offers, StartPayment(w, u, f)
        PROVE  TypeOK'
    BY <2>1 DEF StartPayment
  <2>2. ASSUME NEW u \in Users, ChooseMethod(w, u)
        PROVE  TypeOK'
    BY <2>2 DEF ChooseMethod
  <2>3. ASSUME NEW u \in Users, NEW upd \in Updates, UploadReceipt(w, u, upd)
        PROVE  TypeOK'
    <3>1. Begun("lookup", u, None, None, upd) \in Requests
      OBVIOUS
    <3> QED
      BY <2>3, <3>1 DEF UploadReceipt
  <2>4. ASSUME NEW o \in Orders, BeginApprove(w, o) \/ BeginReject(w, o)
        PROVE  TypeOK'
    <3>1. /\ Begun("issue", None, None, o, None) \in Requests
          /\ Begun("reject", None, None, o, None) \in Requests
      OBVIOUS
    <3> QED
      BY <2>4, <3>1 DEF BeginApprove, BeginReject
  <2> QED
    BY <1>1, <2>1, <2>2, <2>3, <2>4 DEF Begin
<1>2. ASSUME NEW w \in Workers, Continue(w)
      PROVE  TypeOK'
  <2>o. /\ req[w].pc \in Holding => req[w].order \in Orders
        /\ req[w].pc \in {"license", "complete", "deliver"} => req[w].key \in Keys
        /\ req[w].pc = "submit" => req[w].upd \in Updates
    BY DEF OrdersHeld, OrderHeld, KeysHeld, KeyHeld, UpdatesHeld, UpdateHeld, Licensing
  <2> USE <2>o DEF Holding, Licensing
  <2>1. CASE ReusePending(w) \/ NoPendingFound(w)
    BY <2>1 DEF ReusePending, NoPendingFound
  <2>2. CASE CreateOrder(w)
    <3>1. [status |-> "PENDING", user |-> req[w].user, offer |-> req[w].offer]
             \in OrderRows
      BY DEF Requests, OrderRows, OrderStatus
    <3> QED
      BY <2>2, <3>1 DEF CreateOrder
  <2>3. CASE ResetOrder(w) \/ ReadCurrentOrder(w)
    BY <2>3 DEF ResetOrder, ReadCurrentOrder
  <2>4. CASE AttachMethod(w)
    BY <2>4 DEF AttachMethod
  <2>5. CASE LookupAwaiting(w)
    BY <2>5 DEF LookupAwaiting
  <2>6. CASE SubmitReceipt(w)
    <3>1. [status |-> "PENDING", order |-> req[w].order] \in ReceiptRows
      BY <2>6 DEF SubmitReceipt, ReceiptRows
    <3> QED
      BY <2>6, <3>1 DEF SubmitReceipt
  <2>7. CASE CheckIssued(w)
    BY <2>7 DEF CheckIssued
  <2>8. CASE CreateLicense(w)
    <3>1. NewLicense(w) \in LicenseRows
      BY <2>8 DEF CreateLicense, NewLicense, LicenseRows
    <3> QED
      BY <2>8, <3>1 DEF CreateLicense
  <2>9. CASE CompleteOrder(w)
    <3>1. NewLicense(w) \in LicenseRows
      BY <2>9 DEF CompleteOrder, NewLicense, LicenseRows
    <3> QED
      BY <2>9, <3>1 DEF CompleteOrder
  <2>10. CASE DeliverKey(w)
    BY <2>10 DEF DeliverKey
  <2>11. CASE RejectOrder(w)
    BY <2>11 DEF RejectOrder
  <2> QED
    BY <1>2, <2>1, <2>2, <2>3, <2>4, <2>5, <2>6, <2>7, <2>8, <2>9, <2>10, <2>11
       DEF Continue
<1>3. ASSUME NEW w \in Workers, Crash(w)
      PROVE  TypeOK'
  BY <1>3 DEF Crash
<1>4. ASSUME NEW o \in Orders, CancelOrder(o)
      PROVE  TypeOK'
  BY <1>4 DEF CancelOrder
<1>5. CASE UNCHANGED vars
  BY <1>5 DEF vars
<1> QED
  BY <1>1, <1>2, <1>3, <1>4, <1>5 DEF Next, Step

-----------------------------------------------------------------------------
\* What no step undoes: rows are never deleted, an order that has been under
\* review does not go back, a receipt stays with its order; and only the
\* request that reserved an id creates the row.
Monotone ==
    /\ \A o \in Orders :
        /\ order[o].status # "ABSENT" => order'[o].status # "ABSENT"
        /\ order[o].status \notin Early => order'[o].status \notin Early
        /\ order'[o] = order[o] \/ order[o] # Absent
             \/ \E w \in Workers : CreateOrder(w) /\ req[w].order = o
    /\ \A u \in Updates : receipt[u].order \in Orders
                            => receipt'[u].order = receipt[u].order
    /\ claimed \subseteq claimed'
    /\ licenses \subseteq licenses'
    /\ outbox \subseteq outbox'

LEMMA MonotoneStep == IInv /\ [Next]_vars => Monotone
<1> SUFFICES ASSUME IInv, [Next]_vars PROVE Monotone
  OBVIOUS
<1> USE DEF IInv, TypeOK, OrderRows, ReceiptRows, Monotone, Early, Absent, At, db
<1>1. ASSUME NEW w \in Workers, Begin(w)
      PROVE  Monotone
  <2>1. ASSUME NEW u \in Users, NEW f \in Offers, StartPayment(w, u, f)
        PROVE  Monotone
    BY <2>1 DEF StartPayment, Pending
  <2> QED
    BY <1>1, <2>1 DEF Begin, ChooseMethod, UploadReceipt, BeginApprove, BeginReject
<1>2. ASSUME NEW w \in Workers, Continue(w)
      PROVE  Monotone
  <2>1. CASE CreateOrder(w)
    <3>1. /\ order[req[w].order] = Absent
          /\ req[w].order \in Orders
      BY <2>1 DEF CreateOrder, OrdersHeld, OrderHeld, Holding
    <3>2. ASSUME NEW o \in Orders
          PROVE  order'[o] = order[o] \/ req[w].order = o
      BY <2>1 DEF CreateOrder
    <3>3. ASSUME NEW o \in Orders
          PROVE  order[o].status # "ABSENT" => order'[o] = order[o]
      BY <3>1, <3>2
    <3>4. UNCHANGED <<claimed, receipt, licenses, outbox>>
      BY <2>1 DEF CreateOrder
    <3> QED
      BY <2>1, <3>2, <3>3, <3>4
  <2>2. CASE SubmitReceipt(w)
    <3>1. /\ req[w].order \in Orders
          /\ order[req[w].order].status # "ABSENT"
          /\ receipt[req[w].upd].order \notin Orders
      BY <2>2, NoneAssumption
         DEF SubmitReceipt, OrdersHeld, OrderHeld, Holding, UpdatesHeld, UpdateHeld, NoReceipt
    <3> QED
      BY <2>2, <3>1 DEF SubmitReceipt, SetStatus
  <2>3. CASE CreateLicense(w)
    BY <2>3 DEF CreateLicense
  <2>4. CASE CompleteOrder(w)
    BY <2>4 DEF CompleteOrder, SetStatus, OrdersHeld, OrderHeld, Holding, Licensing
  <2>5. CASE RejectOrder(w)
    BY <2>5 DEF RejectOrder, SetStatus, OrdersHeld, OrderHeld, Holding
  <2>6. CASE \/ ReusePending(w) \/ NoPendingFound(w) \/ ResetOrder(w)
             \/ ReadCurrentOrder(w) \/ AttachMethod(w) \/ LookupAwaiting(w)
             \/ CheckIssued(w) \/ DeliverKey(w)
    BY <2>6 DEF ReusePending, NoPendingFound, ResetOrder, ReadCurrentOrder,
                AttachMethod, LookupAwaiting, CheckIssued, DeliverKey
  <2> QED
    BY <1>2, <2>1, <2>2, <2>3, <2>4, <2>5, <2>6 DEF Continue
<1>3. ASSUME NEW w \in Workers, Crash(w)
      PROVE  Monotone
  BY <1>3 DEF Crash
<1>4. ASSUME NEW o \in Orders, CancelOrder(o)
      PROVE  Monotone
  BY <1>4 DEF CancelOrder, SetStatus
<1>5. CASE UNCHANGED vars
  BY <1>5 DEF vars
<1> QED
  BY <1>1, <1>2, <1>3, <1>4, <1>5 DEF Next, Step

-----------------------------------------------------------------------------
\* What a step of a request does to the requests: it leaves the others alone,
\* and a new order it holds is a reserved id or a row fit for what it does.
OrderMove(w) ==
    LET o == req'[w].order
    IN \/ o \notin Orders /\ req'[w].pc \notin Holding
       \/ o \in Orders /\ req'[w].pc = "create" /\ FreshOrder(o)
       \/ /\ o \in Orders
          /\ req'[w].pc # "create"
          /\ order'[o].status # "ABSENT"
          /\ order[o].status # "ABSENT" \/ o = req[w].order
          /\ req'[w].pc \in Licensing => HasReceipt(o) /\ order[o].status \notin Early

LEMMA RequestStep ==
    ASSUME IInv, Monotone, NEW w \in Workers,
           Begin(w) \/ Continue(w) \/ Crash(w)
    PROVE  /\ \A v \in Workers \ {w} : req'[v] = req[v]
           /\ OrderMove(w)
<1> USE NoneAssumption
    DEF IInv, TypeOK, At, db, OrderMove, Finish, Goto, TakeOrder, Idle, Begun,
        Holding, Licensing
<1>t. /\ req[w] = [pc |-> req[w].pc, user |-> req[w].user, offer |-> req[w].offer,
                   order |-> req[w].order, upd |-> req[w].upd, key |-> req[w].key]
      /\ req \in [Workers -> Requests]
  BY DEF Requests
<1>1. ASSUME Finish(w)
      PROVE  /\ \A v \in Workers \ {w} : req'[v] = req[v]
             /\ OrderMove(w)
  BY <1>1
<1>2. CASE Begin(w)
  BY <1>2 DEF Begin, StartPayment, ChooseMethod, UploadReceipt, BeginApprove,
              BeginReject, MayApprove, MayReject, Reviewable, Early
<1>3. CASE Continue(w)
  <2>1. CASE ReusePending(w) \/ NoPendingFound(w)
    <3>1. ASSUME NEW o \in Orders, Pending(o, req[w].user),
                 TakeOrder(w, "reset", o), order' = order
          PROVE  /\ \A v \in Workers \ {w} : req'[v] = req[v]
                 /\ OrderMove(w)
      BY <1>3, <3>1, <1>t DEF Pending
    <3>2. ASSUME NEW o \in Orders, FreshOrder(o), TakeOrder(w, "create", o)
          PROVE  /\ \A v \in Workers \ {w} : req'[v] = req[v]
                 /\ OrderMove(w)
      BY <3>2, <1>t
    <3> QED
      BY <2>1, <1>1, <3>1, <3>2 DEF ReusePending, NoPendingFound
  <2>2. CASE CreateOrder(w)
    BY <2>2 DEF CreateOrder, OrdersHeld, OrderHeld, Requests
  <2>3. CASE ResetOrder(w)
    BY <2>3, <1>1 DEF ResetOrder, OrdersHeld, OrderHeld, Requests
  <2>4. CASE ReadCurrentOrder(w) \/ LookupAwaiting(w)
    <3>1. ASSUME NEW o \in Orders, Pending(o, req[w].user), order' = order,
                 TakeOrder(w, "attach", o)
          PROVE  /\ \A v \in Workers \ {w} : req'[v] = req[v]
                 /\ OrderMove(w)
      BY <3>1, <1>t DEF Pending
    <3>2. ASSUME NEW o \in Orders, Pending(o, req[w].user), order' = order,
                 TakeOrder(w, "submit", o)
          PROVE  /\ \A v \in Workers \ {w} : req'[v] = req[v]
                 /\ OrderMove(w)
      BY <3>2, <1>t DEF Pending
    <3> QED
      BY <2>4, <1>1, <3>1, <3>2 DEF ReadCurrentOrder, LookupAwaiting
  <2>5. CASE CheckIssued(w)
    <3>1. /\ req[w].order \in Orders
          /\ HasReceipt(req[w].order)
          /\ order[req[w].order].status \notin Early
          /\ order' = order
      BY <2>5 DEF CheckIssued, OrdersHeld, OrderHeld, Early
    <3>2. ASSUME NEW k \in Keys,
                 req' = [req EXCEPT ![w] = [@ EXCEPT !.pc = "license", !.key = k]]
          PROVE  /\ \A v \in Workers \ {w} : req'[v] = req[v]
                 /\ OrderMove(w)
      <4>1. req'[w].pc = "license" /\ req'[w].order = req[w].order
        BY <3>2, <1>t
      <4> QED
        BY <3>1, <3>2, <4>1 DEF Early
    <3> QED
      BY <2>5, <1>1, <3>2 DEF CheckIssued
  <2>6. CASE CreateLicense(w)
    BY <2>6, <1>1 DEF CreateLicense, OrdersHeld, OrderHeld, Requests, Early
  <2>7. CASE CompleteOrder(w)
    BY <2>7 DEF CompleteOrder, OrdersHeld, OrderHeld, Requests, Early, Monotone
  <2>8. CASE AttachMethod(w) \/ SubmitReceipt(w) \/ DeliverKey(w) \/ RejectOrder(w)
    BY <2>8, <1>1 DEF AttachMethod, SubmitReceipt, DeliverKey, RejectOrder
  <2> QED
    BY <1>3, <2>1, <2>2, <2>3, <2>4, <2>5, <2>6, <2>7, <2>8 DEF Continue
<1>4. CASE Crash(w)
  BY <1>4, <1>1 DEF Crash
<1> QED
  BY <1>2, <1>3, <1>4

\* A step is a step of one request, or leaves all of them alone.
LEMMA StepKinds ==
    [Next]_vars => \/ \E w \in Workers : Begin(w) \/ Continue(w) \/ Crash(w)
                   \/ UNCHANGED <<req, claimed, receipt, licenses, outbox, delivered>>
BY DEF Next, Step, CancelOrder, vars

LEMMA OrdersHeldStep ==
    ASSUME IInv, [Next]_vars, Monotone
    PROVE  OrdersHeld'
<1>1. ASSUME NEW v \in Workers, req'[v] = req[v],
             \A x \in Workers \ {v} : \/ req'[x].order = req[x].order
                                       \/ req'[x].order \notin Orders
                                       \/ FreshOrder(req'[x].order)
                                       \/ order[req'[x].order].status # "ABSENT"
      PROVE  OrderHeld(v)'
  <2>0. OrderHeld(v)
    BY DEF IInv, OrdersHeld
  <2>1. CASE req[v].pc = "create"
    <3>1. /\ req[v].order \in Orders
          /\ order[req[v].order] = Absent
          /\ \A x \in Workers \ {v} : req[x].order # req[v].order
      BY <2>0, <2>1 DEF OrderHeld, Holding
    <3>2. ~CreateOrder(v)
      BY <2>1, <1>1 DEF CreateOrder, Goto, IInv, TypeOK, Requests
    <3>3. ASSUME NEW x \in Workers, CreateOrder(x)
          PROVE  req[x].order # req[v].order
      BY <3>1, <3>2, <3>3
    <3>4. order'[req[v].order] = Absent
      BY <3>1, <3>3 DEF Monotone
    <3>5. ASSUME NEW x \in Workers \ {v}
          PROVE  req'[x].order # req[v].order
      BY <3>1, <1>1 DEF FreshOrder, Absent
    <3> QED
      BY <1>1, <2>1, <3>1, <3>4, <3>5 DEF OrderHeld, Licensing
  <2>2. CASE req[v].pc # "create"
    <3>1. req[v].order \in Orders => order'[req[v].order].status # "ABSENT"
      BY <2>0, <2>2 DEF OrderHeld, Monotone
    <3>2. req[v].pc \in Holding => req[v].order \in Orders
      BY <2>0 DEF OrderHeld
    <3>3. CASE req[v].pc \in Licensing
      <4> DEFINE o == req[v].order
      <4>1. o \in Orders /\ HasReceipt(o) /\ order[o].status \notin Early
        BY <2>0, <3>2, <3>3 DEF OrderHeld, Holding
      <4>2. /\ \E u \in Updates : receipt'[u].order = o
            /\ order'[o].status \notin Early
        BY <4>1 DEF HasReceipt, Monotone
      <4> QED
        BY <1>1, <2>2, <3>1, <3>2, <4>2 DEF OrderHeld, HasReceipt
    <3> QED
      BY <1>1, <2>2, <3>1, <3>2, <3>3 DEF OrderHeld
  <2> QED
    BY <2>1, <2>2
<1>2. ASSUME NEW w \in Workers, Begin(w) \/ Continue(w) \/ Crash(w)
      PROVE  OrdersHeld'
  <2> DEFINE o == req'[w].order
  <2>1. /\ \A v \in Workers \ {w} : req'[v] = req[v]
        /\ OrderMove(w)
    BY <1>2, RequestStep
  <2>2. \/ o = req[w].order
        \/ o \notin Orders
        \/ FreshOrder(o)
        \/ order[o].status # "ABSENT"
    BY <2>1 DEF OrderMove
  <2>3. ASSUME NEW v \in Workers \ {w}
        PROVE  OrderHeld(v)'
    BY <2>1, <2>2, <1>1
  <2>4. OrderHeld(w)'
    <3>1. CASE o \notin Orders /\ req'[w].pc \notin Holding
      BY <3>1 DEF OrderHeld, Holding
    <3>2. CASE o \in Orders /\ req'[w].pc = "create" /\ FreshOrder(o)
      <4>1. order'[o] = Absent
        BY <3>2 DEF Monotone, FreshOrder
      <4>2. \A x \in Workers \ {w} : req'[x].order # o
        BY <2>1, <3>2 DEF FreshOrder
      <4> QED
        BY <3>2, <4>1, <4>2 DEF OrderHeld, Licensing
    <3>3. CASE /\ o \in Orders
               /\ req'[w].pc # "create"
               /\ order'[o].status # "ABSENT"
               /\ req'[w].pc \in Licensing => /\ HasReceipt(o)
                                              /\ order[o].status \notin Early
      <4>1. req'[w].pc \in Licensing => /\ \E u \in Updates : receipt'[u].order = o
                                        /\ order'[o].status \notin Early
        BY <3>3 DEF Monotone, HasReceipt
      <4> QED
        BY <3>3, <4>1 DEF OrderHeld, HasReceipt
    <3> QED
      BY <2>1, <3>1, <3>2, <3>3 DEF OrderMove
  <2> QED
    BY <2>3, <2>4 DEF OrdersHeld
<1>3. CASE UNCHANGED req
  BY <1>3, <1>1 DEF OrdersHeld
<1> QED
  BY <1>2, <1>3, StepKinds

-----------------------------------------------------------------------------
\* What a step of a request does to the keys: only the issuing transaction
\* adds a license, and a key is generated fresh and then kept.
KeyMove(w) ==
    \/ /\ req'[w].pc \notin {"license", "complete", "deliver"}
       /\ req'[w].key = req[w].key \/ req'[w].key \notin Keys
       /\ UNCHANGED licenses
    \/ /\ req'[w].pc = "license"
       /\ req'[w].key \in Keys /\ FreshKey(req'[w].key)
       /\ UNCHANGED licenses
    \/ /\ req[w].pc = "license" /\ req'[w].pc = "complete"
       /\ req'[w].order = req[w].order /\ req'[w].key = req[w].key
       /\ OrderIdFree(req[w].order)
       /\ licenses' = licenses \cup {NewLicense(w)}
    \/ /\ req[w].pc = "complete" /\ req'[w].pc = "deliver"
       /\ req'[w].order = req[w].order /\ req'[w].key = req[w].key
       /\ outbox' = outbox \cup {NewLicense(w)}
       /\ UNCHANGED licenses

LEMMA KeyStep ==
    ASSUME IInv, NEW w \in Workers, Begin(w) \/ Continue(w) \/ Crash(w)
    PROVE  KeyMove(w)
<1>t. /\ req[w] = [pc |-> req[w].pc, user |-> req[w].user, offer |-> req[w].offer,
                   order |-> req[w].order, upd |-> req[w].upd, key |-> req[w].key]
      /\ req \in [Workers -> Requests]
  BY DEF IInv, TypeOK, Requests
<1> USE NoneAssumption, <1>t DEF At, db, Finish, Goto, Idle, Begun
<1>1. ASSUME Finish(w), UNCHANGED licenses
      PROVE  KeyMove(w)
  BY <1>1 DEF KeyMove
<1>2. ASSUME NEW s \in Stages \ {"license", "complete", "deliver"},
             Goto(w, s), UNCHANGED licenses
      PROVE  KeyMove(w)
  BY <1>2 DEF KeyMove
<1>3. ASSUME NEW s \in Stages \ {"license", "complete", "deliver"},
             NEW o, TakeOrder(w, s, o), UNCHANGED licenses
      PROVE  KeyMove(w)
  BY <1>3 DEF KeyMove, TakeOrder
<1>4. CASE Begin(w)
  BY <1>4 DEF Begin, StartPayment, ChooseMethod, UploadReceipt, BeginApprove,
              BeginReject, KeyMove
<1>5. CASE Continue(w)
  <2>1. CASE ReusePending(w) \/ NoPendingFound(w) \/ ReadCurrentOrder(w)
               \/ LookupAwaiting(w)
    BY <2>1, <1>1, <1>3
       DEF ReusePending, NoPendingFound, ReadCurrentOrder, LookupAwaiting, Stages
  <2>2. CASE CreateOrder(w) \/ ResetOrder(w)
    BY <2>2, <1>1, <1>2 DEF CreateOrder, ResetOrder, Stages
  <2>3. CASE CheckIssued(w)
    <3>1. ASSUME NEW k \in Keys, FreshKey(k), UNCHANGED licenses,
                 req' = [req EXCEPT ![w] = [@ EXCEPT !.pc = "license", !.key = k]]
          PROVE  KeyMove(w)
      BY <3>1 DEF KeyMove
    <3> QED
      BY <2>3, <1>1, <3>1 DEF CheckIssued
  <2>4. CASE CreateLicense(w)
    BY <2>4, <1>1 DEF CreateLicense, KeyMove
  <2>5. CASE CompleteOrder(w)
    BY <2>5 DEF CompleteOrder, KeyMove
  <2>6. CASE AttachMethod(w) \/ SubmitReceipt(w) \/ DeliverKey(w) \/ RejectOrder(w)
    BY <2>6, <1>1 DEF AttachMethod, SubmitReceipt, DeliverKey, RejectOrder
  <2> QED
    BY <1>5, <2>1, <2>2, <2>3, <2>4, <2>5, <2>6 DEF Continue
<1>6. CASE Crash(w)
  BY <1>6, <1>1 DEF Crash
<1> QED
  BY <1>4, <1>5, <1>6

LEMMA KeysHeldStep ==
    ASSUME IInv, [Next]_vars, Monotone
    PROVE  KeysHeld'
<1> USE DEF NewLicense
<1>1. ASSUME NEW w \in Workers, Begin(w) \/ Continue(w) \/ Crash(w)
      PROVE  KeysHeld'
  <2>1. /\ \A v \in Workers \ {w} : req'[v] = req[v]
        /\ KeyMove(w)
        /\ \A v \in Workers : KeyHeld(v)
        /\ licenses \subseteq licenses' /\ outbox \subseteq outbox'
    BY <1>1, RequestStep, KeyStep DEF IInv, KeysHeld, Monotone
  <2>2. ASSUME NEW v \in Workers \ {w}, req[v].key \in Keys
        PROVE  req'[w].key # req[v].key
    BY <2>1, <2>2 DEF KeyMove, KeyHeld, FreshKey
  <2>3. ASSUME NEW v \in Workers \ {w}
        PROVE  KeyHeld(v)'
    <3>1. req[v].pc = "license" => \A l \in licenses' : l.key # req[v].key
      <4> SUFFICES ASSUME req[v].pc = "license", NEW l \in licenses'
                   PROVE  l.key # req[v].key
        OBVIOUS
      <4>1. /\ req[v].key \in Keys
            /\ \A k \in licenses : k.key # req[v].key
        BY <2>1 DEF KeyHeld, Licensing
      <4>2. req[w].key # req[v].key
        BY <2>1, <4>1 DEF KeyHeld
      <4>3. l \in licenses \/ l = NewLicense(w)
        BY <2>1 DEF KeyMove
      <4> QED
        BY <4>1, <4>2, <4>3
    <3>2. \A x \in Workers :
            req[v].key = req'[x].key /\ req[v].key \in Keys => x = v
      BY <2>1, <2>2 DEF KeyHeld
    <3> QED
      BY <2>1, <3>1, <3>2 DEF KeyHeld
  <2>4. KeyHeld(w)'
    BY <2>1, <2>2 DEF KeyMove, KeyHeld, FreshKey, Licensing
  <2> QED
    BY <2>3, <2>4 DEF KeysHeld
<1>2. CASE UNCHANGED <<req, licenses, outbox>>
  BY <1>2 DEF IInv, KeysHeld, KeyHeld
<1> QED
  BY <1>1, <1>2, StepKinds

-----------------------------------------------------------------------------
\* What a step of a request does to the updates: it claims one, or keeps its
\* own, or gives it up; only the request that holds an update writes its receipt.
UpdateMove(w) ==
    /\ \A u \in Updates : receipt[u] = NoReceipt /\ receipt'[u] # NoReceipt
                            => u = req[w].upd /\ req'[w].upd \notin Updates
    /\ \/ req'[w].upd \notin Updates /\ req'[w].pc \notin {"lookup", "submit"}
       \/ /\ req'[w].upd = req[w].upd
          /\ req'[w].pc \in {"lookup", "submit"} => req[w].upd \in Updates
       \/ req'[w].upd \in Updates \ claimed /\ req'[w].upd \in claimed'

LEMMA UpdateStep ==
    ASSUME IInv, NEW w \in Workers, Begin(w) \/ Continue(w) \/ Crash(w)
    PROVE  UpdateMove(w)
<1>t. /\ req[w] = [pc |-> req[w].pc, user |-> req[w].user, offer |-> req[w].offer,
                   order |-> req[w].order, upd |-> req[w].upd, key |-> req[w].key]
      /\ req \in [Workers -> Requests]
      /\ receipt \in [Updates -> ReceiptRows]
      /\ req[w].pc \in {"lookup", "submit"} => req[w].upd \in Updates
      /\ req[w].pc \in Holding => req[w].order # None
  BY NoneAssumption DEF IInv, TypeOK, Requests, UpdatesHeld, UpdateHeld, OrdersHeld,
                        OrderHeld
<1> USE NoneAssumption, <1>t DEF At, db, Finish, Goto, Idle, Begun
<1>1. ASSUME Finish(w), UNCHANGED receipt
      PROVE  UpdateMove(w)
  BY <1>1 DEF UpdateMove
<1>2. ASSUME NEW s \in Stages \ {"lookup", "submit"}, Goto(w, s), UNCHANGED receipt
      PROVE  UpdateMove(w)
  BY <1>2 DEF UpdateMove
<1>3. ASSUME NEW s \in Stages, NEW o, TakeOrder(w, s, o), UNCHANGED receipt,
             s = "submit" => At(w, "lookup"), s # "lookup"
      PROVE  UpdateMove(w)
  BY <1>3 DEF UpdateMove, TakeOrder
<1>4. CASE Begin(w)
  BY <1>4 DEF Begin, StartPayment, ChooseMethod, UploadReceipt, BeginApprove,
              BeginReject, UpdateMove
<1>5. CASE Continue(w)
  <2>1. CASE ReusePending(w) \/ NoPendingFound(w) \/ ReadCurrentOrder(w)
               \/ LookupAwaiting(w)
    BY <2>1, <1>1, <1>3
       DEF ReusePending, NoPendingFound, ReadCurrentOrder, LookupAwaiting, Stages
  <2>2. CASE CreateOrder(w) \/ ResetOrder(w) \/ CreateLicense(w)
    BY <2>2, <1>1, <1>2 DEF CreateOrder, ResetOrder, CreateLicense, Stages
  <2>3. CASE CheckIssued(w)
    <3>1. ASSUME NEW k \in Keys, UNCHANGED receipt,
                 req' = [req EXCEPT ![w] = [@ EXCEPT !.pc = "license", !.key = k]]
          PROVE  UpdateMove(w)
      BY <3>1 DEF UpdateMove
    <3> QED
      BY <2>3, <1>1, <3>1 DEF CheckIssued
  <2>4. CASE AttachMethod(w) \/ DeliverKey(w)
    BY <2>4, <1>1 DEF AttachMethod, DeliverKey
  <2>5. CASE CompleteOrder(w)
    <3>1. \A u \in Updates : receipt[u] = NoReceipt => receipt'[u] = NoReceipt
      BY <2>5 DEF CompleteOrder, NoReceipt, Holding, Licensing
    <3> QED
      BY <2>5, <3>1 DEF CompleteOrder, UpdateMove
  <2>6. CASE RejectOrder(w)
    <3>1. \A u \in Updates : receipt[u] = NoReceipt => receipt'[u] = NoReceipt
      BY <2>6 DEF RejectOrder, NoReceipt, Holding
    <3> QED
      BY <2>6, <3>1 DEF RejectOrder, UpdateMove
  <2>7. CASE SubmitReceipt(w)
    BY <2>7 DEF SubmitReceipt, UpdateMove
  <2> QED
    BY <1>5, <2>1, <2>2, <2>3, <2>4, <2>5, <2>6, <2>7 DEF Continue
<1>6. CASE Crash(w)
  BY <1>6, <1>1 DEF Crash
<1> QED
  BY <1>4, <1>5, <1>6

LEMMA UpdatesHeldStep ==
    ASSUME IInv, [Next]_vars, Monotone
    PROVE  UpdatesHeld'
<1>1. ASSUME NEW w \in Workers, Begin(w) \/ Continue(w) \/ Crash(w)
      PROVE  UpdatesHeld'
  <2>1. /\ \A v \in Workers \ {w} : req'[v] = req[v]
        /\ UpdateMove(w)
        /\ \A v \in Workers : UpdateHeld(v)
        /\ claimed \subseteq claimed'
        /\ \A u \in Updates : u \notin claimed => receipt[u] = NoReceipt
    BY <1>1, RequestStep, UpdateStep DEF IInv, UpdatesHeld, Monotone
  <2>2. ASSUME NEW u \in Updates, u \notin claimed'
        PROVE  receipt'[u] = NoReceipt
    BY <2>1, <2>2 DEF UpdateMove, UpdateHeld
  <2>3. ASSUME NEW v \in Workers \ {w}
        PROVE  UpdateHeld(v)'
    <3>1. req[v].upd \in Updates => req[w].upd # req[v].upd /\ req'[w].upd # req[v].upd
      BY <2>1 DEF UpdateMove, UpdateHeld
    <3>2. req[v].upd \in Updates => receipt'[req[v].upd] = NoReceipt
      BY <2>1, <3>1 DEF UpdateMove, UpdateHeld
    <3> QED
      BY <2>1, <3>1, <3>2 DEF UpdateHeld
  <2>4. UpdateHeld(w)'
    <3>1. req'[w].upd \in Updates => \A v \in Workers \ {w} : req[v].upd # req'[w].upd
      BY <2>1 DEF UpdateMove, UpdateHeld
    <3>2. req'[w].upd \in Updates => receipt'[req'[w].upd] = NoReceipt
      BY <2>1 DEF UpdateMove, UpdateHeld
    <3> QED
      BY <2>1, <3>1, <3>2 DEF UpdateMove, UpdateHeld
  <2> QED
    BY <2>2, <2>3, <2>4 DEF UpdatesHeld
<1>2. CASE UNCHANGED <<req, claimed, receipt>>
  BY <1>2 DEF IInv, UpdatesHeld, UpdateHeld
<1> QED
  BY <1>1, <1>2, StepKinds

-----------------------------------------------------------------------------
\* Which actions change what the invariants speak of.
Effects(w) ==
    /\ \A o \in Orders :
        /\ order'[o].status = "COMPLETED" =>
              \/ order[o].status = "COMPLETED"
              \/ CompleteOrder(w) /\ req[w].order = o
        /\ order'[o].status = "UNDER_REVIEW" =>
              \/ order[o].status = "UNDER_REVIEW"
              \/ SubmitReceipt(w) /\ req[w].order = o
    /\ \A u \in Updates :
        \/ receipt'[u] = receipt[u]
        \/ SubmitReceipt(w) /\ u = req[w].upd
        \/ /\ CompleteOrder(w) \/ RejectOrder(w)
           /\ receipt[u].order = req[w].order
    /\ UNCHANGED licenses \/ CreateLicense(w)
    /\ UNCHANGED outbox \/ CompleteOrder(w)
    /\ UNCHANGED delivered \/ DeliverKey(w)

LEMMA EffectsStep ==
    ASSUME IInv, NEW w \in Workers, Begin(w) \/ Continue(w) \/ Crash(w)
    PROVE  Effects(w)
<1> USE DEF IInv, TypeOK, Effects, db, SetStatus
<1>1. CASE Begin(w)
  <2>1. ASSUME NEW u \in Users, NEW f \in Offers, StartPayment(w, u, f)
        PROVE  Effects(w)
    BY <2>1 DEF StartPayment, OrderRows
  <2> QED
    BY <1>1, <2>1 DEF Begin, ChooseMethod, UploadReceipt, BeginApprove, BeginReject
<1>2. CASE Continue(w)
  <2>1. CASE CreateOrder(w)
    BY <2>1 DEF CreateOrder
  <2>2. CASE SubmitReceipt(w)
    BY <2>2 DEF SubmitReceipt, OrderRows
  <2>3. CASE CreateLicense(w)
    BY <2>3 DEF CreateLicense
  <2>4. CASE CompleteOrder(w)
    BY <2>4 DEF CompleteOrder, OrderRows
  <2>5. CASE RejectOrder(w)
    BY <2>5 DEF RejectOrder, OrderRows
  <2>6. CASE DeliverKey(w)
    BY <2>6 DEF DeliverKey
  <2>7. CASE \/ ReusePending(w) \/ NoPendingFound(w) \/ ResetOrder(w)
             \/ ReadCurrentOrder(w) \/ AttachMethod(w) \/ LookupAwaiting(w)
             \/ CheckIssued(w)
    BY <2>7 DEF ReusePending, NoPendingFound, ResetOrder, ReadCurrentOrder,
                AttachMethod, LookupAwaiting, CheckIssued
  <2> QED
    BY <1>2, <2>1, <2>2, <2>3, <2>4, <2>5, <2>6, <2>7 DEF Continue
<1>3. CASE Crash(w)
  BY <1>3 DEF Crash
<1> QED
  BY <1>1, <1>2, <1>3

LEMMA LicensesStep ==
    ASSUME IInv, [Next]_vars, Monotone
    PROVE  OneLicensePerOrder' /\ LicenseNeedsReceipt'
<1>1. ASSUME NEW w \in Workers, Begin(w) \/ Continue(w) \/ Crash(w),
             licenses' # licenses
      PROVE  /\ licenses' = licenses \cup {NewLicense(w)}
             /\ OrderIdFree(req[w].order)
             /\ req[w].pc = "license"
  BY <1>1, KeyStep DEF KeyMove
<1>2. licenses' = licenses
        \/ \E w \in Workers : /\ licenses' = licenses \cup {NewLicense(w)}
                              /\ OrderIdFree(req[w].order)
                              /\ req[w].pc = "license"
  BY <1>1, StepKinds
<1>3. OneLicensePerOrder'
  BY <1>2 DEF IInv, OneLicensePerOrder, NewLicense, OrderIdFree, HasLicense,
              KeysHeld, KeyHeld
<1>4. ASSUME NEW o \in Orders, HasReceipt(o), order[o].status \notin Early
      PROVE  HasReceipt(o)' /\ order'[o].status \notin Early
  BY <1>4 DEF HasReceipt, Monotone
<1>5. ASSUME NEW l \in licenses'
      PROVE  l.order \in Orders /\ HasReceipt(l.order) /\ order[l.order].status \notin Early
  <2>1. CASE l \in licenses
    BY <2>1 DEF IInv, TypeOK, LicenseRows, LicenseNeedsReceipt, Early
  <2>2. ASSUME NEW w \in Workers, l = NewLicense(w), req[w].pc = "license"
        PROVE  l.order \in Orders /\ HasReceipt(l.order)
                 /\ order[l.order].status \notin Early
    BY <2>2 DEF NewLicense, IInv, OrdersHeld, OrderHeld, Licensing, Holding
  <2> QED
    BY <1>2, <2>1, <2>2
<1>6. LicenseNeedsReceipt'
  BY <1>4, <1>5 DEF LicenseNeedsReceipt, Early, HasReceipt
<1> QED
  BY <1>3, <1>6

LEMMA CompletedStep ==
    ASSUME IInv, [Next]_vars, Monotone
    PROVE  CompletedHasKey'
<1> SUFFICES ASSUME NEW o \in Orders, order'[o].status = "COMPLETED"
             PROVE  \E l \in outbox' \cap licenses' : l.order = o
  BY DEF CompletedHasKey
<1>1. CASE order[o].status = "COMPLETED"
  BY <1>1 DEF IInv, CompletedHasKey, Monotone
<1>2. ASSUME NEW w \in Workers, CompleteOrder(w), req[w].order = o
      PROVE  \E l \in outbox' \cap licenses' : l.order = o
  <2>1. NewLicense(w) \in licenses'
    BY <1>2 DEF CompleteOrder, At, IInv, KeysHeld, KeyHeld
  <2>2. NewLicense(w) \in outbox'
    BY <1>2 DEF CompleteOrder
  <2>3. NewLicense(w).order = o
    BY <1>2 DEF NewLicense
  <2> QED
    BY <2>1, <2>2, <2>3
<1>3. ASSUME NEW c \in Orders, CancelOrder(c)
      PROVE  order[o].status = "COMPLETED"
  BY <1>3 DEF CancelOrder, SetStatus, IInv, TypeOK, OrderRows
<1> QED
  BY <1>1, <1>2, <1>3, EffectsStep DEF Effects, Next, Step, vars

LEMMA ReviewStep ==
    ASSUME IInv, [Next]_vars
    PROVE  ReviewHasPendingReceipt'
<1> SUFFICES ASSUME NEW o \in Orders, order'[o].status = "UNDER_REVIEW"
             PROVE  \E u \in Updates :
                       receipt'[u] = [status |-> "PENDING", order |-> o]
  BY DEF ReviewHasPendingReceipt
<1>1. ASSUME NEW w \in Workers, SubmitReceipt(w), req[w].order = o
      PROVE  \E u \in Updates : receipt'[u] = [status |-> "PENDING", order |-> o]
  BY <1>1 DEF SubmitReceipt, At, IInv, TypeOK, UpdatesHeld, UpdateHeld
<1>2. ASSUME order[o].status = "UNDER_REVIEW",
             NEW w \in Workers, Begin(w) \/ Continue(w) \/ Crash(w)
      PROVE  \E u \in Updates : receipt'[u] = [status |-> "PENDING", order |-> o]
  <2>1. PICK u \in Updates : receipt[u] = [status |-> "PENDING", order |-> o]
    BY <1>2 DEF IInv, ReviewHasPendingReceipt
  <2>2. ~(SubmitReceipt(w) /\ u = req[w].upd)
    BY <2>1 DEF SubmitReceipt, At, IInv, UpdatesHeld, UpdateHeld, NoReceipt
  <2>3. ~((CompleteOrder(w) \/ RejectOrder(w)) /\ req[w].order = o)
    BY DEF CompleteOrder, RejectOrder, SetStatus, IInv, TypeOK, OrderRows
  <2> QED
    BY <1>2, <2>1, <2>2, <2>3, EffectsStep DEF Effects
<1>3. CASE UNCHANGED <<order, receipt>>
  BY <1>3 DEF IInv, ReviewHasPendingReceipt
<1>4. ASSUME NEW c \in Orders, CancelOrder(c)
      PROVE  \E u \in Updates : receipt'[u] = [status |-> "PENDING", order |-> o]
  BY <1>4 DEF CancelOrder, SetStatus, IInv, TypeOK, OrderRows, ReviewHasPendingReceipt
<1> QED
  BY <1>1, <1>2, <1>3, <1>4, EffectsStep DEF Effects, Next, Step, vars

LEMMA KeptStep ==
    ASSUME IInv, [Next]_vars, Monotone
    PROVE  KeptKeysAreIssued'
<1>1. ASSUME NEW w \in Workers, Begin(w) \/ Continue(w) \/ Crash(w)
      PROVE  KeptKeysAreIssued'
  <2>1. outbox' \subseteq licenses'
    BY <1>1, EffectsStep
       DEF Effects, CompleteOrder, At, IInv, KeysHeld, KeyHeld, KeptKeysAreIssued,
           Monotone
  <2>2. \A k \in delivered' : \E l \in outbox' : l.key = k
    <3>1. CASE UNCHANGED delivered
      BY <3>1 DEF IInv, KeptKeysAreIssued, Monotone
    <3>2. CASE DeliverKey(w)
      BY <3>2 DEF DeliverKey, At, IInv, KeysHeld, KeyHeld, NewLicense,
                  KeptKeysAreIssued
    <3> QED
      BY <1>1, <3>1, <3>2, EffectsStep DEF Effects
  <2> QED
    BY <2>1, <2>2 DEF KeptKeysAreIssued
<1>2. CASE UNCHANGED <<licenses, outbox, delivered>>
  BY <1>2 DEF IInv, KeptKeysAreIssued
<1> QED
  BY <1>1, <1>2, StepKinds

-----------------------------------------------------------------------------
LEMMA IInvInit == Init => IInv
<1> SUFFICES ASSUME Init PROVE IInv
  OBVIOUS
<1> USE NoneAssumption DEF Init
<1>1. TypeOK
  BY DEF TypeOK, OrderRows, ReceiptRows, Requests, Absent, NoReceipt, Idle, Begun, Stages
<1>2. \A w \in Workers : /\ req[w].pc = "idle"
                        /\ req[w].order \notin Orders
                        /\ req[w].key \notin Keys
                        /\ req[w].upd \notin Updates
  BY DEF Idle, Begun
<1>3. OrdersHeld
  BY <1>2 DEF OrdersHeld, OrderHeld, Holding, Licensing
<1>4. KeysHeld
  BY <1>2 DEF KeysHeld, KeyHeld, Licensing
<1>5. UpdatesHeld
  BY <1>2 DEF UpdatesHeld, UpdateHeld
<1>6. /\ OneLicensePerOrder /\ LicenseNeedsReceipt /\ CompletedHasKey
      /\ ReviewHasPendingReceipt /\ KeptKeysAreIssued
  BY DEF OneLicensePerOrder, LicenseNeedsReceipt, CompletedHasKey,
         ReviewHasPendingReceipt, KeptKeysAreIssued, Absent
<1> QED
  BY <1>1, <1>3, <1>4, <1>5, <1>6 DEF IInv

LEMMA IInvStep == IInv /\ [Next]_vars => IInv'
BY MonotoneStep, TypeStep, OrdersHeldStep, KeysHeldStep, UpdatesHeldStep,
   LicensesStep, CompletedStep, ReviewStep, KeptStep DEF IInv

\* Every reachable state satisfies the inductive invariant.
THEOREM Invariance == Spec => []IInv
BY IInvInit, IInvStep, PTL DEF Spec

\* The variables keep their types, whatever requests interleave or crash.
THEOREM TypeCorrect == Spec => []TypeOK
<1>1. IInv => TypeOK
  BY DEF IInv
<1> QED
  BY <1>1, Invariance, PTL

\* Concurrent approvals never give an order two licenses or two orders one key.
THEOREM UniqueLicenses == Spec => []OneLicensePerOrder
<1>1. IInv => OneLicensePerOrder
  BY DEF IInv
<1> QED
  BY <1>1, Invariance, PTL

\* A license is issued only for an order with a receipt.
THEOREM LicensesArePaid == Spec => []LicenseNeedsReceipt
<1>1. IInv => LicenseNeedsReceipt
  BY DEF IInv
<1> QED
  BY <1>1, Invariance, PTL

\* A completed order has its license, and the key is kept.
THEOREM CompletedOrdersHaveKeys == Spec => []CompletedHasKey
<1>1. IInv => CompletedHasKey
  BY DEF IInv
<1> QED
  BY <1>1, Invariance, PTL

\* An order under review has a receipt that is still to be decided.
THEOREM ReviewsHaveReceipts == Spec => []ReviewHasPendingReceipt
<1>1. IInv => ReviewHasPendingReceipt
  BY DEF IInv
<1> QED
  BY <1>1, Invariance, PTL

\* Only keys of issued licenses are kept, and only kept keys are sent.
THEOREM KeptKeysAreReal == Spec => []KeptKeysAreIssued
<1>1. IInv => KeptKeysAreIssued
  BY DEF IInv
<1> QED
  BY <1>1, Invariance, PTL

-----------------------------------------------------------------------------
LEMMA LedgerStep == IInv /\ [Next]_vars => [Ledger!Next]_(Ledger!ledger)
<1> SUFFICES ASSUME IInv, [Next]_vars
             PROVE  [Ledger!Next]_(Ledger!ledger)
  OBVIOUS
<1> DEFINE Paid == {o \in Orders : HasReceipt(o)}
<1>0. Monotone
  BY MonotoneStep
<1>1. ASSUME NEW w \in Workers, Begin(w) \/ Continue(w) \/ Crash(w)
      PROVE  [Ledger!Next]_(Ledger!ledger)
  <2>1. CASE SubmitReceipt(w)
    <3>1. /\ req[w].order \in Orders /\ req[w].upd \in Updates
          /\ receipt[req[w].upd] = NoReceipt
      BY <2>1 DEF SubmitReceipt, At, IInv, OrdersHeld, OrderHeld, Holding,
                  UpdatesHeld, UpdateHeld
    <3>2. Paid' = Paid \cup {req[w].order}
      BY <2>1, <3>1, NoneAssumption
         DEF SubmitReceipt, HasReceipt, NoReceipt, IInv, TypeOK
    <3>3. UNCHANGED <<licenses, outbox, delivered>>
      BY <2>1 DEF SubmitReceipt
    <3>4. Ledger!Pay(req[w].order)
      BY <3>2, <3>3 DEF Ledger!Pay
    <3> QED
      BY <3>1, <3>4 DEF Ledger!Next
  <2>2. CASE ~SubmitReceipt(w)
    <3>1. Paid' = Paid
      <4>1. \A u \in Updates : receipt'[u].order = receipt[u].order
        <5>1. ASSUME NEW u \in Updates, receipt'[u] # receipt[u]
              PROVE  receipt'[u].order = receipt[u].order
          BY <1>1, <2>2, <5>1, EffectsStep
             DEF Effects, CompleteOrder, RejectOrder, IInv, TypeOK, ReceiptRows
        <5> QED
          BY <5>1
      <4> QED
        BY <4>1 DEF HasReceipt
    <3>2. CASE CreateLicense(w) /\ licenses' # licenses
      <4>1. /\ licenses' = licenses \cup {NewLicense(w)}
            /\ OrderIdFree(req[w].order)
            /\ req[w].pc = "license"
        BY <3>2 DEF CreateLicense, At
      <4>2. /\ req[w].order \in Orders /\ HasReceipt(req[w].order)
            /\ req[w].key \in Keys
            /\ \A l \in licenses : l.key # req[w].key
        BY <4>1 DEF IInv, OrdersHeld, OrderHeld, KeysHeld, KeyHeld, Holding, Licensing
      <4>3. UNCHANGED <<outbox, delivered>>
        BY <3>2 DEF CreateLicense
      <4>4. Ledger!Issue(req[w].order, req[w].key)
        BY <3>1, <4>1, <4>2, <4>3
           DEF Ledger!Issue, NewLicense, OrderIdFree, HasLicense
      <4> QED
        BY <4>2, <4>4 DEF Ledger!Next
    <3>3. CASE CompleteOrder(w)
      <4>1. /\ NewLicense(w) \in licenses
            /\ outbox' = outbox \cup {NewLicense(w)}
            /\ UNCHANGED <<licenses, delivered>>
        BY <3>3 DEF CompleteOrder, At, IInv, KeysHeld, KeyHeld
      <4>2. Ledger!Keep(NewLicense(w))
        BY <3>1, <4>1 DEF Ledger!Keep
      <4> QED
        BY <4>1, <4>2 DEF Ledger!Next
    <3>4. CASE DeliverKey(w) /\ delivered' # delivered
      <4>1. /\ NewLicense(w) \in outbox
            /\ delivered' = delivered \cup {NewLicense(w).key}
            /\ UNCHANGED <<licenses, outbox>>
        BY <3>4 DEF DeliverKey, At, IInv, KeysHeld, KeyHeld, NewLicense
      <4>2. Ledger!Send(NewLicense(w))
        BY <3>1, <4>1 DEF Ledger!Send
      <4> QED
        BY <4>1, <4>2 DEF Ledger!Next
    <3>5. CASE UNCHANGED <<licenses, outbox, delivered>>
      BY <3>1, <3>5 DEF Ledger!ledger
    <3> QED
      BY <1>1, <3>2, <3>3, <3>4, <3>5, EffectsStep
         DEF Effects, CreateLicense, DeliverKey
  <2> QED
    BY <2>1, <2>2
<1>2. CASE UNCHANGED <<receipt, licenses, outbox, delivered>>
  BY <1>2 DEF Ledger!ledger, HasReceipt
<1> QED
  BY <1>1, <1>2, StepKinds

\* The payment flow implements the ledger: each of its steps is one step of the
\* ledger or leaves it unchanged.
THEOREM Refinement == Spec => ImplementsLedger
<1>1. Init => Ledger!Init
  BY NoneAssumption DEF Init, Ledger!Init, HasReceipt, NoReceipt
<1> QED
  BY <1>1, LedgerStep, Invariance, PTL DEF Spec, ImplementsLedger, Ledger!Spec

-----------------------------------------------------------------------------
\* The prices of plans.

Buying == {"quote", "cancel", "find", "available", "price", "create"}
JobRows == [pc : Buying \cup {"idle", "reset", "tell", "attach"},
            period : Offers \cup {None}, quote : Nat, amount : Nat,
            sale : Sales \cup {None}, had : SUBSET Nat, on : BOOLEAN]
SoldRows == [status : {"none", "PENDING", "AWAITING", "REVIEW", "over"},
             period : Offers \cup {None}, amount : Nat]

SalesTypes ==
    /\ price \in [Offers -> Nat]
    /\ call \in [Workers -> [pc : {"idle", "tx"}, on : {"keep", "on", "off"},
                             price : [Offers -> Nat] \cup {None}, rows : SUBSET Offers]]
    /\ sale \in [Sales -> SoldRows]
    /\ job \in [Customers -> JobRows]
    /\ told \in [Sales -> Nat]
    /\ had \in [Sales -> SUBSET Nat]

\* What a request has told and will charge was a price since it began, or is the one
\* in extra, which it has just read; and the plan was for sale, or is now.
JobRight(j, extra, now) ==
    /\ j.pc \in Buying => j.sale = None /\ j.period \in Offers /\ (j.on \/ now = "on")
    /\ j.pc \in Buying \ {"quote"} => j.quote \in j.had \cup extra
    /\ j.pc = "create" => j.amount \in j.had \cup extra

\* An order is not made undone.
Made(s) == sale[s].status # "none"

\* A request that has its order tells a price of it, or its amount.
TellsRight(j) ==
    /\ j.pc \in {"reset", "tell"} =>
         j.sale \in Sales /\ Made(j.sale) /\ j.quote \in had[j.sale]
    /\ j.pc = "attach" =>
         j.sale \in Sales /\ Made(j.sale) /\ j.amount = sale[j.sale].amount

SaleRight(s) ==
    /\ s \notin unsold
    /\ Made(s) => sale[s].period \in Offers /\ sale[s].amount \in had[s]
    /\ told[s] # 0 => Made(s) /\ (s \notin crossed => told[s] \in had[s])

SalesIInv ==
    /\ SalesTypes
    /\ \A c \in Customers : JobRight(job[c], {}, "off") /\ TellsRight(job[c])
    /\ \A s \in Sales : SaleRight(s)

\* The orders that are made keep their amounts, and their histories grow.
OrderStays(s) == Made(s) => /\ sale'[s].status # "none"
                            /\ sale'[s].amount = sale[s].amount
                            /\ had[s] \subseteq had'[s]

LEMMA IdleJob ==
    /\ None \notin Offers /\ None \notin Sales
    /\ P!Idle \in JobRows /\ P!Idle.pc = "idle" /\ P!Idle.sale = None
<1>1. None \notin Offers /\ None \notin Sales
  BY SalesAssumption DEF P!PlanSalesAssumption
<1>2. P!Idle \in JobRows /\ P!Idle.pc = "idle" /\ P!Idle.sale = None
  BY DEF P!Idle, JobRows
<1> QED
  BY <1>1, <1>2

\* The histories of the requests take in the new price.
LEMMA WitnessKeeps ==
    ASSUME NEW jobs \in [Customers -> JobRows], price' \in [Offers -> Nat],
           job' = P!Witness(jobs),
           \A c \in Customers :
             /\ JobRight(jobs[c], {price'[jobs[c].period]} \ {0}, plan')
             /\ jobs[c].pc \in {"reset", "tell", "attach"} => jobs[c].sale \in Sales
    PROVE  /\ job' \in [Customers -> JobRows]
           /\ \A c \in Customers :
                /\ JobRight(job'[c], {}, "off")
                /\ job'[c].pc = jobs[c].pc /\ job'[c].sale = jobs[c].sale
                /\ job'[c].quote = jobs[c].quote /\ job'[c].amount = jobs[c].amount
<1>1. ASSUME NEW c \in Customers
      PROVE  /\ job'[c] \in JobRows /\ JobRight(job'[c], {}, "off")
             /\ job'[c].pc = jobs[c].pc /\ job'[c].sale = jobs[c].sale
             /\ job'[c].quote = jobs[c].quote /\ job'[c].amount = jobs[c].amount
  <2>j. PICK j \in JobRows : j = jobs[c]
    OBVIOUS
  <2>1. /\ JobRight(j, {price'[j.period]} \ {0}, plan')
        /\ j.pc \in {"reset", "tell", "attach"} => j.sale \in Sales
    BY <2>j
  <2>2. CASE j.pc = "idle" \/ j.sale # None
    <3>1. job'[c] = j
      BY <2>j, <2>2 DEF P!Witness
    <3> QED
      BY <2>j, <2>1, <2>2, <3>1 DEF JobRight, Buying
  <2>3. CASE j.pc # "idle" /\ j.sale = None
    <3>1. j.pc \in Buying
      BY <2>1, <2>3, IdleJob DEF JobRows
    <3>2. price'[j.period] \in Nat
      BY <2>1, <3>1 DEF JobRight
    <3>3. PICK p \in Nat, b \in BOOLEAN : p = price'[j.period] /\ b = (j.on \/ plan' = "on")
      BY <3>2
    <3> DEFINE k == [j EXCEPT !.had = @ \cup ({p} \ {0}), !.on = b]
    <3>4. job'[c] = k
      BY <2>j, <2>3, <3>3 DEF P!Witness
    <3>5. /\ k \in JobRows /\ k.pc = j.pc /\ k.sale = j.sale /\ k.quote = j.quote
          /\ k.amount = j.amount /\ k.period = j.period /\ k.had = j.had \cup ({p} \ {0})
          /\ k.on = b
      BY DEF JobRows
    <3> HIDE DEF k
    <3>6. JobRight(k, {}, "off")
      BY <2>1, <3>1, <3>3, <3>5 DEF JobRight
    <3> QED
      BY <2>j, <3>4, <3>5, <3>6
  <2> QED
    BY <2>2, <2>3
<1>2. DOMAIN job' = Customers /\ job' = [c \in Customers |-> job'[c]]
  BY DEF P!Witness
<1> QED
  BY <1>1, <1>2

\* Prices change, or an order: the requests are those of jobs, and have taken in what
\* is new.
LEMMA SalesKeep ==
    ASSUME SalesIInv, NEW jobs \in [Customers -> JobRows], job' = P!Witness(jobs),
           price' \in [Offers -> Nat], sale' \in [Sales -> SoldRows],
           told' \in [Sales -> Nat], had' \in [Sales -> SUBSET Nat],
           call' \in [Workers -> [pc : {"idle", "tx"}, on : {"keep", "on", "off"},
                                  price : [Offers -> Nat] \cup {None},
                                  rows : SUBSET Offers]],
           \A c \in Customers : JobRight(jobs[c], {price'[jobs[c].period]} \ {0}, plan'),
           \A c \in Customers : TellsRight(jobs[c])',
           \A s \in Sales : SaleRight(s)'
    PROVE  SalesIInv'
<1>1. \A c \in Customers :
        jobs[c].pc \in {"reset", "tell", "attach"} => jobs[c].sale \in Sales
  BY DEF TellsRight
<1>2. /\ job' \in [Customers -> JobRows]
      /\ \A c \in Customers :
           /\ JobRight(job'[c], {}, "off")
           /\ job'[c].pc = jobs[c].pc /\ job'[c].sale = jobs[c].sale
           /\ job'[c].quote = jobs[c].quote /\ job'[c].amount = jobs[c].amount
  BY <1>1, WitnessKeeps
<1>3. SalesTypes'
  BY <1>2 DEF SalesTypes
<1>4. \A c \in Customers : TellsRight(job[c])'
  BY <1>2 DEF TellsRight
<1> QED
  BY <1>2, <1>3, <1>4 DEF SalesIInv, JobRight

\* One request goes on with the row j.
LEMMA WorkKeeps ==
    ASSUME SalesIInv, NEW c \in Customers, NEW j \in JobRows, P!Work(c, j), P!ShopKeeps,
           sale' \in [Sales -> SoldRows], told' \in [Sales -> Nat],
           had' \in [Sales -> SUBSET Nat],
           JobRight(j, {price[j.period]} \ {0}, plan), TellsRight(j)',
           \A s \in Sales : OrderStays(s) /\ SaleRight(s)'
    PROVE  SalesIInv'
<1>t. SalesTypes
  BY DEF SalesIInv
<1>1. PICK jobs : jobs = [job EXCEPT ![c] = j]
  OBVIOUS
<1>2. /\ jobs \in [Customers -> JobRows] /\ jobs[c] = j
      /\ \A x \in Customers \ {c} : jobs[x] = job[x]
  BY <1>t, <1>1 DEF SalesTypes
<1>3. job' = P!Witness(jobs) /\ price' = price /\ plan' = plan /\ call' = call
  BY <1>1 DEF P!Work, P!ShopKeeps
<1>4. \A x \in Customers : JobRight(jobs[x], {price'[jobs[x].period]} \ {0}, plan')
  <2>1. \A x \in Customers \ {c} : JobRight(jobs[x], {price'[jobs[x].period]} \ {0}, plan')
    BY <1>2 DEF SalesIInv, JobRight
  <2> QED
    BY <1>2, <1>3, <2>1 DEF JobRight
<1>5. \A x \in Customers : TellsRight(jobs[x])'
  <2>1. ASSUME NEW k \in JobRows, TellsRight(k)
        PROVE  TellsRight(k)'
    BY <2>1 DEF TellsRight, OrderStays, Made
  <2>2. \A x \in Customers : TellsRight(jobs[x])' \/ x # c
    BY <1>2
  <2>3. \A x \in Customers \ {c} : TellsRight(jobs[x])
    BY <1>2 DEF SalesIInv
  <2> QED
    BY <1>2, <2>1, <2>2, <2>3
<1>6. price' \in [Offers -> Nat] /\ call' = call
  BY <1>t, <1>3 DEF SalesTypes
<1> QED
  BY <1>t, <1>2, <1>3, <1>4, <1>5, <1>6, SalesKeep DEF SalesTypes

\* Steps that leave the orders alone.
LEMMA QuietOrders ==
    ASSUME SalesIInv, UNCHANGED <<sale, told, had, unsold, crossed>>
    PROVE  /\ sale' \in [Sales -> SoldRows] /\ told' \in [Sales -> Nat]
           /\ had' \in [Sales -> SUBSET Nat]
           /\ \A s \in Sales : OrderStays(s) /\ SaleRight(s)'
<1>1. \A s \in Sales : SaleRight(s)'
  BY DEF SalesIInv, SaleRight, Made
<1>2. \A s \in Sales : OrderStays(s)
  BY DEF OrderStays, Made
<1>3. sale \in [Sales -> SoldRows] /\ told \in [Sales -> Nat] /\ had \in [Sales -> SUBSET Nat]
  BY DEF SalesIInv, SalesTypes
<1> QED
  BY <1>1, <1>2, <1>3

\* The plan and its prices change.
LEMMA AdminKeep ==
    ASSUME SalesIInv, P!AdminKeeps, price' \in [Offers -> Nat],
           call' \in [Workers -> [pc : {"idle", "tx"}, on : {"keep", "on", "off"},
                                  price : [Offers -> Nat] \cup {None},
                                  rows : SUBSET Offers]]
    PROVE  SalesIInv'
<1>t. SalesTypes
  BY DEF SalesIInv
<1>1. /\ job' = P!Witness(job) /\ UNCHANGED <<sale, told, unsold, crossed>>
      /\ had' = [s \in Sales |-> IF sale[s].status \in {"none", "over"} THEN had[s]
                                 ELSE had[s] \cup ({price'[sale[s].period]} \ {0})]
  BY DEF P!AdminKeeps, P!WitnessSales
<1>2. ASSUME NEW s \in Sales
      PROVE  had'[s] \in SUBSET Nat /\ had[s] \subseteq had'[s]
  <2>1. had[s] \in SUBSET Nat /\ sale[s] \in SoldRows
    BY <1>t DEF SalesTypes
  <2>2. sale[s].status \notin {"none", "over"} => price'[sale[s].period] \in Nat
    BY DEF SalesIInv, SaleRight, Made
  <2> QED
    BY <1>1, <2>1, <2>2
<1>3. had' \in [Sales -> SUBSET Nat]
  BY <1>1, <1>2
<1>4. \A s \in Sales : SaleRight(s)'
  BY <1>1, <1>2 DEF SalesIInv, SaleRight, Made
<1>5. ASSUME NEW k \in JobRows, TellsRight(k)
      PROVE  TellsRight(k)'
  BY <1>1, <1>2, <1>5 DEF TellsRight, Made
<1>6. PICK jobs : jobs = job
  OBVIOUS
<1>7. \A c \in Customers : /\ TellsRight(jobs[c])'
                           /\ JobRight(jobs[c], {price'[jobs[c].period]} \ {0}, plan')
  <2>1. \A c \in Customers : jobs[c] \in JobRows /\ TellsRight(jobs[c]) /\ JobRight(jobs[c], {}, "off")
    BY <1>t, <1>6 DEF SalesIInv, SalesTypes
  <2>2. \A c \in Customers : TellsRight(jobs[c])'
    BY <1>5, <2>1
  <2>3. \A c \in Customers : JobRight(jobs[c], {price'[jobs[c].period]} \ {0}, plan')
    BY <2>1 DEF JobRight
  <2> QED
    BY <2>2, <2>3
<1>8. sale' \in [Sales -> SoldRows] /\ told' \in [Sales -> Nat]
  BY <1>t, <1>1 DEF SalesTypes
<1>9. jobs \in [Customers -> JobRows] /\ job' = P!Witness(jobs)
  BY <1>t, <1>1, <1>6 DEF SalesTypes
<1> QED
  BY <1>3, <1>4, <1>7, <1>8, <1>9, SalesKeep

\* Steps of a tab that change no row.
LEMMA CallKeeps ==
    ASSUME SalesIInv, UNCHANGED <<price, sale, job, told, had, unsold, crossed>>,
           call' \in [Workers -> [pc : {"idle", "tx"}, on : {"keep", "on", "off"},
                                  price : [Offers -> Nat] \cup {None},
                                  rows : SUBSET Offers]]
    PROVE  SalesIInv'
<1>1. SalesTypes'
  BY DEF SalesIInv, SalesTypes
<1>2. \A c \in Customers : JobRight(job'[c], {}, "off") /\ TellsRight(job[c])'
  BY DEF SalesIInv, TellsRight, Made
<1>3. \A s \in Sales : SaleRight(s)'
  BY DEF SalesIInv, SaleRight, Made
<1> QED
  BY <1>1, <1>2, <1>3 DEF SalesIInv

\* The tabs of the panel.
LEMMA TabSteps ==
    ASSUME SalesIInv
    PROVE  /\ \A t \in Workers : \A form \in P!Forms : P!SavePrices(t, form) => SalesIInv'
           /\ \A t \in Workers : \A on \in {"on", "off"} : P!Toggle(t, on) => SalesIInv'
           /\ \A t \in Workers : P!WritePlan(t) => SalesIInv'
           /\ \A t \in Workers : P!LoseCall(t) => SalesIInv'
           /\ P!Bootstrap => SalesIInv'
<1> DEFINE Rows == [pc : {"idle", "tx"}, on : {"keep", "on", "off"},
                    price : [Offers -> Nat] \cup {None}, rows : SUBSET Offers]
<1>t. SalesTypes
  BY DEF SalesIInv
<1>c. call \in [Workers -> Rows] /\ price \in [Offers -> Nat]
  BY <1>t DEF SalesTypes
<1>n. P!NoCall \in Rows
  BY DEF P!NoCall
<1>s. ASSUME NEW t \in Workers, NEW r \in Rows, P!CallStep(t, r)
      PROVE  call' \in [Workers -> Rows]
  <2>1. call' = [call EXCEPT ![t] = r]
    BY <1>s DEF P!CallStep
  <2> HIDE DEF Rows
  <2> QED
    BY <1>c, <1>s, <2>1
<1>1. ASSUME NEW t \in Workers, NEW form \in P!Forms, P!SavePrices(t, form)
      PROVE  SalesIInv'
  <2> DEFINE r == [P!NoCall EXCEPT !.pc = "tx", !.price = form,
                                   !.rows = P!Priced(form) \cap P!Priced(price)]
  <2>1. form \in [Offers -> Nat]
    <3>1. form \in [Offers -> 0 .. MaxAmount]
      BY DEF P!Forms, P!PriceRows
    <3>2. 0 .. MaxAmount \subseteq Nat
      BY SalesAssumption DEF P!PlanSalesAssumption
    <3> QED
      BY <3>1, <3>2
  <2>2. r \in Rows
    BY <2>1 DEF P!NoCall, P!Priced
  <2>3. P!CallStep(t, r)
    BY <1>1 DEF P!SavePrices
  <2>4. UNCHANGED <<price, sale, job, told, had, unsold, crossed>>
    BY <1>1 DEF P!SavePrices
  <2> QED
    BY <1>s, <2>2, <2>3, <2>4, CallKeeps
<1>2. ASSUME NEW t \in Workers, NEW on \in {"on", "off"}, P!Toggle(t, on)
      PROVE  SalesIInv'
  <2> DEFINE r == [P!NoCall EXCEPT !.pc = "tx", !.on = on]
  <2>1. r \in Rows
    BY DEF P!NoCall
  <2>2. P!CallStep(t, r) /\ UNCHANGED <<price, sale, job, told, had, unsold, crossed>>
    BY <1>2 DEF P!Toggle
  <2> QED
    BY <1>s, <2>1, <2>2, CallKeeps
<1>3. ASSUME NEW t \in Workers, P!WritePlan(t)
      PROVE  SalesIInv'
  <2>1. P!CallStep(t, P!NoCall) /\ P!AdminKeeps
    BY <1>3 DEF P!WritePlan
  <2>2. price' \in [Offers -> Nat]
    <3>1. \A p \in P!Sent(t) : p \in Offers => call[t].price[p] \in Nat
      <4>1. call[t].price \in [Offers -> Nat] \cup {None}
        BY <1>c
      <4> QED
        BY <4>1 DEF P!Sent
    <3>2. \/ price' = price
          \/ price' = [p \in Offers |-> IF p \in P!Sent(t) THEN call[t].price[p]
                                        ELSE price[p]]
      BY <1>3 DEF P!WritePlan
    <3> QED
      BY <1>c, <3>1, <3>2
  <2> QED
    BY <1>s, <1>n, <2>1, <2>2, AdminKeep
<1>4. ASSUME NEW t \in Workers, P!LoseCall(t)
      PROVE  SalesIInv'
  <2>1. P!CallStep(t, P!NoCall) /\ UNCHANGED <<price, sale, job, told, had, unsold, crossed>>
    BY <1>4 DEF P!LoseCall
  <2> QED
    BY <1>s, <1>n, <2>1, CallKeeps
<1>5. ASSUME P!Bootstrap
      PROVE  SalesIInv'
  BY <1>c, <1>5, AdminKeep DEF P!Bootstrap
<1> QED
  BY <1>1, <1>2, <1>3, <1>4, <1>5

\* A customer buys: the prices are read and the order is found.
LEMMA ReadSteps ==
    ASSUME SalesIInv, NEW c \in Customers
    PROVE  /\ \A p \in Offers : P!PressDuration(c, p) => SalesIInv'
           /\ P!ReadQuote(c) => SalesIInv'
           /\ P!CheckAvailable(c) => SalesIInv'
           /\ P!ReadPrice(c) => SalesIInv'
           /\ P!Abandon(c) => SalesIInv'
<1>t. SalesTypes
  BY DEF SalesIInv
<1>j. job[c] \in JobRows /\ JobRight(job[c], {}, "off") /\ TellsRight(job[c])
  BY <1>t DEF SalesIInv, SalesTypes
<1>i. /\ P!Idle \in JobRows /\ JobRight(P!Idle, {price[P!Idle.period]} \ {0}, plan)
      /\ TellsRight(P!Idle)'
  BY IdleJob DEF JobRight, TellsRight, Buying
<1>k. ASSUME NEW j \in JobRows, P!Work(c, j), P!ShopKeeps,
             UNCHANGED <<sale, told, had, unsold, crossed>>, j.pc \in Buying \cup {"idle"},
             JobRight(j, {price[j.period]} \ {0}, plan)
      PROVE  SalesIInv'
  <2>1. TellsRight(j)'
    BY <1>k DEF TellsRight, Buying
  <2> QED
    BY <1>k, <2>1, QuietOrders, WorkKeeps
<1>1. ASSUME NEW p \in Offers, P!PressDuration(c, p)
      PROVE  SalesIInv'
  <2> DEFINE j == [P!Idle EXCEPT !.pc = "quote", !.period = p]
  <2>1. /\ plan = "on" /\ P!ShopKeeps /\ UNCHANGED <<sale, told, had, unsold, crossed>>
        /\ P!Work(c, j)
    BY <1>1 DEF P!PressDuration, P!Available
  <2>2. j \in JobRows /\ j.pc = "quote" /\ j.sale = None /\ j.period = p
    BY DEF P!Idle, JobRows, Buying
  <2> HIDE DEF j
  <2>3. JobRight(j, {price[j.period]} \ {0}, plan)
    BY <2>1, <2>2 DEF JobRight, Buying
  <2> QED
    BY <1>k, <2>1, <2>2, <2>3 DEF Buying
<1>a. ASSUME P!ShopKeeps, UNCHANGED <<sale, told, had, unsold, crossed>>, P!Work(c, P!Idle)
      PROVE  SalesIInv'
  BY <1>a, <1>i, <1>k, IdleJob
<1>w. PICK w \in JobRows : w = job[c]
  BY <1>j
<1>v. JobRight(w, {}, "off") /\ (w.period \in Offers => price[w.period] \in Nat)
  BY <1>j, <1>w, <1>t DEF SalesTypes
<1>2. ASSUME P!ReadQuote(c)
      PROVE  SalesIInv'
  <2>1. /\ w.pc = "quote" /\ P!ShopKeeps /\ UNCHANGED <<sale, told, had, unsold, crossed>>
    BY <1>2, <1>w DEF P!ReadQuote, P!At
  <2>2. w.period \in Offers /\ w.sale = None /\ w.on
    BY <1>v, <2>1 DEF JobRight, Buying
  <2>3. CASE P!Available({w.period})
    <3>1. PICK q \in Nat : q = price[w.period] /\ q # 0
      BY <1>v, <2>2, <2>3 DEF P!Available
    <3> DEFINE j == [w EXCEPT !.pc = "cancel", !.quote = q]
    <3>2. P!Work(c, j)
      BY <1>2, <1>w, <2>3, <3>1 DEF P!ReadQuote
    <3>3. /\ j \in JobRows /\ j.pc = "cancel" /\ j.sale = w.sale /\ j.period = w.period
          /\ j.on = w.on /\ j.quote = q
      BY DEF JobRows, Buying
    <3> HIDE DEF j
    <3>4. JobRight(j, {price[j.period]} \ {0}, plan)
      BY <2>2, <3>1, <3>3 DEF JobRight, Buying
    <3> QED
      BY <1>k, <2>1, <3>2, <3>3, <3>4 DEF Buying
  <2>4. CASE ~P!Available({w.period})
    BY <1>2, <1>a, <1>w, <2>1, <2>4 DEF P!ReadQuote
  <2> QED
    BY <2>3, <2>4
<1>3. ASSUME P!CheckAvailable(c)
      PROVE  SalesIInv'
  <2>1. w.pc = "available" /\ P!ShopKeeps /\ UNCHANGED <<sale, told, had, unsold, crossed>>
    BY <1>3, <1>w DEF P!CheckAvailable, P!At
  <2> DEFINE j == [w EXCEPT !.pc = "price"]
  <2>2. P!Work(c, j) \/ P!Work(c, P!Idle)
    BY <1>3, <1>w DEF P!CheckAvailable, P!Goto
  <2>3. /\ j \in JobRows /\ j.pc = "price" /\ j.sale = w.sale /\ j.period = w.period
        /\ j.on = w.on /\ j.quote = w.quote /\ j.had = w.had
    BY DEF JobRows, Buying
  <2> HIDE DEF j
  <2>4. JobRight(j, {price[j.period]} \ {0}, plan)
    BY <1>v, <2>1, <2>3 DEF JobRight, Buying
  <2> QED
    BY <1>a, <1>k, <2>1, <2>2, <2>3, <2>4 DEF Buying
<1>4. ASSUME P!ReadPrice(c)
      PROVE  SalesIInv'
  <2>1. w.pc = "price" /\ P!ShopKeeps /\ UNCHANGED <<sale, told, had, unsold, crossed>>
    BY <1>4, <1>w DEF P!ReadPrice, P!At
  <2>2. CASE P!Work(c, P!Idle)
    BY <1>a, <2>1, <2>2
  <2>3. ASSUME NEW a \in {price[w.period]} \ {0},
               P!Work(c, [w EXCEPT !.pc = "create", !.amount = a])
        PROVE  SalesIInv'
    <3> DEFINE j == [w EXCEPT !.pc = "create", !.amount = a]
    <3>1. a \in Nat
      BY <1>v, <2>1 DEF JobRight, Buying
    <3>2. /\ j \in JobRows /\ j.pc = "create" /\ j.sale = w.sale /\ j.period = w.period
          /\ j.on = w.on /\ j.quote = w.quote /\ j.had = w.had /\ j.amount = a
      BY <3>1 DEF JobRows, Buying
    <3> HIDE DEF j
    <3>3. JobRight(j, {price[j.period]} \ {0}, plan)
      BY <1>v, <2>1, <3>2 DEF JobRight, Buying
    <3>4. P!Work(c, j)
      BY <2>3 DEF j
    <3> QED
      BY <1>k, <2>1, <3>2, <3>3, <3>4 DEF Buying
  <2> QED
    BY <1>4, <1>w, <2>2, <2>3 DEF P!ReadPrice, P!PriceOf
<1>5. ASSUME P!Abandon(c)
      PROVE  SalesIInv'
  BY <1>5, <1>a DEF P!Abandon
<1> QED
  BY <1>1, <1>2, <1>3, <1>4, <1>5

\* The order that the request has is one of those made, and has been found or made
\* with the prices the request has seen.
LEMMA OrderSteps ==
    ASSUME SalesIInv, NEW c \in Customers
    PROVE  /\ P!CancelOthers(c) => SalesIInv'
           /\ P!FindPending(c) => SalesIInv'
           /\ \A s \in Sales : P!CreateSale(c, s) => SalesIInv'
<1>t. SalesTypes
  BY DEF SalesIInv
<1>w. PICK w \in JobRows : w = job[c]
  BY <1>t DEF SalesTypes
<1>v. JobRight(w, {}, "off") /\ (w.period \in Offers => price[w.period] \in Nat)
  BY <1>t, <1>w DEF SalesTypes, SalesIInv
<1>s. \A s \in Sales : SaleRight(s) /\ sale[s] \in SoldRows /\ had[s] \in SUBSET Nat
  BY <1>t DEF SalesIInv, SalesTypes
<1>y. /\ sale \in [Sales -> SoldRows] /\ told \in [Sales -> Nat]
      /\ had \in [Sales -> SUBSET Nat]
  BY <1>t DEF SalesTypes
<1>1. ASSUME P!CancelOthers(c)
      PROVE  SalesIInv'
  <2>1. /\ w.pc = "cancel" /\ P!ShopKeeps /\ UNCHANGED <<told, had, unsold, crossed>>
        /\ sale' = [s \in Sales |-> IF P!Pending(s) /\ sale[s].period # w.period
                                    THEN [sale[s] EXCEPT !.status = "over"] ELSE sale[s]]
        /\ P!Work(c, [w EXCEPT !.pc = "find"])
    BY <1>1, <1>w DEF P!CancelOthers, P!At, P!Goto
  <2> DEFINE j == [w EXCEPT !.pc = "find"]
  <2>2. /\ j \in JobRows /\ j.pc = "find" /\ j.sale = w.sale /\ j.period = w.period
        /\ j.on = w.on /\ j.quote = w.quote /\ j.had = w.had
    BY DEF JobRows, Buying
  <2>3. P!Work(c, j)
    BY <2>1
  <2> HIDE DEF j
  <2>4. JobRight(j, {price[j.period]} \ {0}, plan) /\ TellsRight(j)'
    BY <1>v, <2>1, <2>2 DEF JobRight, TellsRight, Buying
  <2>5. ASSUME NEW s \in Sales
        PROVE  /\ sale'[s] \in SoldRows /\ sale'[s].amount = sale[s].amount
               /\ sale'[s].period = sale[s].period
               /\ sale[s].status # "none" <=> sale'[s].status # "none"
    BY <1>s, <2>1 DEF SoldRows, P!Pending
  <2>6. sale' \in [Sales -> SoldRows]
    BY <2>1, <2>5
  <2>7. \A s \in Sales : OrderStays(s) /\ SaleRight(s)'
    BY <1>s, <2>1, <2>5 DEF OrderStays, SaleRight, Made
  <2> QED
    BY <1>y, <2>1, <2>2, <2>3, <2>4, <2>6, <2>7, WorkKeeps
\* The update has the order s, which has had the prices it knows of.
<1>k. ASSUME NEW s \in Sales, P!Take(c, s), P!ShopKeeps, Made(s)',
             w.quote \in had'[s],
             sale' \in [Sales -> SoldRows], told' \in [Sales -> Nat],
             had' \in [Sales -> SUBSET Nat],
             \A x \in Sales : OrderStays(x) /\ SaleRight(x)'
      PROVE  SalesIInv'
  <2> DEFINE j == [P!Idle EXCEPT !.pc = "reset", !.quote = w.quote, !.sale = s]
  <2>1. P!Work(c, j)
    BY <1>k, <1>w DEF P!Take
  <2>2. j \in JobRows /\ j.pc = "reset" /\ j.sale = s /\ j.quote = w.quote
    BY DEF P!Idle, JobRows, Buying
  <2> HIDE DEF j
  <2>3. JobRight(j, {price[j.period]} \ {0}, plan) /\ TellsRight(j)'
    BY <1>k, <2>2 DEF JobRight, TellsRight, Buying
  <2> QED
    BY <1>k, <2>1, <2>2, <2>3, WorkKeeps
<1>2. ASSUME P!FindPending(c)
      PROVE  SalesIInv'
  <2>1. w.pc = "find" /\ P!ShopKeeps /\ UNCHANGED <<sale, told, unsold, crossed>>
    BY <1>2, <1>w DEF P!FindPending, P!At
  <2>2. ASSUME P!Goto(c, "available"), UNCHANGED had
        PROVE  SalesIInv'
    <3> DEFINE j == [w EXCEPT !.pc = "available"]
    <3>1. P!Work(c, j)
      BY <1>w, <2>2 DEF P!Goto
    <3>2. /\ j \in JobRows /\ j.pc = "available" /\ j.sale = w.sale /\ j.period = w.period
          /\ j.on = w.on /\ j.quote = w.quote /\ j.had = w.had
      BY DEF JobRows, Buying
    <3> HIDE DEF j
    <3>3. JobRight(j, {price[j.period]} \ {0}, plan) /\ TellsRight(j)'
      BY <1>v, <2>1, <3>2 DEF JobRight, TellsRight, Buying
    <3> QED
      BY <2>1, <2>2, <3>1, <3>2, <3>3, QuietOrders, WorkKeeps
  <2>3. ASSUME NEW s \in Sales, P!Pending(s), P!Take(c, s),
               had' = [had EXCEPT ![s] = @ \cup job[c].had]
        PROVE  SalesIInv'
    <3>1. w.had \in SUBSET Nat /\ w.quote \in w.had
      BY <1>v, <2>1 DEF JobRight, Buying, JobRows
    <3>2. /\ had' \in [Sales -> SUBSET Nat] /\ w.quote \in had'[s]
          /\ \A x \in Sales : had[x] \subseteq had'[x]
      BY <1>w, <1>y, <2>3, <3>1
    <3>3. Made(s)'
      BY <2>1, <2>3 DEF Made, P!Pending
    <3>4. \A x \in Sales : OrderStays(x) /\ SaleRight(x)'
      BY <1>s, <2>1, <3>2 DEF OrderStays, SaleRight, Made
    <3> QED
      BY <1>k, <1>y, <2>1, <2>3, <3>2, <3>3, <3>4
  <2> QED
    BY <1>2, <2>2, <2>3 DEF P!FindPending
<1>3. ASSUME NEW s \in Sales, P!CreateSale(c, s)
      PROVE  SalesIInv'
  <2>1. /\ w.pc = "create" /\ P!ShopKeeps /\ UNCHANGED <<told, crossed>> /\ P!Take(c, s)
        /\ sale[s].status = "none"
        /\ sale' = [sale EXCEPT ![s] = [status |-> "PENDING", period |-> w.period,
                                        amount |-> w.amount]]
        /\ had' = [had EXCEPT ![s] = w.had] /\ unsold' = IF w.on THEN unsold ELSE unsold \cup {s}
    BY <1>3, <1>w DEF P!CreateSale, P!At
  <2>2. w.period \in Offers /\ w.on /\ w.quote \in w.had /\ w.amount \in w.had
    BY <1>v, <2>1 DEF JobRight, Buying
  <2>3. w.had \in SUBSET Nat /\ w.amount \in Nat
    BY DEF JobRows
  <2> DEFINE row == [status |-> "PENDING", period |-> w.period, amount |-> w.amount]
  <2>4. row \in SoldRows /\ row.status = "PENDING" /\ row.period \in Offers
        /\ row.amount = w.amount
    BY <2>2, <2>3 DEF SoldRows
  <2>5. sale' = [sale EXCEPT ![s] = row]
    BY <2>1
  <2> HIDE DEF row
  <2>6. /\ sale' \in [Sales -> SoldRows] /\ sale'[s] = row
        /\ \A x \in Sales \ {s} : sale'[x] = sale[x]
    BY <1>y, <2>4, <2>5
  <2>7. /\ had' \in [Sales -> SUBSET Nat] /\ had'[s] = w.had
        /\ \A x \in Sales \ {s} : had'[x] = had[x]
    BY <1>y, <2>1, <2>3
  <2>8. told[s] = 0 /\ s \notin unsold
    BY <1>s, <2>1 DEF SaleRight, Made
  <2>9. ASSUME NEW x \in Sales
        PROVE  OrderStays(x)
    <3>1. CASE x = s
      BY <2>1, <3>1 DEF OrderStays, Made
    <3>2. CASE x # s
      BY <2>6, <2>7, <3>2 DEF OrderStays, Made
    <3> QED
      BY <3>1, <3>2
  <2>10. ASSUME NEW x \in Sales \ {s}
         PROVE  SaleRight(x)'
    BY <1>s, <2>1, <2>2, <2>6, <2>7 DEF SaleRight, Made
  <2>11. SaleRight(s)'
    BY <2>1, <2>2, <2>4, <2>6, <2>7, <2>8 DEF SaleRight, Made
  <2>12. Made(s)'
    BY <2>4, <2>6 DEF Made
  <2> QED
    BY <1>k, <1>y, <2>1, <2>2, <2>6, <2>7, <2>9, <2>10, <2>11, <2>12
<1> QED
  BY <1>1, <1>2, <1>3

\* The customer is told what to pay.
LEMMA TellSteps ==
    ASSUME SalesIInv, NEW c \in Customers
    PROVE  /\ P!ResetSale(c) => SalesIInv'
           /\ P!TellSummary(c) => SalesIInv'
           /\ \A s \in Sales : P!ChooseMethod(c, s) => SalesIInv'
           /\ P!AttachMethod(c) => SalesIInv'
<1>t. SalesTypes
  BY DEF SalesIInv
<1>w. PICK w \in JobRows : w = job[c]
  BY <1>t DEF SalesTypes
<1>v. TellsRight(w)
  BY <1>w DEF SalesIInv
<1>s. \A s \in Sales : SaleRight(s) /\ sale[s] \in SoldRows /\ had[s] \in SUBSET Nat
  BY <1>t DEF SalesIInv, SalesTypes
<1>y. /\ sale \in [Sales -> SoldRows] /\ told \in [Sales -> Nat]
      /\ had \in [Sales -> SUBSET Nat]
  BY <1>t DEF SalesTypes
\* The status of one order changes, and it is not undone.
<1>a. ASSUME NEW s \in Sales, NEW st \in {"PENDING", "AWAITING", "REVIEW", "over"},
             Made(s), sale' = [sale EXCEPT ![s].status = st]
      PROVE  /\ sale' \in [Sales -> SoldRows]
             /\ \A x \in Sales : /\ sale'[x].amount = sale[x].amount
                                 /\ sale'[x].period = sale[x].period
                                 /\ Made(x)' <=> Made(x)
  <2>1. ASSUME NEW x \in Sales
        PROVE  /\ sale'[x] \in SoldRows /\ sale'[x].amount = sale[x].amount
               /\ sale'[x].period = sale[x].period
               /\ Made(x)' <=> Made(x)
    <3>1. CASE x = s
      BY <1>a, <1>s, <1>y, <3>1 DEF SoldRows, Made
    <3>2. CASE x # s
      BY <1>a, <1>s, <1>y, <3>2 DEF Made
    <3> QED
      BY <3>1, <3>2
  <2> QED
    BY <1>a, <1>y, <2>1
<1>i. ASSUME P!Work(c, P!Idle), P!ShopKeeps, sale' \in [Sales -> SoldRows],
             told' \in [Sales -> Nat], UNCHANGED had,
             \A x \in Sales : OrderStays(x) /\ SaleRight(x)'
      PROVE  SalesIInv'
  <2>1. JobRight(P!Idle, {price[P!Idle.period]} \ {0}, plan) /\ TellsRight(P!Idle)'
    BY IdleJob DEF JobRight, TellsRight, Buying
  <2> QED
    BY <1>i, <1>y, <2>1, IdleJob, WorkKeeps
<1>1. ASSUME P!ResetSale(c)
      PROVE  SalesIInv'
  <2>1. /\ w.pc = "reset" /\ P!ShopKeeps /\ UNCHANGED <<told, had, unsold, crossed>>
        /\ P!Work(c, [w EXCEPT !.pc = "tell"])
        /\ sale' = [sale EXCEPT ![w.sale].status = IF @ = "AWAITING" THEN "PENDING" ELSE @]
    BY <1>1, <1>w DEF P!ResetSale, P!At, P!Goto
  <2>2. w.sale \in Sales /\ Made(w.sale) /\ w.quote \in had[w.sale]
    BY <1>v, <2>1 DEF TellsRight
  <2>3. PICK st \in {"PENDING", "AWAITING", "REVIEW", "over"} :
          st = IF sale[w.sale].status = "AWAITING" THEN "PENDING" ELSE sale[w.sale].status
    BY <1>s, <2>2 DEF Made, SoldRows
  <2>4. sale' = [sale EXCEPT ![w.sale].status = st]
    BY <2>1, <2>3
  <2>5. /\ sale' \in [Sales -> SoldRows]
        /\ \A x \in Sales : /\ sale'[x].amount = sale[x].amount
                            /\ sale'[x].period = sale[x].period
                            /\ Made(x)' <=> Made(x)
    BY <1>a, <2>2, <2>4
  <2> DEFINE j == [w EXCEPT !.pc = "tell"]
  <2>6. j \in JobRows /\ j.pc = "tell" /\ j.sale = w.sale /\ j.quote = w.quote
    BY DEF JobRows, Buying
  <2>7. P!Work(c, j)
    BY <2>1
  <2> HIDE DEF j
  <2>8. JobRight(j, {price[j.period]} \ {0}, plan) /\ TellsRight(j)'
    BY <2>1, <2>2, <2>5, <2>6 DEF JobRight, TellsRight, Buying
  <2>9. \A x \in Sales : OrderStays(x) /\ SaleRight(x)'
    BY <1>s, <2>1, <2>5 DEF OrderStays, SaleRight, Made
  <2> QED
    BY <1>y, <2>1, <2>5, <2>6, <2>7, <2>8, <2>9, WorkKeeps
<1>2. ASSUME P!TellSummary(c)
      PROVE  SalesIInv'
  <2>1. w.pc = "tell" /\ P!ShopKeeps /\ UNCHANGED <<had, unsold>> /\ P!Work(c, P!Idle)
    BY <1>2, <1>w DEF P!TellSummary, P!At
  <2>2. w.sale \in Sales /\ Made(w.sale) /\ w.quote \in had[w.sale] /\ w.quote \in Nat
    BY <1>v, <2>1 DEF TellsRight, JobRows
  <2>3. CASE told' = [told EXCEPT ![w.sale] = w.quote] /\ UNCHANGED <<sale, crossed>>
    <3>1. told' \in [Sales -> Nat] /\ told'[w.sale] = w.quote
          /\ \A x \in Sales \ {w.sale} : told'[x] = told[x]
      BY <1>y, <2>2, <2>3
    <3>2. \A x \in Sales : OrderStays(x)
      BY <2>1, <2>3 DEF OrderStays, Made
    <3>3. \A x \in Sales : SaleRight(x)'
      BY <1>s, <2>1, <2>2, <2>3, <3>1 DEF SaleRight, Made
    <3> QED
      BY <1>i, <1>y, <2>1, <2>3, <3>1, <3>2, <3>3
  <2>4. ASSUME NEW s \in Sales, P!Pending(s), sale' = [sale EXCEPT ![s].status = "AWAITING"],
               told' = [told EXCEPT ![s] = w.quote],
               crossed' = crossed \cup ({s} \ {w.sale})
        PROVE  SalesIInv'
    <3>1. /\ told' \in [Sales -> Nat] /\ told'[s] = w.quote
          /\ \A x \in Sales \ {s} : told'[x] = told[x]
      BY <1>y, <2>2, <2>4
    <3>2. Made(s)
      BY <2>4 DEF P!Pending, Made
    <3>3. /\ sale' \in [Sales -> SoldRows]
          /\ \A x \in Sales : /\ sale'[x].amount = sale[x].amount
                              /\ sale'[x].period = sale[x].period
                              /\ Made(x)' <=> Made(x)
      BY <1>a, <2>4, <3>2
    <3>4. \A x \in Sales : OrderStays(x)
      BY <2>1, <3>3 DEF OrderStays, Made
    <3>5. ASSUME NEW x \in Sales \ {s}
          PROVE  SaleRight(x)'
      BY <1>s, <2>1, <2>4, <3>1, <3>3 DEF SaleRight, Made
    <3>6. SaleRight(s)'
      <4>1. s \notin crossed' => s = w.sale
        BY <2>4
      <4> QED
        BY <1>s, <2>1, <2>2, <3>1, <3>2, <3>3, <4>1 DEF SaleRight, Made
    <3> QED
      BY <1>i, <2>1, <3>1, <3>3, <3>4, <3>5, <3>6
  <2> QED
    BY <1>2, <1>w, <2>3, <2>4 DEF P!TellSummary
<1>3. ASSUME NEW s \in Sales, P!ChooseMethod(c, s)
      PROVE  SalesIInv'
  <2>1. /\ P!Pending(s) /\ P!ShopKeeps /\ UNCHANGED <<sale, told, had, unsold, crossed>>
        /\ P!Work(c, [P!Idle EXCEPT !.pc = "attach", !.sale = s, !.amount = sale[s].amount])
    BY <1>3 DEF P!ChooseMethod
  <2>2. PICK a \in Nat : a = sale[s].amount
    BY <1>s DEF SoldRows
  <2> DEFINE j == [P!Idle EXCEPT !.pc = "attach", !.sale = s, !.amount = a]
  <2>3. j \in JobRows /\ j.pc = "attach" /\ j.sale = s /\ j.amount = a
    BY DEF P!Idle, JobRows, Buying
  <2>4. P!Work(c, j)
    BY <2>1, <2>2
  <2> HIDE DEF j
  <2>5. JobRight(j, {price[j.period]} \ {0}, plan) /\ TellsRight(j)'
    BY <2>1, <2>2, <2>3 DEF JobRight, TellsRight, Buying, P!Pending, Made
  <2> QED
    BY <2>1, <2>3, <2>4, <2>5, QuietOrders, WorkKeeps
<1>4. ASSUME P!AttachMethod(c)
      PROVE  SalesIInv'
  <2>1. /\ w.pc = "attach" /\ P!ShopKeeps /\ UNCHANGED <<had, unsold, crossed>>
        /\ P!Work(c, P!Idle) /\ told' = [told EXCEPT ![w.sale] = w.amount]
        /\ sale' = [sale EXCEPT ![w.sale].status = IF @ = "PENDING" THEN "AWAITING" ELSE @]
    BY <1>4, <1>w DEF P!AttachMethod, P!At
  <2>2. w.sale \in Sales /\ Made(w.sale) /\ w.amount = sale[w.sale].amount /\ w.amount \in Nat
    BY <1>v, <2>1 DEF TellsRight, JobRows
  <2>3. PICK st \in {"PENDING", "AWAITING", "REVIEW", "over"} :
          st = IF sale[w.sale].status = "PENDING" THEN "AWAITING" ELSE sale[w.sale].status
    BY <1>s, <2>2 DEF Made, SoldRows
  <2>4. sale' = [sale EXCEPT ![w.sale].status = st]
    BY <2>1, <2>3
  <2>5. /\ sale' \in [Sales -> SoldRows]
        /\ \A x \in Sales : /\ sale'[x].amount = sale[x].amount
                            /\ sale'[x].period = sale[x].period
                            /\ Made(x)' <=> Made(x)
    BY <1>a, <2>2, <2>4
  <2>6. /\ told' \in [Sales -> Nat] /\ told'[w.sale] = w.amount
        /\ \A x \in Sales \ {w.sale} : told'[x] = told[x]
    BY <1>y, <2>1, <2>2
  <2>7. \A x \in Sales : OrderStays(x)
    BY <2>1, <2>5 DEF OrderStays, Made
  <2>8. ASSUME NEW x \in Sales
        PROVE  SaleRight(x)'
    BY <1>s, <2>1, <2>2, <2>5, <2>6 DEF SaleRight, Made
  <2> QED
    BY <1>i, <2>1, <2>5, <2>6, <2>7, <2>8
<1> QED
  BY <1>1, <1>2, <1>3, <1>4

\* The receipt and the end of an order.
LEMMA EndSteps ==
    ASSUME SalesIInv, NEW s \in Sales
    PROVE  /\ P!SubmitReceipt(s) => SalesIInv'
           /\ P!EndSale(s) => SalesIInv'
<1>t. SalesTypes
  BY DEF SalesIInv
<1>1. ASSUME NEW st \in {"REVIEW", "over"}, sale[s].status # "none",
             sale' = [sale EXCEPT ![s].status = st], P!ShopKeeps,
             UNCHANGED <<job, told, had, unsold, crossed>>
      PROVE  SalesIInv'
  <2>1. ASSUME NEW x \in Sales
        PROVE  /\ sale'[x] \in SoldRows /\ sale'[x].amount = sale[x].amount
               /\ sale'[x].period = sale[x].period
               /\ Made(x)' <=> Made(x)
    <3>1. sale \in [Sales -> SoldRows] /\ sale[x] \in SoldRows
      BY <1>t DEF SalesTypes
    <3>2. CASE x = s
      BY <1>1, <3>1, <3>2 DEF SoldRows, Made
    <3>3. CASE x # s
      BY <1>1, <3>1, <3>3 DEF Made
    <3> QED
      BY <3>2, <3>3
  <2>2. sale' \in [Sales -> SoldRows]
    BY <1>t, <1>1, <2>1 DEF SalesTypes
  <2>3. SalesTypes'
    BY <1>t, <1>1, <2>2 DEF SalesTypes, P!ShopKeeps
  <2>4. \A c \in Customers : JobRight(job'[c], {}, "off") /\ TellsRight(job[c])'
    BY <1>1, <2>1 DEF SalesIInv, TellsRight, Made
  <2>5. \A x \in Sales : SaleRight(x)'
    BY <1>1, <2>1 DEF SalesIInv, SaleRight, Made
  <2> QED
    BY <2>3, <2>4, <2>5 DEF SalesIInv
<1>2. ASSUME P!SubmitReceipt(s)
      PROVE  SalesIInv'
  BY <1>1, <1>2 DEF P!SubmitReceipt
<1>3. ASSUME P!EndSale(s)
      PROVE  SalesIInv'
  BY <1>1, <1>3 DEF P!EndSale
<1> QED
  BY <1>2, <1>3

\* No order is made at first, and every price is of the type.
LEMMA SalesStart ==
    ASSUME P!SalesInit
    PROVE  SalesIInv
<1>1. price \in [Offers -> Nat]
  BY DEF P!SalesInit
<1>2. call \in [Workers -> [pc : {"idle", "tx"}, on : {"keep", "on", "off"},
                            price : [Offers -> Nat] \cup {None}, rows : SUBSET Offers]]
  BY DEF P!SalesInit, P!NoCall
<1>3. sale \in [Sales -> SoldRows] /\ told \in [Sales -> Nat] /\ had \in [Sales -> SUBSET Nat]
  BY DEF P!SalesInit, P!NoSale, SoldRows
<1>4. job \in [Customers -> JobRows] /\ \A c \in Customers : job[c] = P!Idle
  BY IdleJob DEF P!SalesInit
<1>5. \A c \in Customers : JobRight(job[c], {}, "off") /\ TellsRight(job[c])
  BY <1>4, IdleJob DEF JobRight, TellsRight, Buying
<1>6. \A s \in Sales : SaleRight(s)
  BY DEF P!SalesInit, P!NoSale, SaleRight, Made
<1> QED
  BY <1>1, <1>2, <1>3, <1>4, <1>5, <1>6 DEF SalesIInv, SalesTypes

LEMMA SalesStutter ==
    ASSUME SalesIInv, UNCHANGED salesVars
    PROVE  SalesIInv'
BY CallKeeps DEF salesVars, SalesIInv, SalesTypes

\* Whatever the tabs, the updates and the calls that fail do, in whatever order: an
\* order has an amount that its offer had while it was bought, its plan was for sale
\* then, and what a request is going to tell of an order was a price of it.
THEOREM SalesInvariance == Shop => []SalesIInv
<1>1. ShopInit => SalesIInv
  BY SalesStart DEF ShopInit
<1>2. ASSUME SalesIInv, P!SalesNext
      PROVE  SalesIInv'
  <2>1. CASE \/ \E t \in Workers, form \in P!Forms : P!SavePrices(t, form)
             \/ \E t \in Workers, on \in {"on", "off"} : P!Toggle(t, on)
             \/ \E t \in Workers : P!WritePlan(t) \/ P!LoseCall(t)
             \/ P!Bootstrap
    BY <1>2, <2>1, TabSteps
  <2>2. CASE \/ \E c \in Customers, p \in Offers : P!PressDuration(c, p)
             \/ \E c \in Customers : \/ P!ReadQuote(c) \/ P!CheckAvailable(c)
                                     \/ P!ReadPrice(c) \/ P!Abandon(c)
    BY <1>2, <2>2, ReadSteps
  <2>3. CASE \/ \E c \in Customers : P!CancelOthers(c) \/ P!FindPending(c)
             \/ \E c \in Customers, s \in Sales : P!CreateSale(c, s)
    BY <1>2, <2>3, OrderSteps
  <2>4. CASE \/ \E c \in Customers : P!ResetSale(c) \/ P!TellSummary(c) \/ P!AttachMethod(c)
             \/ \E c \in Customers, s \in Sales : P!ChooseMethod(c, s)
    BY <1>2, <2>4, TellSteps
  <2>5. CASE \E s \in Sales : P!SubmitReceipt(s) \/ P!EndSale(s)
    BY <1>2, <2>5, EndSteps
  <2> QED
    BY <1>2, <2>1, <2>2, <2>3, <2>4, <2>5 DEF P!SalesNext
<1>3. SalesIInv /\ [ShopNext]_allVars => SalesIInv'
  BY <1>2, SalesStutter DEF ShopNext, allVars
<1> QED
  BY <1>1, <1>3, PTL DEF Shop

\* An order is charged what its offer cost while it was bought, and a customer is told
\* another amount than that only when the price was changed since he asked; told
\* amounts of orders that two updates made at one time are left out.
THEOREM OffersAreKept == Shop => []OfferIsKept
<1>1. SalesIInv => OfferIsKept
  <2> SUFFICES ASSUME SalesIInv
               PROVE  OfferIsKept
    OBVIOUS
  <2>1. P!OrderIsAnOffer
    BY DEF SalesIInv, SaleRight, Made, P!OrderIsAnOffer
  <2>2. P!ToldIsCharged
    BY DEF SalesIInv, SaleRight, Made, P!ToldIsCharged
  <2> QED
    BY <2>1, <2>2 DEF OfferIsKept, P!OfferIsKept
<1> QED
  BY <1>1, SalesInvariance, PTL

=============================================================================
