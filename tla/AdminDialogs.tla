---------------------------- MODULE AdminDialogs ----------------------------
(***************************************************************************)
(* The dialogs an administrator has with the bot: the wizard that rejects  *)
(* a payment with a reason, and the wizard for payment methods.  Both keep *)
(* their place in one row, TelegramBotSession, which a handler reads in    *)
(* one call and writes in a later one.  Telegram delivers the updates of a *)
(* chat without waiting for the answer to the one before, the buttons of   *)
(* old messages stay, and the row may expire at any time.                  *)
(*                                                                         *)
(* Customers, the bot and the panel change the same orders: a receipt, an  *)
(* approval and a rejection each read the order, and write it by its id in *)
(* a later call.                                                           *)
(*                                                                         *)
(* Texts and menus are left out; a session of any other flow (a menu, the  *)
(* creation of a license, an answer to a customer) is NoSession here:      *)
(* these dialogs treat it so.                                              *)
(***************************************************************************)
CONSTANTS
    Orders,   \* the orders that may be rejected
    Reasons,  \* the preset reasons
    Custom,   \* the reason the administrator wrote
    Panel,    \* the reason given in the panel, which the bot does not announce
    Dialogs,  \* bound: how often "add a payment method" is pressed
    Methods,  \* bound: the PaymentMethod rows
    Workers,  \* bound: the updates and requests in progress at one time
    None

\* What the constants are taken to be.
AdminDialogsAssumption ==
    /\ Custom # Panel
    /\ {Custom, Panel, None} \cap (Reasons \cup Orders \cup Dialogs \cup Methods) = {}
    /\ Dialogs \cap Methods = {}

VARIABLES
    session, \* the TelegramBotSession row of the administrator
    order,   \* Order rows
    method,  \* PaymentMethod rows
    req,     \* the updates and requests in progress
    told,    \* history: the reasons each customer was sent
    raced,   \* history: orders that were rejected while another request that had
             \* read them was still to write them
    mixed    \* history: wizards two handlers of which were under way at a time

vars == <<session, order, method, req, told, raced, mixed>>
history == <<told, raced, mixed>>

NoSession == [flow |-> "none", step |-> "none", on |-> None, pick |-> None, has |-> {}]
Idle == [pc |-> "idle", s |-> NoSession]

Statuses == {"PENDING", "UNDER_REVIEW", "CANCELLED", "COMPLETED", "REJECTED"}
\* showReasonSelect: a rejection is not offered any more.
Decided == {"CANCELLED", "COMPLETED", "REJECTED"}
Fields == {"name", "type", "value", "recipient"}

Steps == [none   |-> {"none"},
          reject |-> {"select", "custom", "confirm"},
          method |-> {"name", "type", "value", "recipient", "confirm", "done"}]
Subjects == [none   |-> {None},
             reject |-> Orders,
             method |-> Dialogs \cup Methods]
Picks == Reasons \cup {Custom, Panel, None}

IsSession(s) ==
    \E f \in DOMAIN Steps :
        s \in [flow : {f}, step : Steps[f], on : Subjects[f], pick : Picks,
              has : SUBSET Fields]

OrderRows ==
    [Orders -> [status : Statuses, reason : Reasons \cup {Custom, Panel, None},
                licensed : BOOLEAN]]
MethodRows ==
    [Methods -> [state : {"none", "here", "gone"}, by : Dialogs \cup {None}]]

TypeOK ==
    /\ IsSession(session)
    /\ order \in OrderRows
    /\ method \in MethodRows
    /\ \A w \in Workers :
          /\ req[w].pc \in {"idle", "write", "order", "tx", "receipt", "issue",
                            "complete", "leave", "leaveTell", "tell", "mark", "save",
                            "undo"}
          /\ IsSession(req[w].s)
    /\ told \in [Orders -> SUBSET (Reasons \cup {Custom})]
    /\ raced \subseteq Orders
    /\ mixed \subseteq Dialogs

Init ==
    /\ session = NoSession
    /\ order = [o \in Orders |-> [status |-> "PENDING", reason |-> None,
                                licensed |-> FALSE]]
    /\ method = [x \in Methods |-> [state |-> "none", by |-> None]]
    /\ req = [w \in Workers |-> Idle]
    /\ told = [o \in Orders |-> {}]
    /\ raced = {}
    /\ mixed = {}

-----------------------------------------------------------------------------
\* A definition whose comment begins with "Mutant:" is a wrong version of the
\* definition that follows it.  Nothing uses it: it stands for a bug the
\* properties must notice.

At(w, stage) == req[w].pc = stage
Goto(w, stage) == req' = [req EXCEPT ![w].pc = stage]
Serve(w, stage, s) == req' = [req EXCEPT ![w] = [pc |-> stage, s |-> s]]
Finish(w) == req' = [req EXCEPT ![w] = Idle]

\* A handler of a wizard reads the session while another one of it runs.
Overlap(w, s) ==
    mixed' = mixed \cup {d \in Dialogs : /\ s.flow = "method"
                                         /\ s.on = d
                                         /\ \E v \in Workers \ {w} : req[v].s.on = d}

\* The handler read the session and will write s in a later call.
WillWrite(w, s) ==
    /\ At(w, "idle")
    /\ Serve(w, "write", s)
    /\ Overlap(w, session)
    /\ UNCHANGED <<session, order, method, told, raced>>

\* The handler writes without having read anything.
WriteNow(s) ==
    /\ session' = s
    /\ UNCHANGED <<order, method, req, history>>

\* set and clear of the session: the row as a whole is replaced.
WriteSession(w) ==
    /\ At(w, "write")
    /\ session' = req[w].s
    /\ Finish(w)
    /\ UNCHANGED <<order, method, history>>

\* clear, set of a menu, "Back", "Cancel", /stop, the list of payment methods.
LeaveDialog == WriteNow(NoSession)

\* The row is older than 30 minutes.
ExpireSession ==
    /\ session # NoSession
    /\ LeaveDialog

-----------------------------------------------------------------------------
(* The wizard that rejects a payment.                                      *)

RejectStep(step, o, r) ==
    [NoSession EXCEPT !.flow = "reject", !.step = step, !.on = o, !.pick = r]

InReject == session.flow = "reject"

\* The button under an order, "change the reason", or the word for cancel:
\* showReasonSelect reads the order, then opens or closes the wizard.
OpenReject(w, o) ==
    WillWrite(w, IF order[o].status \in Decided
                 THEN NoSession ELSE RejectStep("select", o, None))

\* A preset reason: the button does not say for which order.
PickReason(w, r) ==
    /\ InReject
    /\ WillWrite(w, RejectStep("confirm", session.on, r))

\* The button for a written reason names its order.
AskCustom(o) == WriteNow(RejectStep("custom", o, None))

\* A text that is a valid reason.
TypeReason(w) ==
    /\ InReject
    /\ session.step = "custom"
    /\ WillWrite(w, RejectStep("confirm", session.on, Custom))

Confirmed(o) ==
    /\ InReject
    /\ session.step = "confirm"
    /\ session.on = o

\* "Reject the order": finalizeReject reads the session.
PressReject(w, o) ==
    /\ At(w, "idle")
    /\ Confirmed(o)
    /\ Serve(w, "order", RejectStep("confirm", o, session.pick))
    /\ UNCHANGED <<session, order, method, history>>

\* The panel rejects an order with PaymentApprovalService.reject too.
PanelReject(w, o) ==
    /\ At(w, "idle")
    /\ Serve(w, "order", RejectStep("confirm", o, Panel))
    /\ UNCHANGED <<session, order, method, history>>

\* Mutant: nobody looks whether the order is rejected already.
UndecidedOrRejected(o) == order[o].status # "COMPLETED"

MayReject(o) == order[o].status \notin {"REJECTED", "COMPLETED"}

\* Mutant: the customer is notified however the rejection ended.
AfterDuplicateTell(o) == "leaveTell"

AfterDuplicate(o) == "leave"

\* reject reads the order: a second rejection only leaves the wizard, and one
\* of a completed order fails and leaves the session as it is.
ReadOrder(w) ==
    LET o == req[w].s.on IN
    /\ At(w, "order")
    /\ \/ /\ MayReject(o)
          /\ Goto(w, "tx")
       \/ /\ ~MayReject(o)
          /\ IF order[o].status = "REJECTED" /\ req[w].s.pick # Panel
             THEN Goto(w, AfterDuplicate(o)) ELSE Finish(w)
    /\ UNCHANGED <<session, order, method, history>>

\* The request has read the order and will write it, whatever it is by then.
Holds(w, o) == req[w].pc \in {"tx", "receipt", "issue", "complete"} /\ req[w].s.on = o

\* The transaction updates the order by its id.
RejectOrder(w) ==
    LET o == req[w].s.on IN
    /\ At(w, "tx")
    /\ order' = [order EXCEPT ![o].status = "REJECTED", ![o].reason = req[w].s.pick]
    /\ IF req[w].s.pick = Panel THEN Finish(w) ELSE Goto(w, "leaveTell")
    /\ raced' = raced \cup {p \in {o} : \E v \in Workers \ {w} : Holds(v, p)}
    /\ UNCHANGED <<session, method, told, mixed>>

\* The wizard is left whatever the session is by now.
LeaveWizard(w) ==
    /\ At(w, "leave") \/ At(w, "leaveTell")
    /\ session' = NoSession
    /\ IF At(w, "leaveTell") THEN Goto(w, "tell") ELSE Finish(w)
    /\ UNCHANGED <<order, method, history>>

\* notifyCustomer, with the reason the handler began with.
NotifyCustomer(w) ==
    /\ At(w, "tell")
    /\ told' = [told EXCEPT ![req[w].s.on] = @ \cup {req[w].s.pick}]
    /\ Finish(w)
    /\ UNCHANGED <<session, order, method, raced, mixed>>

-----------------------------------------------------------------------------
(* Orders meanwhile.  These requests touch no wizard.                      *)

About(o) == RejectStep("confirm", o, None)

ReadFor(w, stage, o) ==
    /\ At(w, "idle")
    /\ Serve(w, stage, About(o))
    /\ UNCHANGED <<session, order, method, history>>

\* cancelPendingOrder and cancelStalePendingPurchases update pending rows only.
CancelOrder(o) ==
    /\ order[o].status = "PENDING"
    /\ order' = [order EXCEPT ![o].status = "CANCELLED"]
    /\ UNCHANGED <<session, method, req, history>>

\* submitReceipt; the customer may have chosen a payment method at any time, and
\* awaitingReceipt is left out.
ReadForReceipt(w, o) ==
    /\ order[o].status = "PENDING"
    /\ ReadFor(w, "receipt", o)

SubmitReceipt(w) ==
    /\ At(w, "receipt")
    /\ order' = [order EXCEPT ![req[w].s.on].status = "UNDER_REVIEW"]
    /\ Finish(w)
    /\ UNCHANGED <<session, method, history>>

\* approve; an order under review has a receipt.
ReadForApproval(w, o) ==
    /\ order[o].status = "UNDER_REVIEW"
    /\ ~order[o].licensed
    /\ ReadFor(w, "issue", o)

\* issueLicense: an order has one license at most, and a request that finds one
\* there ends with it.
IssueLicense(w) ==
    LET o == req[w].s.on IN
    /\ At(w, "issue")
    /\ order' = [order EXCEPT ![o].licensed = TRUE]
    /\ IF order[o].licensed THEN Finish(w) ELSE Goto(w, "complete")
    /\ UNCHANGED <<session, method, history>>

CompleteOrder(w) ==
    /\ At(w, "complete")
    /\ order' = [order EXCEPT ![req[w].s.on].status = "COMPLETED"]
    /\ Finish(w)
    /\ UNCHANGED <<session, method, history>>

-----------------------------------------------------------------------------
(* The wizard for payment methods.                                         *)

InMethod == session.flow = "method"

MethodStep(step, has) == [session EXCEPT !.step = step, !.has = has]

\* "Add": a wizard of its own, with nothing filled in.
AddMethod(d) ==
    /\ \A x \in Methods : method[x].by # d
    /\ session.on # d
    /\ \A w \in Workers : req[w].s.on # d
    /\ WriteNow([NoSession EXCEPT !.flow = "method", !.step = "name", !.on = d])

\* "Edit": the row is read before the wizard is opened with its values.
EditMethod(w, x) ==
    /\ method[x].state = "here"
    /\ WillWrite(w, [NoSession EXCEPT !.flow = "method", !.step = "name", !.on = x,
                                      !.has = Fields])

\* handleText: the step says which field the text is for.
TypeField(w) ==
    /\ InMethod
    /\ \E t \in {<<"name", "type">>, <<"value", "recipient">>,
                 <<"recipient", "confirm">>} :
          /\ session.step = t[1]
          /\ WillWrite(w, MethodStep(t[2], session.has \cup {t[1]}))

\* Mutant: a wizard that was saved goes on when the type is chosen again.
TypeOpenAlways == InMethod

TypeOpen == InMethod /\ session.step # "done"

\* The buttons with the types stay below the messages that came after them.
ChooseType(w) ==
    /\ TypeOpen
    /\ WillWrite(w, MethodStep("value", session.has \cup {"type"}))

\* "Save": handleSave reads the session.
PressSave(w) ==
    /\ At(w, "idle")
    /\ InMethod
    /\ session.step # "done"
    /\ session.has = Fields
    /\ Serve(w, "mark", [session EXCEPT !.step = "done"])
    /\ Overlap(w, session)
    /\ UNCHANGED <<session, order, method, told, raced>>

MarkDone(w) ==
    /\ At(w, "mark")
    /\ session' = req[w].s
    /\ Goto(w, "save")
    /\ UNCHANGED <<order, method, history>>

\* create or update; an update of a deleted row fails.
SaveMethod(w) ==
    LET d == req[w].s.on IN
    /\ At(w, "save")
    /\ \/ /\ d \in Dialogs
          /\ \E x \in Methods :
                /\ method[x].state = "none"
                /\ method' = [method EXCEPT ![x] = [state |-> "here", by |-> d]]
          /\ Serve(w, "leave", NoSession)
       \/ /\ d \in Methods
          /\ IF method[d].state = "gone" THEN Goto(w, "undo") ELSE Serve(w, "leave", NoSession)
          /\ UNCHANGED method
    /\ UNCHANGED <<session, order, history>>

\* The database refuses the row, or cannot be reached.
FailToSave(w) ==
    /\ At(w, "save")
    /\ Goto(w, "undo")
    /\ UNCHANGED <<session, order, method, history>>

UndoDone(w) ==
    /\ At(w, "undo")
    /\ session' = [req[w].s EXCEPT !.step = "confirm"]
    /\ Finish(w)
    /\ UNCHANGED <<order, method, history>>

\* safeDelete of a row that no order refers to; another one is turned off, like
\* by the button for it, and nothing here depends on that.
DeleteMethod(x) ==
    /\ method[x].state = "here"
    /\ method' = [method EXCEPT ![x].state = "gone"]
    /\ session' = NoSession
    /\ UNCHANGED <<order, req, history>>

\* The administration menu closes this wizard only.
PressAdminMenu(w) ==
    /\ InMethod
    /\ WillWrite(w, NoSession)

-----------------------------------------------------------------------------
\* The invocation ends before the handler does.  The update was claimed: it is
\* not delivered again.
Crash(w) ==
    /\ ~At(w, "idle")
    /\ Finish(w)
    /\ UNCHANGED <<session, order, method, history>>

Press(w) ==
    \/ \E o \in Orders : OpenReject(w, o) \/ PressReject(w, o) \/ PanelReject(w, o)
    \/ \E o \in Orders : ReadForReceipt(w, o) \/ ReadForApproval(w, o)
    \/ \E r \in Reasons : PickReason(w, r)
    \/ TypeReason(w)
    \/ \E x \in Methods : EditMethod(w, x)
    \/ TypeField(w)
    \/ ChooseType(w)
    \/ PressSave(w)
    \/ PressAdminMenu(w)

Continue(w) ==
    \/ WriteSession(w)
    \/ ReadOrder(w)
    \/ RejectOrder(w)
    \/ SubmitReceipt(w)
    \/ IssueLicense(w)
    \/ CompleteOrder(w)
    \/ LeaveWizard(w)
    \/ NotifyCustomer(w)
    \/ MarkDone(w)
    \/ SaveMethod(w)
    \/ FailToSave(w)
    \/ UndoDone(w)

\* Handlers of one write.
PressAtOnce ==
    \/ LeaveDialog
    \/ \E o \in Orders : AskCustom(o)
    \/ \E d \in Dialogs : AddMethod(d)
    \/ \E x \in Methods : DeleteMethod(x)

Next ==
    \/ \E w \in Workers : Press(w) \/ Continue(w) \/ Crash(w)
    \/ PressAtOnce
    \/ ExpireSession
    \/ \E o \in Orders : CancelOrder(o)

Spec == Init /\ [][Next]_vars

-----------------------------------------------------------------------------
(* Safety.                                                                 *)

\* An order that was rejected stays as it is: it keeps its reason, and no receipt, no
\* approval and no later rejection changes it.  Excused is an order that was rejected
\* while another request that had read it was still to write it: that request undoes
\* the rejection.
KeepsReason ==
    \A o \in Orders :
        order[o].status = "REJECTED" => order'[o] = order[o] \/ o \in raced
RejectionStands == [][KeepsReason]_vars

\* What a customer is told is the reason on record: the wizard announces no
\* rejection that was not its own, however the administrator went back and
\* forth, and whatever the panel did meanwhile.  Only an order that was rejected
\* while a receipt, an approval or another rejection had still to write it may
\* be opened again and rejected for a second reason.
ToldIsOnRecord ==
    \A o \in Orders \ raced : told[o] \subseteq {order[o].reason}

\* One wizard makes one payment method, wherever a handler of it stopped and
\* whichever of its buttons is pressed afterwards, unless two of its handlers
\* were under way at one time.
OneMethodPerWizard ==
    \A d \in Dialogs \ mixed : \A x, y \in Methods :
        method[x].by = d /\ method[y].by = d => x = y

=============================================================================
