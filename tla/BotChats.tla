------------------------------ MODULE BotChats ------------------------------
(***************************************************************************)
(* A customer talks to the bot: buys, sends the receipt, writes to         *)
(* support.  One row, TelegramBotSession, says which of it a text or a     *)
(* photo is for.  The handler of an update reads that row, in several      *)
(* calls, and acts and writes in later ones; Telegram delivers the next    *)
(* update without waiting, the buttons of old messages stay, and an        *)
(* administrator closes conversations and the panel decides orders.        *)
(*                                                                         *)
(* The plan card and the choice of a duration are one step, "plan"; which  *)
(* administrators a message is sent on to is left out.                     *)
(***************************************************************************)
EXTENDS FiniteSets, Integers

CONSTANTS
    Convs,   \* bound: the SupportConversation rows
    Orders,  \* bound: the Order rows
    Offers,  \* a plan and a billing period
    Workers, \* bound: the updates in progress at one time
    None

ASSUME BotChatsAssumption ==
    /\ None \notin Convs \cup Orders \cup Offers
    /\ Convs \cap Orders = {} /\ Convs \cap Offers = {} /\ Orders \cap Offers = {}

VARIABLES
    session, \* the TelegramBotSession row of the customer
    conv,    \* SupportConversation rows
    order,   \* Order rows: "AWAITING" is PENDING with awaitingReceipt, and "over" is
             \* any other status, which these handlers do not tell apart
    req,     \* the updates in progress
    left,    \* history: conversations a handler closed without another beside it
    late,    \* history: conversations written to after that
    raced    \* history: what two handlers looked for before either created it

vars == <<session, conv, order, req, left, late, raced>>
history == <<left, late, raced>>

Row(at, on) == [at |-> at, on |-> on]
NoSession == Row("none", None)

Sessions ==
    {NoSession, Row("category", None), Row("plan", None)}
        \cup {Row("active", v) : v \in Convs}
        \cup {Row(at, o) : at \in {"reentry", "awaiting"}, o \in Orders}

InSupport == session.at \in {"category", "active"}
InPurchase == session.at \in {"plan", "reentry", "awaiting"}

\* A request keeps what it works on; "alone" says of one that closes a
\* conversation that no other update was in progress so far.
Idle == [pc |-> "idle", on |-> None, alone |-> FALSE]
Stages == [none  |-> {"idle", "category", "createConv", "exit", "clear", "again", "conv", "find", "createPost",
                      "session", "latest", "leave", "pending", "buy", "clearNew",
                      "clearBuy", "methods"},
           conv  |-> {"enter", "close", "exit", "clear", "post"},
           order |-> {"byId", "check", "receipt", "reset", "attach", "attachSet", "cancel",
                      "cancelNew"},
           offer |-> {"findOrder", "createOrder"},
           write |-> {"write"}]

ConvRows == [Convs -> {"none", "open", "closed"}]
OrderRows == [Orders -> [status : {"none", "PENDING", "AWAITING", "over"},
                         offer : Offers \cup {None}]]

TypeOK ==
    /\ session \in Sessions
    /\ session.at = "active" => conv[session.on] # "none"
    /\ session.at \in {"reentry", "awaiting"} => order[session.on].status # "none"
    /\ conv \in ConvRows
    /\ order \in OrderRows
    /\ \A w \in Workers :
          \/ req[w].pc \in Stages.none /\ req[w].on = None
          \/ req[w].pc \in Stages.conv /\ req[w].on \in Convs
          \/ req[w].pc \in Stages.order /\ req[w].on \in Orders
          \/ req[w].pc \in Stages.offer /\ req[w].on \in Offers
          \/ req[w].pc \in Stages.write /\ req[w].on \in Sessions
    /\ left \subseteq Convs
    /\ late \subseteq Convs
    /\ raced \subseteq {"conversation", "order"}

Init ==
    /\ session = NoSession
    /\ conv = [v \in Convs |-> "none"]
    /\ order = [o \in Orders |-> [status |-> "none", offer |-> None]]
    /\ req = [w \in Workers |-> Idle]
    /\ left = {}
    /\ late = {}
    /\ raced = {}

-----------------------------------------------------------------------------
\* A definition whose comment begins with "Mutant:" is a wrong version of the
\* definition that follows it.  Nothing uses it: it stands for a bug the
\* properties must notice.

At(w, stage) == req[w].pc = stage
Goto(w, stage, on) == req' = [req EXCEPT ![w].pc = stage, ![w].on = on]
Finish(w) == req' = [req EXCEPT ![w] = Idle]
Others(w) == {v \in Workers \ {w} : ~At(v, "idle")}

\* An update arrives: nobody is alone any more.
Begin(w, stage, on, alone) ==
    /\ At(w, "idle")
    /\ req' = [v \in Workers |-> IF v = w THEN [pc |-> stage, on |-> on, alone |-> alone]
                                 ELSE [req[v] EXCEPT !.alone = FALSE]]
Serve(w, stage, on) == Begin(w, stage, on, FALSE)

Chat == <<session, conv, order, history>>

\* A handler of one write.
WriteNow(s) ==
    /\ session' = s
    /\ req' = [v \in Workers |-> [req[v] EXCEPT !.alone = FALSE]]
    /\ UNCHANGED <<conv, order, history>>

WriteSession(w) ==
    /\ At(w, "write")
    /\ session' = req[w].on
    /\ Finish(w)
    /\ UNCHANGED <<conv, order, history>>

\* The session is removed, whatever it is by now.
ClearSession(w) ==
    /\ \/ At(w, "clear") /\ Finish(w)
       \/ At(w, "again") /\ Goto(w, "clear", None)
       \/ At(w, "clearNew") /\ Goto(w, "write", Row("plan", None))
       \/ At(w, "clearBuy") /\ Goto(w, "buy", None)
    /\ session' = NoSession
    /\ left' = left \cup {v \in Convs : At(w, "clear") /\ req[w].on = v /\ req[w].alone}
    /\ UNCHANGED <<conv, order, late, raced>>

\* The row is older than 30 minutes.
ExpireSession ==
    /\ session # NoSession
    /\ session' = NoSession
    /\ UNCHANGED <<conv, order, req, history>>

\* "Main menu", /start, /home.
MainMenu(w) ==
    /\ InSupport \/ InPurchase
    /\ Serve(w, "clear", None)
    /\ UNCHANGED Chat

\* /stop leaves the support mode, then removes any session.
Stop(w) ==
    /\ Serve(w, IF InSupport THEN "again" ELSE "clear", None)
    /\ UNCHANGED Chat

-----------------------------------------------------------------------------
(* Support.                                                                *)

ShowSupportEntry == WriteNow(Row("category", None))

\* Mutant: the conversation of the session is taken for the open one.
FoundInSession(v) == session.on = v

Found(v) == conv[v] = "open"

\* Looks for the open conversation of the account.
LookFor(w, found, none) ==
    /\ \/ \E v \in Convs : Found(v) /\ Goto(w, found, v)
       \/ (\A v \in Convs : ~Found(v)) /\ Goto(w, none, None)
    /\ raced' = raced \cup
          {x \in {"conversation"} : /\ \A v \in Convs : ~Found(v)
                                    /\ \E v \in Others(w) : At(v, "createConv")
                                                              \/ At(v, "createPost")}

\* A category is chosen: createConversation.
ChooseCategory(w) ==
    /\ Serve(w, "category", None)
    /\ UNCHANGED Chat

FindConversation(w) ==
    /\ At(w, "category") /\ LookFor(w, "enter", "createConv")
    /\ UNCHANGED <<session, conv, order, left, late>>

Create(w, from, next) ==
    /\ At(w, from)
    /\ \E v \in Convs :
          /\ conv[v] = "none"
          /\ conv' = [conv EXCEPT ![v] = "open"]
          /\ Goto(w, next, v)
    /\ UNCHANGED <<session, order, history>>

Active(v) == Row("active", v)

EnterSupport(w) ==
    /\ At(w, "enter")
    /\ session' = Active(req[w].on)
    /\ Finish(w)
    /\ UNCHANGED <<conv, order, history>>

\* "Yes, close": the conversation is the session's.
ConfirmClose(w) ==
    /\ IF session.at = "active" THEN Begin(w, "close", session.on, Others(w) = {})
                                ELSE Serve(w, "exit", None)
    /\ UNCHANGED Chat

CloseConversation(w) ==
    /\ At(w, "close")
    /\ conv' = [conv EXCEPT ![req[w].on] = "closed"]
    /\ Goto(w, "exit", req[w].on)
    /\ UNCHANGED <<session, order, history>>

\* Mutant: the support mode is left by a customer who chose no category only.
LeavesAtCategory == session.at = "category"

Leaves == InSupport

ExitSupport(w) ==
    /\ At(w, "exit")
    /\ IF Leaves THEN Goto(w, "clear", req[w].on) /\ UNCHANGED left
       ELSE /\ Finish(w)
            /\ left' = left \cup {v \in Convs : req[w].on = v /\ req[w].alone}
    /\ UNCHANGED <<session, conv, order, late, raced>>

\* An administrator closes it too; the customer's session stays.
AdminClose(v) ==
    /\ conv[v] = "open"
    /\ conv' = [conv EXCEPT ![v] = "closed"]
    /\ UNCHANGED <<session, order, req, history>>

\* A text: isInSupportMode, and in a second read the conversation.
SendText(w) ==
    /\ session.at = "active"
    /\ Serve(w, "conv", None)
    /\ UNCHANGED Chat

ReadConversation(w) ==
    /\ At(w, "conv")
    /\ IF session.at = "active" THEN Goto(w, "post", session.on) ELSE Goto(w, "find", None)
    /\ UNCHANGED Chat

\* appendUserMessage without a conversation: getOrCreateOpenConversation.
FindToPost(w) ==
    /\ At(w, "find") /\ LookFor(w, "post", "createPost")
    /\ UNCHANGED <<session, conv, order, left, late>>

\* The message is stored, and sent on to the administrators.
PostMessage(w) ==
    /\ At(w, "post")
    /\ late' = late \cup ({req[w].on} \cap left)
    /\ Finish(w)
    /\ UNCHANGED <<session, conv, order, left, raced>>

-----------------------------------------------------------------------------
(* The purchase.                                                           *)

Pending(o) == order[o].status \in {"PENDING", "AWAITING"}
SetStatus(o, s) == order' = [order EXCEPT ![o].status = s]
Over == [status |-> "over", offer |-> None]

\* showBuyFlow: a pending order, or the plans; without a plan for sale, or
\* with several, no session is written.
Buy(w) ==
    /\ Serve(w, "buy", None)
    /\ UNCHANGED Chat

ShowBuyFlow(w) ==
    /\ At(w, "buy")
    /\ \/ \E o \in Orders : Pending(o) /\ Goto(w, "write", Row("reentry", o))
       \/ /\ \A o \in Orders : ~Pending(o)
          /\ Goto(w, "write", Row("plan", None)) \/ Finish(w)
    /\ UNCHANGED Chat

\* The card of a plan, or its durations.
ShowPlan == WriteNow(Row("plan", None))

\* "Back" from the durations: the card again, or the beginning.
BackToPlan(w) ==
    /\ IF session.at = "plan" THEN Serve(w, "write", session) \/ Serve(w, "clearBuy", None)
                              ELSE Serve(w, "clearBuy", None)
    /\ UNCHANGED Chat

\* Mutant: only orders without a payment method are stale.
StaleWithoutMethod(o, f) == order[o].status = "PENDING" /\ order[o].offer # f

Stale(o, f) == Pending(o) /\ order[o].offer # f

\* A duration is chosen: startOrderFlow cancels the orders of other offers.
ChooseDuration(w, f) ==
    /\ Serve(w, "findOrder", f)
    /\ order' = [o \in Orders |-> IF Stale(o, f) THEN Over ELSE order[o]]
    /\ raced' = raced \cup {x \in {"order"} : \E v \in Others(w) : At(v, "findOrder")
                                                                    \/ At(v, "createOrder")}
    /\ UNCHANGED <<session, conv, left, late>>

FindOrder(w) ==
    LET mine == {o \in Orders : Pending(o) /\ order[o].offer = req[w].on} IN
    /\ At(w, "findOrder")
    /\ \/ \E o \in mine : Goto(w, "reset", o)
       \/ mine = {} /\ Goto(w, "createOrder", req[w].on)
    /\ UNCHANGED Chat

CreateOrder(w) ==
    /\ At(w, "createOrder")
    /\ \E o \in Orders :
          /\ order[o].status = "none"
          /\ order' = [order EXCEPT ![o] = [status |-> "PENDING", offer |-> req[w].on]]
          /\ Goto(w, "reset", o)
    /\ UNCHANGED <<session, conv, history>>

\* The payment method of the order is taken away.
ResetOrder(w) ==
    LET o == req[w].on IN
    /\ At(w, "reset")
    /\ IF Pending(o) THEN SetStatus(o, "PENDING") ELSE UNCHANGED order
    /\ Goto(w, "methods", None)
    /\ UNCHANGED <<session, conv, history>>

\* The methods are offered, or, when there is none, the card is: the order
\* awaits its receipt, and the session is left as it is.
OfferMethods(w) ==
    /\ At(w, "methods")
    /\ \/ Finish(w)
       \/ \E o \in Orders : Pending(o) /\ Goto(w, "attach", o)
    /\ UNCHANGED Chat

\* The button of a payment method does not say for which order.
ChooseMethod(w) ==
    /\ \E o \in Orders : Pending(o) /\ Serve(w, "attachSet", o)
    /\ UNCHANGED Chat

\* attachPaymentMethodAndAwaitReceipt; awaitingReceipt means nothing to an
\* order that is not pending.
AttachMethod(w) ==
    LET o == req[w].on IN
    /\ \/ At(w, "attach") /\ Finish(w)
       \/ At(w, "attachSet") /\ Goto(w, "write", Row("awaiting", o))
    /\ IF Pending(o) THEN SetStatus(o, "AWAITING") ELSE UNCHANGED order
    /\ UNCHANGED <<session, conv, history>>

\* "Continue": the pending order, which may lack its payment method.
ContinuePending(w) ==
    /\ IF \E o \in Orders : Pending(o)
       THEN \E o \in Orders : /\ order[o].status = "AWAITING"
                              /\ Serve(w, "write", Row("awaiting", o))
       ELSE Serve(w, "buy", None)
    /\ UNCHANGED Chat

\* "A new purchase" cancels the pending order.
NewPurchase(w) ==
    /\ IF \E o \in Orders : Pending(o)
       THEN \E o \in Orders : Pending(o) /\ Serve(w, "cancelNew", o)
       ELSE Serve(w, "clearNew", None)
    /\ UNCHANGED Chat

\* "Yes, cancel the payment": the order of the session, whatever its flow, or
\* the pending one.
ConfirmCancel(w) ==
    /\ IF session.at \in {"reentry", "awaiting"} THEN Serve(w, "cancel", session.on)
                                                 ELSE Serve(w, "pending", None)
    /\ UNCHANGED Chat

FindToCancel(w) ==
    /\ At(w, "pending")
    /\ \/ \E o \in Orders : Pending(o) /\ Goto(w, "cancel", o)
       \/ (\A o \in Orders : ~Pending(o)) /\ Goto(w, "clear", None)
    /\ UNCHANGED Chat

\* cancelPendingOrder
CancelOrder(w) ==
    LET o == req[w].on IN
    /\ \/ At(w, "cancel") /\ Goto(w, "clear", None)
       \/ At(w, "cancelNew") /\ Goto(w, "clearNew", None)
    /\ order' = IF Pending(o) THEN [order EXCEPT ![o] = Over] ELSE order
    /\ UNCHANGED <<session, conv, history>>

-----------------------------------------------------------------------------
(* A photo or a document: isInSupportMode, then the session a second time, *)
(* then the order; in the support mode it is sent on like a text.          *)

SendPhoto(w) ==
    /\ Serve(w, IF session.at = "active" THEN "conv" ELSE "session", None)
    /\ UNCHANGED Chat

ReadReceiptSession(w) ==
    /\ At(w, "session")
    /\ IF session.at = "awaiting" THEN Goto(w, "byId", session.on) ELSE Goto(w, "latest", None)
    /\ UNCHANGED Chat

\* findAwaitingReceiptOrderById, or findAwaitingReceiptOrder
FindAwaiting(w) ==
    LET mine == {o \in Orders : order[o].status = "AWAITING" /\ req[w].on \in {o, None}} IN
    /\ At(w, "byId") \/ At(w, "latest")
    /\ \/ \E o \in mine : Goto(w, "check", o)
       \/ mine = {} /\ Finish(w)
    /\ UNCHANGED Chat

\* submitReceipt looks at the order once more before its transaction, which
\* puts it under review whatever became of it.
CheckAwaiting(w) ==
    /\ At(w, "check")
    /\ IF order[req[w].on].status = "AWAITING" THEN Goto(w, "receipt", req[w].on) ELSE Finish(w)
    /\ UNCHANGED Chat

SubmitReceipt(w) ==
    /\ At(w, "receipt")
    /\ order' = [order EXCEPT ![req[w].on] = Over]
    /\ Goto(w, "leave", None)
    /\ UNCHANGED <<session, conv, history>>

\* clearFlow: a purchase is over.
LeavePurchase(w) ==
    /\ At(w, "leave")
    /\ IF InPurchase THEN Goto(w, "clear", None) ELSE Finish(w)
    /\ UNCHANGED Chat

-----------------------------------------------------------------------------
\* The invocation ends before the handler does.  The update was claimed: it is
\* not delivered again.
Crash(w) ==
    /\ ~At(w, "idle")
    /\ Finish(w)
    /\ UNCHANGED Chat

Press(w) ==
    \/ MainMenu(w)
    \/ Stop(w)
    \/ ChooseCategory(w)
    \/ ConfirmClose(w)
    \/ SendText(w)
    \/ Buy(w)
    \/ BackToPlan(w)
    \/ \E f \in Offers : ChooseDuration(w, f)
    \/ ChooseMethod(w)
    \/ ContinuePending(w)
    \/ NewPurchase(w)
    \/ ConfirmCancel(w)
    \/ SendPhoto(w)

Continue(w) ==
    \/ WriteSession(w)
    \/ ClearSession(w)
    \/ FindConversation(w)
    \/ Create(w, "createConv", "enter")
    \/ EnterSupport(w)
    \/ CloseConversation(w)
    \/ ExitSupport(w)
    \/ ReadConversation(w)
    \/ FindToPost(w)
    \/ Create(w, "createPost", "post")
    \/ PostMessage(w)
    \/ ShowBuyFlow(w)
    \/ FindOrder(w)
    \/ CreateOrder(w)
    \/ ResetOrder(w)
    \/ OfferMethods(w)
    \/ AttachMethod(w)
    \/ FindToCancel(w)
    \/ CancelOrder(w)
    \/ ReadReceiptSession(w)
    \/ FindAwaiting(w)
    \/ CheckAwaiting(w)
    \/ SubmitReceipt(w)
    \/ LeavePurchase(w)

Next ==
    \/ \E w \in Workers : Press(w) \/ Continue(w) \/ Crash(w)
    \/ ShowSupportEntry
    \/ ShowPlan
    \/ ExpireSession
    \/ \E v \in Convs : AdminClose(v)

Spec == Init /\ [][Next]_vars

-----------------------------------------------------------------------------
(* Safety.                                                                 *)

\* A customer has one open conversation, unless two handlers had looked for it
\* before either created it.
OneOpenConversation ==
    "conversation" \notin raced => Cardinality({v \in Convs : conv[v] = "open"}) <= 1

\* A customer has one pending order, unless two choices of a duration crossed:
\* neither an old button nor a new purchase leaves a second one behind.
OnePendingOrder ==
    "order" \notin raced => Cardinality({o \in Orders : Pending(o)}) <= 1

\* What a customer writes after he closed a conversation, with no other update
\* in progress, is never put there.
LeftForGood == late = {}

=============================================================================
