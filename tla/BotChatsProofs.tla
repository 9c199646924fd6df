--------------------------- MODULE BotChatsProofs ---------------------------
(***************************************************************************)
(* The bot's dialogs for any number of conversations, orders, offers and   *)
(* updates in progress: one open conversation, one pending order, and a    *)
(* conversation that was left is written to no more.                       *)
(***************************************************************************)
EXTENDS BotChats, FiniteSetTheorems, TLAPS

Subjects == Convs \cup Orders \cup Offers \cup Sessions \cup {None}
StageNames == Stages.none \cup Stages.conv \cup Stages.order \cup Stages.offer
                \cup Stages.write
Requests == [pc : StageNames, on : Subjects, alone : BOOLEAN]

\* A session names a conversation or an order that exists.
IsSession(s) ==
    /\ s \in Sessions
    /\ s.at = "active" => conv[s.on] # "none"
    /\ s.at \in {"reentry", "awaiting"} => order[s.on].status # "none"

\* A request works on a row that exists, and none is to write a session of a
\* conversation.
Placed(r) ==
    \/ r.pc \in Stages.none /\ r.on = None
    \/ r.pc \in Stages.conv /\ r.on \in Convs /\ conv[r.on] # "none"
    \/ r.pc \in Stages.order /\ r.on \in Orders /\ order[r.on].status # "none"
    \/ r.pc \in Stages.offer /\ r.on \in Offers
    \/ r.pc \in Stages.write /\ IsSession(r.on) /\ r.on.at # "active"

\* Whoever leaves the support with a conversation has closed it.
HasClosed(r) == r.pc \in {"exit", "clear"} /\ r.on \in Convs => conv[r.on] = "closed"

IsAlone(w) == req[w].alone => \A v \in Workers \ {w} : At(v, "idle")

\* A conversation that was left is closed, no session points at it, and nobody
\* is about to enter it or to write to it.
IsLeft(v) ==
    /\ conv[v] = "closed"
    /\ session.at = "active" => session.on # v
    /\ \A w \in Workers : req[w].pc \in {"enter", "post"} => req[w].on # v

ChatsAreSound ==
    /\ req \in [Workers -> Requests]
    /\ conv \in ConvRows
    /\ order \in OrderRows
    /\ left \subseteq Convs
    /\ late = {}
    /\ raced \subseteq {"conversation", "order"}
    /\ IsSession(session)
    /\ \A w \in Workers : Placed(req[w]) /\ HasClosed(req[w]) /\ IsAlone(w)
    /\ \A v \in left : IsLeft(v)

\* One handler at a time creates a conversation, while none is open.
Creates(w) == req[w].pc \in {"createConv", "createPost"}
ConversationsAreSound ==
    "conversation" \notin raced =>
        /\ \A v, x \in Convs : Found(v) /\ Found(x) => v = x
        /\ \A w \in Workers : Creates(w) => \A v \in Convs : ~Found(v)
        /\ \A w, y \in Workers : Creates(w) /\ Creates(y) => w = y

\* One handler at a time looks for the order of an offer, while none of another
\* is pending, and creates it, while none is.
Chooses(w) == req[w].pc \in {"findOrder", "createOrder"}
OrdersAreSound ==
    "order" \notin raced =>
        /\ \A o, p \in Orders : Pending(o) /\ Pending(p) => o = p
        /\ \A w \in Workers : Chooses(w) => \A o \in Orders :
              Pending(o) => At(w, "findOrder") /\ order[o].offer = req[w].on
        /\ \A w, y \in Workers : Chooses(w) /\ Chooses(y) => w = y

IInv == ChatsAreSound /\ ConversationsAreSound /\ OrdersAreSound

-----------------------------------------------------------------------------
\* What one step may do.

\* Request w becomes r; the others at most stop being alone, and do so when it
\* has just begun.
Takes(w, r) ==
    /\ req' \in [Workers -> Requests]
    /\ req'[w] = r
    /\ \A v \in Workers \ {w} :
         /\ req'[v].pc = req[v].pc
         /\ req'[v].on = req[v].on
         /\ req'[v].alone => req[v].alone
    /\ At(w, "idle") /\ r.pc # "idle" => \A v \in Workers \ {w} : ~req'[v].alone

\* The rows change: nothing is forgotten, and a conversation is left only when
\* it is closed and the session is elsewhere.
RowsMove ==
    /\ conv' \in ConvRows
    /\ order' \in OrderRows
    /\ raced \subseteq raced' /\ raced' \subseteq {"conversation", "order"}
    /\ late' = {}
    /\ IsSession(session)'
    /\ \A v \in Convs : /\ conv[v] # "none" => conv'[v] # "none"
                        /\ conv[v] = "closed" => conv'[v] = "closed"
    /\ \A o \in Orders : order[o].status # "none" => order'[o].status # "none"
    /\ left \subseteq left' /\ left' \subseteq Convs
    /\ session'.at = "active" => session'.on \notin left'
    /\ \A v \in left' \ left : conv'[v] = "closed"

\* No conversation is opened, and no request begins to create one.
OpensNone ==
    /\ \A v \in Convs : Found(v)' => Found(v)
    /\ \A w \in Workers : Creates(w)' => Creates(w)
    /\ raced \subseteq raced'

\* No order becomes pending or gets another offer, and no request begins to
\* look for one or goes on to create it.
OrdersNone ==
    /\ \A o \in Orders : Pending(o)' => Pending(o) /\ order'[o].offer = order[o].offer
    /\ \A w \in Workers : Chooses(w)' => req'[w].pc = req[w].pc /\ req'[w].on = req[w].on
    /\ raced \subseteq raced'

-----------------------------------------------------------------------------
LEMMA Apart == /\ None \notin Convs /\ None \notin Orders /\ None \notin Offers
               /\ Convs \cap Orders = {}
BY BotChatsAssumption

LEMMA StagesAre ==
    {"idle", "category", "createConv", "exit", "clear", "again", "conv", "find",
     "createPost", "session", "latest", "leave", "pending", "buy", "clearNew",
     "clearBuy", "methods", "enter", "close", "post", "byId", "check", "receipt", "reset",
     "attach", "attachSet", "cancel", "cancelNew", "findOrder", "createOrder", "write"}
        \subseteq StageNames
BY DEF StageNames, Stages

LEMMA IdleRequest == /\ Idle \in Requests /\ Idle.pc = "idle" /\ Idle.on = None
                     /\ ~Idle.alone
<1>1. None \in Subjects
  BY DEF Subjects
<1>2. Idle \in Requests
  BY <1>1, StagesAre DEF Idle, Requests
<1>3. Idle.pc = "idle" /\ Idle.on = None
  BY DEF Idle
<1>4. ~Idle.alone
  BY DEF Idle
<1> QED
  BY <1>2, <1>3, <1>4

\* What a request that begins, goes on or ends becomes.
LEMMA BeginTakes ==
    ASSUME ChatsAreSound, NEW w \in Workers, NEW s \in StageNames, NEW o \in Subjects,
           NEW a \in BOOLEAN, Begin(w, s, o, a)
    PROVE  /\ At(w, "idle")
           /\ \E r \in Requests : Takes(w, r) /\ r.pc = s /\ r.on = o /\ r.alone = a
<1> DEFINE r == [pc |-> s, on |-> o, alone |-> a]
<1>1. r \in Requests /\ r.pc = s /\ r.on = o /\ r.alone = a
  BY DEF Requests
<1>2. req' = [v \in Workers |-> IF v = w THEN r ELSE [req[v] EXCEPT !.alone = FALSE]]
  BY DEF Begin
<1>3. \A v \in Workers : /\ [req[v] EXCEPT !.alone = FALSE] \in Requests
                         /\ [req[v] EXCEPT !.alone = FALSE].pc = req[v].pc
                         /\ [req[v] EXCEPT !.alone = FALSE].on = req[v].on
                         /\ [req[v] EXCEPT !.alone = FALSE].alone = FALSE
  BY DEF ChatsAreSound, Requests
<1> HIDE DEF r
<1>4. Takes(w, r)
  BY <1>1, <1>2, <1>3 DEF Takes
<1> QED
  BY <1>1, <1>4 DEF Begin

LEMMA GotoTakes ==
    ASSUME ChatsAreSound, NEW w \in Workers, NEW s \in StageNames, NEW o \in Subjects,
           Goto(w, s, o), ~At(w, "idle")
    PROVE  \E r \in Requests : /\ Takes(w, r) /\ r.pc = s /\ r.on = o
                               /\ r.alone = req[w].alone
<1> DEFINE r == [req[w] EXCEPT !.pc = s, !.on = o]
<1>1. r \in Requests /\ r.pc = s /\ r.on = o /\ r.alone = req[w].alone
  BY DEF ChatsAreSound, Requests
<1>2. req' = [req EXCEPT ![w] = r]
  BY DEF Goto, ChatsAreSound, Requests
<1> HIDE DEF r
<1>3. Takes(w, r)
  BY <1>1, <1>2 DEF ChatsAreSound, Takes
<1> QED
  BY <1>1, <1>3

LEMMA FinishTakes ==
    ASSUME ChatsAreSound, NEW w \in Workers, Finish(w)
    PROVE  Takes(w, Idle)
BY IdleRequest DEF Finish, ChatsAreSound, Takes

-----------------------------------------------------------------------------
\* The parts of the invariant, one by one.

LEMMA ChatsStaySound ==
    ASSUME ChatsAreSound, NEW w \in Workers, NEW r \in Requests, Takes(w, r),
           Placed(r)', HasClosed(r)',
           r.alone => \A v \in Workers \ {w} : At(v, "idle"),
           r.pc \in {"enter", "post"} => r.on \notin left',
           RowsMove,
           left' = left \/ \A v \in Workers \ {w} : At(v, "idle")
    PROVE  ChatsAreSound'
<1>1. \A v \in Workers \ {w} : Placed(req[v])' /\ HasClosed(req[v])'
  <2> SUFFICES ASSUME NEW v \in Workers \ {w}
               PROVE  Placed(req[v])' /\ HasClosed(req[v])'
    OBVIOUS
  <2>1. Placed(req[v]) /\ HasClosed(req[v])
    BY DEF ChatsAreSound
  <2>2. req'[v].pc = req[v].pc /\ req'[v].on = req[v].on
    BY DEF Takes
  <2>3. \A x : IsSession(x) /\ x.at # "active" => IsSession(x)'
    <3> SUFFICES ASSUME NEW x, IsSession(x), x.at \in {"reentry", "awaiting"}
                 PROVE  order'[x.on].status # "none"
      BY DEF IsSession
    <3>1. x.on \in Orders
      BY DEF IsSession, Sessions, NoSession, Row
    <3> QED
      BY <3>1 DEF RowsMove, IsSession
  <2>4. Placed(req[v])'
    BY <2>1, <2>2, <2>3 DEF Placed, RowsMove
  <2>5. HasClosed(req[v])'
    BY <2>1, <2>2 DEF HasClosed, RowsMove
  <2> QED
    BY <2>4, <2>5
<1>2. Placed(req[w])' /\ HasClosed(req[w])'
  <2>1. req'[w] = r
    BY DEF Takes
  <2> QED
    BY <2>1 DEF Placed, HasClosed, IsSession
<1>3. \A v \in Workers : IsAlone(v)'
  <2> SUFFICES ASSUME NEW v \in Workers, req'[v].alone
               PROVE  \A x \in Workers \ {v} : req'[x].pc = "idle"
    BY DEF IsAlone, At
  <2>1. CASE v = w
    BY <2>1 DEF Takes, At
  <2>2. CASE v # w
    <3>1. req[v].alone /\ \A x \in Workers \ {v} : At(x, "idle")
      BY <2>2 DEF Takes, ChatsAreSound, IsAlone
    <3>2. At(w, "idle") /\ r.pc = "idle"
      BY <2>2, <3>1 DEF Takes
    <3> QED
      BY <2>2, <3>1, <3>2 DEF Takes, At
  <2> QED
    BY <2>1, <2>2
<1>4. \A v \in left' : IsLeft(v)'
  <2> SUFFICES ASSUME NEW v \in left'
               PROVE  IsLeft(v)'
    OBVIOUS
  <2>1. conv'[v] = "closed"
    BY DEF RowsMove, ChatsAreSound, IsLeft
  <2>2. session'.at = "active" => session'.on # v
    BY DEF RowsMove
  <2>3. \A x \in Workers : req'[x].pc \in {"enter", "post"} => req'[x].on # v
    <3> SUFFICES ASSUME NEW x \in Workers \ {w}, req[x].pc \in {"enter", "post"}
                 PROVE  req[x].on # v
      BY DEF Takes
    <3>1. ~At(x, "idle")
      BY DEF At
    <3>2. v \in left
      BY <3>1
    <3> QED
      BY <3>2 DEF ChatsAreSound, IsLeft
  <2> QED
    BY <2>1, <2>2, <2>3 DEF IsLeft
<1>5. req' \in [Workers -> Requests]
  BY DEF Takes
<1> QED
  BY <1>1, <1>2, <1>3, <1>4, <1>5 DEF ChatsAreSound, RowsMove

LEMMA ConversationsStaySound ==
    ASSUME ConversationsAreSound, OpensNone
    PROVE  ConversationsAreSound'
BY DEF ConversationsAreSound, OpensNone

LEMMA OrdersStaySound ==
    ASSUME OrdersAreSound, OrdersNone
    PROVE  OrdersAreSound'
<1> SUFFICES ASSUME "order" \notin raced'
             PROVE  /\ \A o, p \in Orders : (Pending(o) /\ Pending(p))' => o = p
                    /\ \A w \in Workers : Chooses(w)' => \A o \in Orders :
                         Pending(o)' => At(w, "findOrder")' /\ order'[o].offer = req'[w].on
                    /\ \A w, y \in Workers : (Chooses(w) /\ Chooses(y))' => w = y
  BY DEF OrdersAreSound
<1>1. "order" \notin raced
  BY DEF OrdersNone
<1>2. \A w \in Workers : Chooses(w)' => Chooses(w)
  BY DEF OrdersNone, Chooses
<1> QED
  BY <1>1, <1>2 DEF OrdersAreSound, OrdersNone, At

\* A handler reads, or writes what no other part of the invariant is about.
LEMMA QuietStep ==
    ASSUME IInv, NEW w \in Workers, NEW r \in Requests, Takes(w, r),
           Placed(r)', HasClosed(r)',
           r.alone => \A v \in Workers \ {w} : At(v, "idle"),
           r.pc \in {"enter", "post"} => r.on \notin left',
           r.pc \notin {"createConv", "createPost", "findOrder", "createOrder"},
           RowsMove,
           left' = left \/ \A v \in Workers \ {w} : At(v, "idle"),
           raced' = raced,
           \A v \in Convs : Found(v)' => Found(v),
           \A o \in Orders : Pending(o)' => Pending(o) /\ order'[o].offer = order[o].offer
    PROVE  IInv'
<1>1. ChatsAreSound'
  BY ChatsStaySound DEF IInv
<1>2. OpensNone
  BY DEF OpensNone, Creates, Takes
<1>3. OrdersNone
  BY DEF OrdersNone, Chooses, Takes
<1> QED
  BY <1>1, <1>2, <1>3, ConversationsStaySound, OrdersStaySound DEF IInv

\* The rows stay as they are.
LEMMA RowsStay ==
    ASSUME ChatsAreSound, UNCHANGED <<session, conv, order, left, late>>,
           raced \subseteq raced', raced' \subseteq {"conversation", "order"}
    PROVE  RowsMove
BY DEF ChatsAreSound, RowsMove, IsSession, IsLeft

LEMMA ReadStep ==
    ASSUME IInv, NEW w \in Workers, NEW r \in Requests, Takes(w, r), UNCHANGED Chat,
           Placed(r), HasClosed(r),
           r.alone => \A v \in Workers \ {w} : At(v, "idle"),
           r.pc \in {"enter", "post"} => r.on \notin left,
           r.pc \notin {"createConv", "createPost", "findOrder", "createOrder"}
    PROVE  IInv'
<1>1. UNCHANGED <<session, conv, order, left, late, raced>>
  BY DEF Chat, history
<1>2. RowsMove
  BY <1>1, RowsStay DEF IInv, ChatsAreSound
<1>3. Placed(r)' /\ HasClosed(r)'
  BY <1>1 DEF Placed, HasClosed, IsSession
<1>4. /\ \A v \in Convs : Found(v)' => Found(v)
      /\ \A o \in Orders : Pending(o)' => Pending(o) /\ order'[o].offer = order[o].offer
  BY <1>1 DEF Found, Pending
<1> QED
  BY <1>1, <1>2, <1>3, <1>4, QuietStep

\* A handler ends, or crashes.
LEMMA EndStep ==
    ASSUME IInv, NEW w \in Workers, Finish(w), UNCHANGED Chat
    PROVE  IInv'
<1>1. Takes(w, Idle)
  BY FinishTakes DEF IInv
<1>2. Placed(Idle) /\ HasClosed(Idle)
  BY IdleRequest DEF Placed, HasClosed, Stages
<1> QED
  BY <1>1, <1>2, IdleRequest, ReadStep

-----------------------------------------------------------------------------
\* Updates that arrive.

\* The stages an update may begin with, but for the choice of a duration.
LEMMA BeginStep ==
    ASSUME IInv, NEW w \in Workers, NEW s \in StageNames, NEW o \in Subjects,
           NEW a \in BOOLEAN, Begin(w, s, o, a), UNCHANGED Chat,
           a => Others(w) = {},
           \/ s \in {"clear", "again", "category", "exit", "conv", "buy", "clearBuy",
                     "clearNew", "pending", "session"} /\ o = None
           \/ s = "close" /\ o \in Convs /\ conv[o] # "none"
           \/ s \in {"attachSet", "cancelNew", "cancel"} /\ o \in Orders
                /\ order[o].status # "none"
           \/ s = "write" /\ IsSession(o) /\ o.at # "active"
    PROVE  IInv'
<1>1. PICK r \in Requests : Takes(w, r) /\ r.pc = s /\ r.on = o /\ r.alone = a
  BY BeginTakes DEF IInv
<1>2. Placed(r)
  BY <1>1 DEF Placed, Stages
<1>3. HasClosed(r)
  BY <1>1, Apart DEF HasClosed
<1>4. r.alone => \A v \in Workers \ {w} : At(v, "idle")
  BY <1>1 DEF Others
<1>5. r.pc \notin {"enter", "post", "createConv", "createPost", "findOrder", "createOrder"}
  BY <1>1
<1> QED
  BY <1>1, <1>2, <1>3, <1>4, <1>5, ReadStep

LEMMA ServeStep ==
    ASSUME IInv, NEW w \in Workers, NEW s \in StageNames, NEW o \in Subjects,
           Serve(w, s, o), UNCHANGED Chat,
           \/ s \in {"clear", "again", "category", "exit", "conv", "buy", "clearBuy",
                     "clearNew", "pending", "session"} /\ o = None
           \/ s \in {"attachSet", "cancelNew", "cancel"} /\ o \in Orders
                /\ order[o].status # "none"
           \/ s = "write" /\ IsSession(o) /\ o.at # "active"
    PROVE  IInv'
BY BeginStep DEF Serve

LEMMA SubjectsAre ==
    /\ None \in Subjects
    /\ \A v \in Convs : v \in Subjects
    /\ \A o \in Orders : o \in Subjects /\ Row("awaiting", o) \in Sessions
                           /\ Row("reentry", o) \in Sessions
    /\ \A x \in Sessions : x \in Subjects
    /\ NoSession \in Sessions /\ Row("category", None) \in Sessions
    /\ Row("plan", None) \in Sessions
    /\ \A v \in Convs : Row("active", v) \in Sessions
BY DEF Subjects, Sessions

\* What the session points at exists.
LEMMA SessionPoints ==
    ASSUME IInv
    PROVE  /\ session \in Sessions
           /\ session.at = "active" => session.on \in Convs /\ conv[session.on] # "none"
           /\ session.at \in {"reentry", "awaiting"} =>
                session.on \in Orders /\ order[session.on].status # "none"
<1>1. IsSession(session)
  BY DEF IInv, ChatsAreSound
<1>2. session.at = "active" => session.on \in Convs
  BY <1>1 DEF IsSession, Sessions, NoSession, Row
<1>3. session.at \in {"reentry", "awaiting"} => session.on \in Orders
  BY <1>1 DEF IsSession, Sessions, NoSession, Row
<1> QED
  BY <1>1, <1>2, <1>3 DEF IsSession

LEMMA PendingExists ==
    ASSUME NEW o, Pending(o)
    PROVE  order[o].status # "none"
BY DEF Pending

LEMMA PressStep ==
    ASSUME IInv, NEW w \in Workers, Press(w), \A f \in Offers : ~ChooseDuration(w, f)
    PROVE  IInv'
<1>1. CASE MainMenu(w)
  BY <1>1, SubjectsAre, StagesAre, ServeStep DEF MainMenu
<1>2. CASE Stop(w)
  <2>1. CASE InSupport
    BY <1>2, <2>1, SubjectsAre, StagesAre, ServeStep DEF Stop
  <2>2. CASE ~InSupport
    BY <1>2, <2>2, SubjectsAre, StagesAre, ServeStep DEF Stop
  <2> QED
    BY <2>1, <2>2
<1>3. CASE ChooseCategory(w)
  BY <1>3, SubjectsAre, StagesAre, ServeStep DEF ChooseCategory
<1>4. CASE ConfirmClose(w)
  <2>1. CASE session.at = "active"
    BY <1>4, <2>1, SubjectsAre, SessionPoints, StagesAre, BeginStep DEF ConfirmClose
  <2>2. CASE session.at # "active"
    BY <1>4, <2>2, SubjectsAre, StagesAre, ServeStep DEF ConfirmClose
  <2> QED
    BY <2>1, <2>2
<1>5. CASE SendText(w)
  BY <1>5, SubjectsAre, StagesAre, ServeStep DEF SendText
<1>6. CASE Buy(w)
  BY <1>6, SubjectsAre, StagesAre, ServeStep DEF Buy
<1>7. CASE BackToPlan(w)
  <2>1. CASE session.at = "plan" /\ Serve(w, "write", session)
    <3>1. IsSession(session) /\ session \in Subjects
      BY SessionPoints, SubjectsAre DEF IsSession
    <3> QED
      BY <1>7, <2>1, <3>1, StagesAre, ServeStep DEF BackToPlan
  <2>2. CASE Serve(w, "clearBuy", None)
    BY <1>7, <2>2, SubjectsAre, StagesAre, ServeStep DEF BackToPlan
  <2> QED
    BY <1>7, <2>1, <2>2 DEF BackToPlan
<1>8. CASE ChooseMethod(w)
  <2>1. PICK o \in Orders : Pending(o) /\ Serve(w, "attachSet", o)
    BY <1>8 DEF ChooseMethod
  <2> QED
    BY <1>8, <2>1, SubjectsAre, PendingExists, StagesAre, ServeStep DEF ChooseMethod
<1>9. CASE ContinuePending(w)
  <2>1. CASE \E o \in Orders : Pending(o)
    <3>1. PICK o \in Orders : /\ order[o].status = "AWAITING"
                              /\ Serve(w, "write", Row("awaiting", o))
      BY <1>9, <2>1 DEF ContinuePending
    <3>2. /\ Row("awaiting", o) \in Sessions
          /\ Row("awaiting", o).at = "awaiting" /\ Row("awaiting", o).on = o
      BY SubjectsAre DEF Row
    <3>3. IsSession(Row("awaiting", o))
      BY <3>1, <3>2 DEF IsSession
    <3> QED
      BY <1>9, <3>1, <3>2, <3>3, SubjectsAre, StagesAre, ServeStep DEF ContinuePending
  <2>2. CASE ~\E o \in Orders : Pending(o)
    BY <1>9, <2>2, SubjectsAre, StagesAre, ServeStep DEF ContinuePending
  <2> QED
    BY <2>1, <2>2
<1>10. CASE NewPurchase(w)
  <2>1. CASE \E o \in Orders : Pending(o)
    <3>1. PICK o \in Orders : Pending(o) /\ Serve(w, "cancelNew", o)
      BY <1>10, <2>1 DEF NewPurchase
    <3> QED
      BY <1>10, <3>1, SubjectsAre, PendingExists, StagesAre, ServeStep DEF NewPurchase
  <2>2. CASE ~\E o \in Orders : Pending(o)
    BY <1>10, <2>2, SubjectsAre, StagesAre, ServeStep DEF NewPurchase
  <2> QED
    BY <2>1, <2>2
<1>11. CASE ConfirmCancel(w)
  <2>1. CASE session.at \in {"reentry", "awaiting"}
    BY <1>11, <2>1, SubjectsAre, SessionPoints, StagesAre, ServeStep DEF ConfirmCancel
  <2>2. CASE session.at \notin {"reentry", "awaiting"}
    BY <1>11, <2>2, SubjectsAre, StagesAre, ServeStep DEF ConfirmCancel
  <2> QED
    BY <2>1, <2>2
<1>12. CASE SendPhoto(w)
  <2>1. CASE session.at = "active"
    BY <1>12, <2>1, SubjectsAre, StagesAre, ServeStep DEF SendPhoto
  <2>2. CASE session.at # "active"
    BY <1>12, <2>2, SubjectsAre, StagesAre, ServeStep DEF SendPhoto
  <2> QED
    BY <2>1, <2>2
<1> QED
  BY <1>1, <1>2, <1>3, <1>4, <1>5, <1>6, <1>7, <1>8, <1>9, <1>10, <1>11, <1>12 DEF Press

-----------------------------------------------------------------------------
\* Handlers that go on.

\* What the stage of a request says of the row it works on.
LEMMA WorksOn ==
    ASSUME IInv, NEW w \in Workers
    PROVE  /\ req[w].pc \in Stages.conv \ {"exit", "clear"} =>
                req[w].on \in Convs /\ conv[req[w].on] # "none"
           /\ req[w].pc \in Stages.order =>
                req[w].on \in Orders /\ order[req[w].on].status # "none"
           /\ req[w].pc \in Stages.offer => req[w].on \in Offers
           /\ req[w].pc = "write" => IsSession(req[w].on) /\ req[w].on.at # "active"
           /\ req[w].pc \in {"exit", "clear"} =>
                \/ req[w].on = None
                \/ req[w].on \in Convs /\ conv[req[w].on] = "closed"
           /\ req[w].on \in Subjects
<1>1. Placed(req[w]) /\ HasClosed(req[w]) /\ req[w] \in Requests
  BY DEF IInv, ChatsAreSound
<1> QED
  BY <1>1 DEF Placed, HasClosed, Stages, Requests

LEMMA GoStep ==
    ASSUME IInv, NEW w \in Workers, NEW s \in StageNames, NEW o \in Subjects,
           Goto(w, s, o), ~At(w, "idle"), UNCHANGED Chat,
           \A r \in Requests : r.pc = s /\ r.on = o => Placed(r) /\ HasClosed(r),
           s \in {"enter", "post"} => o \notin left,
           s \notin {"createConv", "createPost", "findOrder", "createOrder"}
    PROVE  IInv'
<1>1. PICK r \in Requests : /\ Takes(w, r) /\ r.pc = s /\ r.on = o
                            /\ r.alone = req[w].alone
  BY GotoTakes DEF IInv
<1>2. r.alone => \A v \in Workers \ {w} : At(v, "idle")
  BY <1>1 DEF IInv, ChatsAreSound, IsAlone
<1> QED
  BY <1>1, <1>2, ReadStep

LEMMA ReadingStep ==
    ASSUME IInv, NEW w \in Workers,
           \/ ReadConversation(w)
           \/ ShowBuyFlow(w)
           \/ OfferMethods(w)
           \/ FindToCancel(w)
           \/ ReadReceiptSession(w)
           \/ FindAwaiting(w)
           \/ CheckAwaiting(w)
           \/ LeavePurchase(w)
    PROVE  IInv'
<1> USE StagesAre, SubjectsAre
<1>c. UNCHANGED Chat /\ ~At(w, "idle")
  BY DEF ReadConversation, ShowBuyFlow, OfferMethods, FindToCancel, ReadReceiptSession,
     FindAwaiting, CheckAwaiting, LeavePurchase, At
<1>n. \A s \in Stages.none, r \in Requests :
        r.pc = s /\ r.on = None => Placed(r) /\ HasClosed(r)
  BY Apart DEF Placed, HasClosed
<1>o. \A s \in Stages.order, o \in Orders, r \in Requests :
        r.pc = s /\ r.on = o /\ order[o].status # "none" => Placed(r) /\ HasClosed(r)
  BY Apart DEF Placed, HasClosed
<1>g. ASSUME NEW s \in Stages.none \ {"createConv", "createPost"}, s \in StageNames,
             Goto(w, s, None)
      PROVE  IInv'
  <2>1. s \notin {"enter", "post", "findOrder", "createOrder"}
    BY DEF Stages
  <2> QED
    BY <1>c, <1>n, <1>g, <2>1, GoStep
<1>h. ASSUME NEW s \in Stages.order, s \in StageNames, NEW o \in Orders,
             order[o].status # "none", Goto(w, s, o)
      PROVE  IInv'
  <2>1. s \notin {"enter", "post", "createConv", "createPost", "findOrder", "createOrder"}
    BY DEF Stages
  <2> QED
    BY <1>c, <1>o, <1>h, <2>1, GoStep
<1>1. CASE ReadConversation(w)
  <2>1. CASE session.at = "active"
    <3>1. /\ session.on \in Convs /\ conv[session.on] # "none"
          /\ session.on \notin left
      BY <2>1, SessionPoints DEF IInv, ChatsAreSound, IsLeft
    <3>2. \A r \in Requests : r.pc = "post" /\ r.on = session.on => Placed(r) /\ HasClosed(r)
      BY <3>1 DEF Placed, HasClosed, Stages
    <3> QED
      BY <1>c, <1>1, <2>1, <3>1, <3>2, GoStep DEF ReadConversation
  <2>2. CASE session.at # "active"
    BY <1>1, <2>2, <1>g DEF ReadConversation, Stages
  <2> QED
    BY <2>1, <2>2
<1>2. CASE ShowBuyFlow(w)
  <2>w. ASSUME NEW x \in Sessions, IsSession(x), x.at # "active", Goto(w, "write", x)
        PROVE  IInv'
    <3>1. \A r \in Requests : r.pc = "write" /\ r.on = x => Placed(r) /\ HasClosed(r)
      BY <2>w DEF Placed, HasClosed, Stages
    <3> QED
      BY <1>c, <2>w, <3>1, GoStep
  <2>1. ASSUME NEW o \in Orders, Pending(o), Goto(w, "write", Row("reentry", o))
        PROVE  IInv'
    <3>1. IsSession(Row("reentry", o)) /\ Row("reentry", o).at # "active"
      BY <2>1, PendingExists DEF IsSession, Row
    <3> QED
      BY <2>1, <2>w, <3>1
  <2>2. CASE Goto(w, "write", Row("plan", None))
    <3>1. IsSession(Row("plan", None)) /\ Row("plan", None).at # "active"
      BY DEF IsSession, Row
    <3> QED
      BY <2>2, <2>w, <3>1
  <2>3. CASE Finish(w)
    BY <1>c, <2>3, EndStep
  <2> QED
    BY <1>2, <2>1, <2>2, <2>3 DEF ShowBuyFlow
<1>3. CASE OfferMethods(w)
  <2>1. ASSUME NEW o \in Orders, Pending(o), Goto(w, "attach", o)
        PROVE  IInv'
    BY <2>1, <1>h, PendingExists DEF Stages
  <2> QED
    BY <1>c, <1>3, <2>1, EndStep DEF OfferMethods
<1>4. CASE FindToCancel(w)
  <2>1. ASSUME NEW o \in Orders, Pending(o), Goto(w, "cancel", o)
        PROVE  IInv'
    BY <2>1, <1>h, PendingExists DEF Stages
  <2>2. CASE Goto(w, "clear", None)
    BY <2>2, <1>g DEF Stages
  <2> QED
    BY <1>4, <2>1, <2>2 DEF FindToCancel
<1>5. CASE ReadReceiptSession(w)
  <2>1. CASE session.at = "awaiting"
    <3>1. session.on \in Orders /\ order[session.on].status # "none"
      BY <2>1, SessionPoints
    <3> QED
      BY <1>5, <2>1, <3>1, <1>h DEF ReadReceiptSession, Stages
  <2>2. CASE session.at # "awaiting"
    BY <1>5, <2>2, <1>g DEF ReadReceiptSession, Stages
  <2> QED
    BY <2>1, <2>2
<1>6. CASE FindAwaiting(w)
  <2>1. ASSUME NEW o \in Orders, order[o].status = "AWAITING", Goto(w, "check", o)
        PROVE  IInv'
    BY <2>1, <1>h DEF Stages
  <2> QED
    BY <1>c, <1>6, <2>1, EndStep DEF FindAwaiting
<1>7. CASE CheckAwaiting(w)
  <2>1. CASE order[req[w].on].status = "AWAITING"
    <3>1. req[w].on \in Orders /\ order[req[w].on].status # "none"
      BY <1>7, WorksOn DEF CheckAwaiting, At, Stages
    <3> QED
      BY <1>7, <2>1, <3>1, <1>h DEF CheckAwaiting, Stages
  <2> QED
    BY <1>c, <1>7, <2>1, EndStep DEF CheckAwaiting
<1>8. CASE LeavePurchase(w)
  <2>1. CASE Goto(w, "clear", None)
    BY <2>1, <1>g DEF Stages
  <2> QED
    BY <1>c, <1>8, <2>1, EndStep DEF LeavePurchase
<1> QED
  BY <1>1, <1>2, <1>3, <1>4, <1>5, <1>6, <1>7, <1>8

-----------------------------------------------------------------------------
\* Handlers that write.

\* A handler goes on, or ends.
GoesOn(w, s, o) ==
    /\ s \in StageNames /\ o \in Subjects
    /\ s \notin {"enter", "post", "createConv", "createPost", "findOrder", "createOrder"}
    /\ Goto(w, s, o) \/ (Finish(w) /\ s = "idle" /\ o = None)

\* A handler writes, and goes on or ends.
LEMMA WritesStep ==
    ASSUME IInv, NEW w \in Workers, NEW s, NEW o, GoesOn(w, s, o), ~At(w, "idle"),
           \A r \in Requests : r.pc = s /\ r.on = o => Placed(r)' /\ HasClosed(r)',
           RowsMove, left' = left, raced' = raced,
           \A v \in Convs : Found(v)' => Found(v),
           \A p \in Orders : Pending(p)' => Pending(p) /\ order'[p].offer = order[p].offer
    PROVE  IInv'
<1>1. \E r \in Requests : /\ Takes(w, r) /\ r.pc = s /\ r.on = o
                          /\ r.alone => req[w].alone
  <2>1. CASE Goto(w, s, o)
    BY <2>1, GotoTakes DEF IInv, GoesOn
  <2>2. CASE Finish(w) /\ s = "idle" /\ o = None
    BY <2>2, FinishTakes, IdleRequest DEF IInv
  <2> QED
    BY <2>1, <2>2 DEF GoesOn
<1>2. PICK r \in Requests : /\ Takes(w, r) /\ r.pc = s /\ r.on = o
                            /\ r.alone => req[w].alone
  BY <1>1
<1>3. r.alone => \A v \in Workers \ {w} : At(v, "idle")
  BY <1>2 DEF IInv, ChatsAreSound, IsAlone
<1>4. s \notin {"enter", "post", "createConv", "createPost", "findOrder", "createOrder"}
  BY DEF GoesOn
<1> QED
  BY <1>2, <1>3, <1>4, QuietStep

\* Nothing but one existing order changes, and it gains neither an offer nor
\* its place among the pending ones.
LEMMA OrderMoves ==
    ASSUME IInv, NEW o \in Orders, order[o].status # "none",
           NEW x \in [status : {"PENDING", "AWAITING", "over"}, offer : Offers \cup {None}],
           order' = [order EXCEPT ![o] = x],
           x.status # "over" => Pending(o) /\ x.offer = order[o].offer,
           UNCHANGED <<session, conv, history>>
    PROVE  /\ RowsMove
           /\ left' = left /\ raced' = raced
           /\ \A v \in Convs : Found(v)' => Found(v)
           /\ \A p \in Orders : /\ order[p].status # "none" => order'[p].status # "none"
                                /\ Pending(p)' => Pending(p) /\ order'[p].offer = order[p].offer
<1>1. /\ order'[o] = x
      /\ \A p \in Orders \ {o} : order'[p] = order[p]
      /\ order' \in OrderRows
  BY DEF IInv, ChatsAreSound, OrderRows
<1>2. UNCHANGED <<session, conv, left, late, raced>>
  BY DEF history
<1>3. \A p \in Orders : order[p].status # "none" => order'[p].status # "none"
  BY <1>1
<1>4. IsSession(session)'
  BY <1>2, <1>3, SessionPoints DEF IsSession
<1>5. RowsMove
  BY <1>1, <1>2, <1>3, <1>4 DEF RowsMove, IInv, ChatsAreSound, IsLeft
<1>6. \A p \in Orders : Pending(p)' => Pending(p) /\ order'[p].offer = order[p].offer
  BY <1>1 DEF Pending
<1> QED
  BY <1>2, <1>3, <1>5, <1>6 DEF Found

LEMMA OrderTypes ==
    ASSUME IInv, NEW o \in Orders
    PROVE  /\ order[o].offer \in Offers \cup {None}
           /\ \A s \in {"PENDING", "AWAITING", "over"} :
                /\ [order[o] EXCEPT !.status = s]
                     \in [status : {"PENDING", "AWAITING", "over"}, offer : Offers \cup {None}]
                /\ [order[o] EXCEPT !.status = s].status = s
                /\ [order[o] EXCEPT !.status = s].offer = order[o].offer
           /\ Over \in [status : {"PENDING", "AWAITING", "over"}, offer : Offers \cup {None}]
           /\ Over.status = "over"
BY DEF IInv, ChatsAreSound, OrderRows, Over

\* Whatever a step of a request writes to an order, the request goes on without
\* one, or to write a session of that order.
LEMMA OrderWriteStep ==
    ASSUME IInv, NEW w \in Workers,
           \/ ResetOrder(w)
           \/ AttachMethod(w)
           \/ CancelOrder(w)
           \/ SubmitReceipt(w)
    PROVE  IInv'
<1>1. PICK o \in Orders : o = req[w].on /\ order[o].status # "none"
  BY WorksOn DEF ResetOrder, AttachMethod, CancelOrder, SubmitReceipt, At, Stages
<1>2. UNCHANGED <<session, conv, history>> /\ ~At(w, "idle")
  BY DEF ResetOrder, AttachMethod, CancelOrder, SubmitReceipt, At
<1>3. \/ UNCHANGED order
      \/ \E x \in [status : {"PENDING", "AWAITING", "over"}, offer : Offers \cup {None}] :
           /\ order' = [order EXCEPT ![o] = x]
           /\ x.status # "over" => Pending(o) /\ x.offer = order[o].offer
  <2>1. ASSUME NEW s \in {"PENDING", "AWAITING"}, Pending(o), SetStatus(o, s)
        PROVE  \E x \in [status : {"PENDING", "AWAITING", "over"}, offer : Offers \cup {None}] :
                 /\ order' = [order EXCEPT ![o] = x]
                 /\ x.status # "over" => Pending(o) /\ x.offer = order[o].offer
    <3> DEFINE x == [order[o] EXCEPT !.status = s]
    <3>1. order' = [order EXCEPT ![o] = x]
      BY <2>1 DEF SetStatus, IInv, ChatsAreSound, OrderRows
    <3>2. /\ x \in [status : {"PENDING", "AWAITING", "over"}, offer : Offers \cup {None}]
          /\ x.offer = order[o].offer
      BY OrderTypes
    <3> HIDE DEF x
    <3> QED
      BY <2>1, <3>1, <3>2
  <2>2. ASSUME order' = [order EXCEPT ![o] = Over]
        PROVE  \E x \in [status : {"PENDING", "AWAITING", "over"}, offer : Offers \cup {None}] :
                 /\ order' = [order EXCEPT ![o] = x]
                 /\ x.status # "over" => Pending(o) /\ x.offer = order[o].offer
    BY <2>2, OrderTypes
  <2> QED
    BY <1>1, <2>1, <2>2 DEF ResetOrder, AttachMethod, CancelOrder, SubmitReceipt
<1>4. /\ RowsMove
      /\ left' = left /\ raced' = raced
      /\ \A v \in Convs : Found(v)' => Found(v)
      /\ \A p \in Orders : /\ order[p].status # "none" => order'[p].status # "none"
                           /\ Pending(p)' => Pending(p) /\ order'[p].offer = order[p].offer
  <2>1. CASE UNCHANGED order
    <3>1. UNCHANGED <<session, conv, order, left, late, raced>>
      BY <1>2, <2>1 DEF history
    <3>2. RowsMove
      BY <3>1, RowsStay DEF IInv, ChatsAreSound
    <3> QED
      BY <3>1, <3>2 DEF Found, Pending
  <2>2. CASE ~UNCHANGED order
    BY <1>1, <1>2, <1>3, <2>2, OrderMoves
  <2> QED
    BY <2>1, <2>2
<1>5. \A s \in Stages.none, r \in Requests :
        r.pc = s /\ r.on = None => Placed(r)' /\ HasClosed(r)'
  BY Apart DEF Placed, HasClosed
<1>6. ASSUME NEW s \in Stages.none, GoesOn(w, s, None)
      PROVE  IInv'
  <2>1. \A r \in Requests : r.pc = s /\ r.on = None => Placed(r)' /\ HasClosed(r)'
    BY <1>5
  <2> QED
    BY <1>2, <1>4, <1>6, <2>1, WritesStep
<1>7. ASSUME Goto(w, "write", Row("awaiting", o))
      PROVE  IInv'
  <2>1. /\ Row("awaiting", o) \in Sessions
        /\ Row("awaiting", o).at = "awaiting" /\ Row("awaiting", o).on = o
    BY SubjectsAre DEF Row
  <2>2. order'[o].status # "none"
    BY <1>1, <1>4
  <2> DEFINE row == Row("awaiting", o)
  <2> HIDE DEF row
  <2>3. \A r \in Requests : r.pc = "write" /\ r.on = row => Placed(r)' /\ HasClosed(r)'
    BY <2>1, <2>2 DEF Placed, HasClosed, IsSession, Stages, row
  <2>4. GoesOn(w, "write", row)
    BY <1>7, <2>1, StagesAre, SubjectsAre DEF row, GoesOn
  <2> QED
    BY <1>2, <1>4, <2>3, <2>4, WritesStep
<1>8. CASE ResetOrder(w)
  <2>1. GoesOn(w, "methods", None) /\ "methods" \in Stages.none
    BY <1>8, StagesAre, SubjectsAre DEF ResetOrder, GoesOn, Stages
  <2> QED
    BY <1>6, <2>1
<1>9. CASE AttachMethod(w)
  <2>1. CASE Finish(w)
    <3>1. GoesOn(w, "idle", None) /\ "idle" \in Stages.none
      BY <2>1, StagesAre, SubjectsAre DEF GoesOn, Stages
    <3> QED
      BY <1>6, <3>1
  <2>2. CASE Goto(w, "write", Row("awaiting", o))
    BY <1>7, <2>2
  <2> QED
    BY <1>1, <1>9, <2>1, <2>2 DEF AttachMethod
<1>10. CASE CancelOrder(w)
  <2>1. /\ GoesOn(w, "clear", None) \/ GoesOn(w, "clearNew", None)
        /\ "clear" \in Stages.none /\ "clearNew" \in Stages.none
    BY <1>10, StagesAre, SubjectsAre DEF CancelOrder, GoesOn, Stages
  <2> QED
    BY <1>6, <2>1
<1>11. CASE SubmitReceipt(w)
  <2>1. GoesOn(w, "leave", None) /\ "leave" \in Stages.none
    BY <1>11, StagesAre, SubjectsAre DEF SubmitReceipt, GoesOn, Stages
  <2> QED
    BY <1>6, <2>1
<1> QED
  BY <1>8, <1>9, <1>10, <1>11

\* The session of the customer is written or removed.
LEMMA SessionMoves ==
    ASSUME IInv, IsSession(session'), session'.at = "active" => session'.on \notin left,
           UNCHANGED <<conv, order, left, late, raced>>
    PROVE  /\ RowsMove
           /\ left' = left /\ raced' = raced
           /\ \A v \in Convs : Found(v)' => Found(v)
           /\ \A p \in Orders : Pending(p)' => Pending(p) /\ order'[p].offer = order[p].offer
<1>1. IsSession(session)'
  BY DEF IsSession
<1> QED
  BY <1>1 DEF RowsMove, IInv, ChatsAreSound, IsLeft, Found, Pending

LEMMA NoSessionIsSound == IsSession(NoSession) /\ NoSession.at = "none"
BY SubjectsAre DEF IsSession, NoSession, Row

LEMMA WriteSessionStep ==
    ASSUME IInv, NEW w \in Workers, WriteSession(w) \/ EnterSupport(w)
    PROVE  IInv'
<1>1. IsSession(session') /\ (session'.at = "active" => session'.on \notin left)
  <2>1. CASE WriteSession(w)
    BY <2>1, WorksOn DEF WriteSession, At
  <2>2. CASE EnterSupport(w)
    <3>1. PICK v \in Convs : v = req[w].on /\ conv[v] # "none" /\ v \notin left
      BY <2>2, WorksOn DEF EnterSupport, At, Stages, IInv, ChatsAreSound, IsLeft
    <3>2. session' = Row("active", v)
      BY <2>2, <3>1 DEF EnterSupport, Active
    <3>3. /\ Row("active", v) \in Sessions
          /\ Row("active", v).at = "active" /\ Row("active", v).on = v
      BY SubjectsAre DEF Row
    <3> QED
      BY <3>1, <3>2, <3>3 DEF IsSession
  <2> QED
    BY <2>1, <2>2
<1>2. /\ UNCHANGED <<conv, order, left, late, raced>> /\ Finish(w) /\ ~At(w, "idle")
  BY DEF WriteSession, EnterSupport, At, history
<1>3. \A r \in Requests : r.pc = "idle" /\ r.on = None => Placed(r)' /\ HasClosed(r)'
  BY DEF Placed, HasClosed, Stages
<1>4. GoesOn(w, "idle", None)
  BY <1>2, StagesAre, SubjectsAre DEF GoesOn
<1>5. /\ RowsMove
      /\ left' = left /\ raced' = raced
      /\ \A v \in Convs : Found(v)' => Found(v)
      /\ \A p \in Orders : Pending(p)' => Pending(p) /\ order'[p].offer = order[p].offer
  BY <1>1, <1>2, SessionMoves
<1> QED
  BY <1>2, <1>3, <1>4, <1>5, WritesStep

\* The message is put into a conversation that nobody has left.
LEMMA PostMessageStep ==
    ASSUME IInv, NEW w \in Workers, PostMessage(w)
    PROVE  IInv'
<1>1. req[w].on \notin left
  BY DEF PostMessage, At, IInv, ChatsAreSound, IsLeft
<1>2. late' = late
  BY <1>1 DEF PostMessage, IInv, ChatsAreSound
<1> QED
  BY <1>2, EndStep DEF PostMessage, Chat, history

\* The session is removed, and with it the last way to the conversation that
\* was closed.
LEMMA ClearSessionStep ==
    ASSUME IInv, NEW w \in Workers, ClearSession(w)
    PROVE  IInv'
<1> USE StagesAre, SubjectsAre
<1>1. /\ session' = NoSession
      /\ left' = left \cup {v \in Convs : At(w, "clear") /\ req[w].on = v /\ req[w].alone}
      /\ UNCHANGED <<conv, order, late, raced>> /\ ~At(w, "idle")
  BY DEF ClearSession, At
<1>2. \A v \in left' \ left : conv[v] = "closed" /\ v \in Convs
  BY <1>1, WorksOn, Apart DEF At
<1>3. left' = left \/ \A v \in Workers \ {w} : At(v, "idle")
  <2>1. req[w].alone => \A v \in Workers \ {w} : At(v, "idle")
    BY DEF IInv, ChatsAreSound, IsAlone
  <2> QED
    BY <1>1, <2>1
<1>4. IsSession(session)' /\ session'.at = "none"
  BY <1>1, NoSessionIsSound DEF IsSession
<1>5. RowsMove
  BY <1>1, <1>2, <1>4 DEF RowsMove, IInv, ChatsAreSound
<1>6. \E r \in Requests : /\ Takes(w, r) /\ (r.alone => req[w].alone)
                          /\ \/ r.pc \in {"idle", "clear", "buy"} /\ r.on = None
                             \/ r.pc = "write" /\ r.on = Row("plan", None)
  <2>1. CASE Finish(w)
    BY <2>1, FinishTakes, IdleRequest DEF IInv
  <2>2. CASE Goto(w, "clear", None)
    BY <1>1, <2>2, GotoTakes DEF IInv
  <2>3. CASE Goto(w, "write", Row("plan", None))
    BY <1>1, <2>3, GotoTakes DEF IInv
  <2>4. CASE Goto(w, "buy", None)
    BY <1>1, <2>4, GotoTakes DEF IInv
  <2> QED
    BY <2>1, <2>2, <2>3, <2>4 DEF ClearSession
<1>7. PICK r \in Requests : /\ Takes(w, r) /\ (r.alone => req[w].alone)
                            /\ \/ r.pc \in {"idle", "clear", "buy"} /\ r.on = None
                               \/ r.pc = "write" /\ r.on = Row("plan", None)
  BY <1>6
<1>8. Placed(r)' /\ HasClosed(r)'
  <2>1. CASE r.on = None /\ r.pc \in {"idle", "clear", "buy"}
    BY <2>1, Apart DEF Placed, HasClosed, Stages
  <2>2. CASE r.pc = "write" /\ r.on = Row("plan", None)
    <3>1. Row("plan", None).at = "plan"
      BY DEF Row
    <3> QED
      BY <2>2, <3>1 DEF Placed, HasClosed, Stages, IsSession
  <2> QED
    BY <1>7, <2>1, <2>2
<1>9. r.alone => \A v \in Workers \ {w} : At(v, "idle")
  BY <1>7 DEF IInv, ChatsAreSound, IsAlone
<1>10. r.pc \notin {"enter", "post", "createConv", "createPost", "findOrder", "createOrder"}
  BY <1>7
<1>11. /\ \A v \in Convs : Found(v)' => Found(v)
       /\ \A o \in Orders : Pending(o)' => Pending(o) /\ order'[o].offer = order[o].offer
  BY <1>1 DEF Found, Pending
<1> QED
  BY <1>1, <1>3, <1>5, <1>7, <1>8, <1>9, <1>10, <1>11, QuietStep

\* Without the session of a support dialog the conversation is left at once.
LEMMA ExitSupportStep ==
    ASSUME IInv, NEW w \in Workers, ExitSupport(w)
    PROVE  IInv'
<1> USE StagesAre, SubjectsAre
<1>1. At(w, "exit") /\ ~At(w, "idle") /\ UNCHANGED <<session, conv, order, late, raced>>
  BY DEF ExitSupport, At
<1>2. req[w].on = None \/ (req[w].on \in Convs /\ conv[req[w].on] = "closed")
  <2>1. req[w].pc \in {"exit", "clear"}
    BY <1>1 DEF At
  <2> QED
    BY <2>1, WorksOn
<1>3. CASE Leaves
  <2>1. Goto(w, "clear", req[w].on) /\ UNCHANGED Chat
    BY <1>1, <1>3 DEF ExitSupport, Chat, history
  <2>2. \A r \in Requests : r.pc = "clear" /\ r.on = req[w].on => Placed(r) /\ HasClosed(r)
    BY <1>2, Apart DEF Placed, HasClosed, Stages
  <2> QED
    BY <1>1, <1>2, <2>1, <2>2, GoStep
<1>4. CASE ~Leaves
  <2>1. /\ Finish(w)
        /\ left' = left \cup {v \in Convs : req[w].on = v /\ req[w].alone}
    BY <1>4 DEF ExitSupport
  <2>2. \A v \in left' \ left : conv[v] = "closed" /\ v \in Convs
    <3> SUFFICES ASSUME NEW v \in Convs, req[w].on = v
                 PROVE  conv[v] = "closed"
      BY <2>1
    <3> QED
      BY <1>2, Apart
  <2>3. left' = left \/ \A v \in Workers \ {w} : At(v, "idle")
    <3>1. req[w].alone => \A v \in Workers \ {w} : At(v, "idle")
      BY DEF IInv, ChatsAreSound, IsAlone
    <3> QED
      BY <2>1, <3>1
  <2>4. IsSession(session)' /\ session'.at # "active"
    BY <1>1, <1>4, SessionPoints DEF Leaves, InSupport, IsSession
  <2>5. RowsMove
    BY <1>1, <2>1, <2>2, <2>4 DEF RowsMove, IInv, ChatsAreSound
  <2>6. Takes(w, Idle)
    BY <2>1, FinishTakes DEF IInv
  <2>7. \A r \in Requests : r.pc = "idle" /\ r.on = None => Placed(r)' /\ HasClosed(r)'
    BY DEF Placed, HasClosed, Stages
  <2>8. PICK r \in Requests : Takes(w, r) /\ r.pc = "idle" /\ r.on = None /\ ~r.alone
    BY <2>6, IdleRequest
  <2>9. /\ \A v \in Convs : Found(v)' => Found(v)
        /\ \A o \in Orders : Pending(o)' => Pending(o) /\ order'[o].offer = order[o].offer
    BY <1>1 DEF Found, Pending
  <2> QED
    BY <1>1, <2>3, <2>5, <2>7, <2>8, <2>9, QuietStep
<1> QED
  BY <1>3, <1>4

\* A conversation is closed.
LEMMA ConversationMoves ==
    ASSUME IInv, NEW v \in Convs, conv[v] # "none", conv' = [conv EXCEPT ![v] = "closed"],
           UNCHANGED <<session, order, left, late, raced>>
    PROVE  /\ RowsMove
           /\ conv'[v] = "closed"
           /\ \A x \in Convs : Found(x)' => Found(x)
           /\ \A p \in Orders : Pending(p)' => Pending(p) /\ order'[p].offer = order[p].offer
<1>1. /\ conv'[v] = "closed" /\ conv' \in ConvRows
      /\ \A x \in Convs \ {v} : conv'[x] = conv[x]
  BY DEF IInv, ChatsAreSound, ConvRows
<1>2. IsSession(session)'
  BY <1>1, SessionPoints DEF IsSession
<1>3. RowsMove
  BY <1>1, <1>2 DEF RowsMove, IInv, ChatsAreSound, IsLeft
<1> QED
  BY <1>1, <1>3 DEF Found, Pending

LEMMA CloseConversationStep ==
    ASSUME IInv, NEW w \in Workers, CloseConversation(w)
    PROVE  IInv'
<1>1. PICK v \in Convs : v = req[w].on /\ conv[v] # "none"
  BY WorksOn DEF CloseConversation, At, Stages
<1>2. /\ conv' = [conv EXCEPT ![v] = "closed"]
      /\ UNCHANGED <<session, order, left, late, raced>>
      /\ GoesOn(w, "exit", v) /\ ~At(w, "idle")
  BY <1>1, StagesAre, SubjectsAre DEF GoesOn, CloseConversation, At, history
<1>3. \A r \in Requests : r.pc = "exit" /\ r.on = v => Placed(r)' /\ HasClosed(r)'
  BY <1>1, <1>2, ConversationMoves DEF Placed, HasClosed, Stages
<1>4. /\ RowsMove
      /\ \A x \in Convs : Found(x)' => Found(x)
      /\ \A p \in Orders : Pending(p)' => Pending(p) /\ order'[p].offer = order[p].offer
  BY <1>1, <1>2, ConversationMoves
<1> QED
  BY <1>2, <1>3, <1>4, WritesStep

\* A handler looks for the open conversation; the next one creates it.
LEMMA LookForStep ==
    ASSUME IInv, NEW w \in Workers, FindConversation(w) \/ FindToPost(w)
    PROVE  IInv'
<1> DEFINE NoneFound == \A v \in Convs : ~Found(v)
<1>1. /\ ~At(w, "idle") /\ ~Creates(w)
      /\ UNCHANGED <<session, conv, order, left, late>>
  BY DEF FindConversation, FindToPost, At, Creates
<1>2. raced' = raced \cup
          {x \in {"conversation"} : NoneFound /\ \E v \in Others(w) : Creates(v)}
  BY DEF FindConversation, FindToPost, LookFor, At, Creates
<1>3. RowsMove
  BY <1>1, <1>2, RowsStay DEF IInv, ChatsAreSound
<1>4. /\ \A v \in Convs : Found(v)' => Found(v)
      /\ \A o \in Orders : Pending(o)' => Pending(o) /\ order'[o].offer = order[o].offer
  BY <1>1 DEF Found, Pending
<1>5. req[w].alone => \A v \in Workers \ {w} : At(v, "idle")
  BY DEF IInv, ChatsAreSound, IsAlone
<1>6. ASSUME NEW s \in {"enter", "post"}, NEW v \in Convs, Found(v), Goto(w, s, v)
      PROVE  IInv'
  <2>1. PICK r \in Requests : /\ Takes(w, r) /\ r.pc = s /\ r.on = v
                              /\ r.alone = req[w].alone
    BY <1>1, <1>6, GotoTakes, StagesAre, SubjectsAre DEF IInv
  <2>2. Placed(r)' /\ HasClosed(r)'
    BY <1>1, <1>6, <2>1 DEF Placed, HasClosed, Found, Stages
  <2>3. v \notin left'
    BY <1>1, <1>6 DEF IInv, ChatsAreSound, IsLeft, Found
  <2>4. raced' = raced /\ left' = left
    BY <1>1, <1>2, <1>6
  <2> QED
    BY <1>3, <1>4, <1>5, <2>1, <2>2, <2>3, <2>4, QuietStep
<1>7. ASSUME NEW s \in {"createConv", "createPost"}, NoneFound, Goto(w, s, None)
      PROVE  IInv'
  <2>1. PICK r \in Requests : /\ Takes(w, r) /\ r.pc = s /\ r.on = None
                              /\ r.alone = req[w].alone
    BY <1>1, <1>7, GotoTakes, StagesAre, SubjectsAre DEF IInv
  <2>2. Placed(r)' /\ HasClosed(r)'
    BY <2>1, Apart DEF Placed, HasClosed, Stages
  <2>3. r.pc \notin {"enter", "post"} /\ left' = left
    BY <1>1, <2>1
  <2>4. ChatsAreSound'
    BY <1>3, <1>5, <2>1, <2>2, <2>3, ChatsStaySound DEF IInv
  <2>5. ConversationsAreSound'
    <3> SUFFICES ASSUME "conversation" \notin raced'
                 PROVE  \A x \in Workers : Creates(x)' => x = w
      BY <1>4, <1>7 DEF ConversationsAreSound
    <3>1. \A x \in Workers \ {w} : Creates(x) => x \in Others(w)
      BY DEF Others, Creates, At
    <3>2. \A x \in Workers \ {w} : ~Creates(x)
      BY <1>2, <1>7, <3>1
    <3> QED
      BY <2>1, <3>2 DEF Takes, Creates
  <2>6. OrdersNone
    BY <1>2, <1>4, <2>1 DEF OrdersNone, Chooses, Takes
  <2> QED
    BY <2>4, <2>5, <2>6, OrdersStaySound DEF IInv
<1>8. \/ \E v \in Convs : Found(v) /\ (Goto(w, "enter", v) \/ Goto(w, "post", v))
      \/ NoneFound /\ (Goto(w, "createConv", None) \/ Goto(w, "createPost", None))
  BY DEF FindConversation, FindToPost, LookFor
<1> QED
  BY <1>6, <1>7, <1>8

\* It is created by the one request that found none.
LEMMA CreateStep ==
    ASSUME IInv, NEW w \in Workers,
           Create(w, "createConv", "enter") \/ Create(w, "createPost", "post")
    PROVE  IInv'
<1>1. PICK v \in Convs : /\ conv[v] = "none" /\ conv' = [conv EXCEPT ![v] = "open"]
                         /\ Goto(w, "enter", v) \/ Goto(w, "post", v)
  BY DEF Create
<1>2. /\ ~At(w, "idle") /\ Creates(w)
      /\ UNCHANGED <<session, order, left, late, raced>>
  BY DEF Create, At, Creates, history
<1>3. /\ conv'[v] = "open" /\ conv' \in ConvRows
      /\ \A x \in Convs \ {v} : conv'[x] = conv[x]
  BY <1>1 DEF IInv, ChatsAreSound, ConvRows
<1>4. IsSession(session)'
  BY <1>2, <1>3, SessionPoints DEF IsSession
<1>5. RowsMove
  BY <1>1, <1>2, <1>3, <1>4 DEF RowsMove, IInv, ChatsAreSound, IsLeft
<1>6. \E r \in Requests : /\ Takes(w, r) /\ r.pc \in {"enter", "post"} /\ r.on = v
                          /\ r.alone = req[w].alone
  <2>1. CASE Goto(w, "enter", v)
    BY <1>2, <2>1, GotoTakes, StagesAre, SubjectsAre DEF IInv
  <2>2. CASE Goto(w, "post", v)
    BY <1>2, <2>2, GotoTakes, StagesAre, SubjectsAre DEF IInv
  <2> QED
    BY <1>1, <2>1, <2>2
<1>7. PICK r \in Requests : /\ Takes(w, r) /\ r.pc \in {"enter", "post"} /\ r.on = v
                            /\ r.alone = req[w].alone
  BY <1>6
<1>8. ChatsAreSound'
  <2>1. Placed(r)' /\ HasClosed(r)'
    BY <1>3, <1>7 DEF Placed, HasClosed, Stages
  <2>2. r.alone => \A x \in Workers \ {w} : At(x, "idle")
    BY <1>7 DEF IInv, ChatsAreSound, IsAlone
  <2>3. v \notin left' /\ left' = left
    BY <1>1, <1>2 DEF IInv, ChatsAreSound, IsLeft
  <2> QED
    BY <1>5, <1>7, <2>1, <2>2, <2>3, ChatsStaySound DEF IInv
<1>9. ConversationsAreSound'
  <2> SUFFICES ASSUME "conversation" \notin raced'
               PROVE  /\ \A x, y \in Convs : (Found(x) /\ Found(y))' => x = y
                      /\ \A x \in Workers : ~Creates(x)'
    BY DEF ConversationsAreSound
  <2>1. /\ \A x \in Convs : ~Found(x)
        /\ \A x \in Workers \ {w} : ~Creates(x)
    BY <1>2 DEF IInv, ConversationsAreSound
  <2>2. \A x \in Convs : Found(x)' => x = v
    BY <1>3, <2>1 DEF Found
  <2>3. \A x \in Workers : ~Creates(x)'
    BY <1>7, <2>1 DEF Takes, Creates
  <2> QED
    BY <2>2, <2>3
<1>10. OrdersNone
  BY <1>2, <1>7 DEF OrdersNone, Chooses, Takes, Pending
<1> QED
  BY <1>8, <1>9, <1>10, OrdersStaySound DEF IInv

-----------------------------------------------------------------------------
\* The order of an offer.

\* The orders of other offers are cancelled; whoever else chooses is noticed.
LEMMA ChooseDurationStep ==
    ASSUME IInv, NEW w \in Workers, NEW f \in Offers, ChooseDuration(w, f)
    PROVE  IInv'
<1>1. /\ order' = [o \in Orders |-> IF Stale(o, f) THEN Over ELSE order[o]]
      /\ raced' = raced \cup {x \in {"order"} : \E v \in Others(w) : Chooses(v)}
      /\ UNCHANGED <<session, conv, left, late>>
  BY DEF ChooseDuration, Chooses, At
<1>2. PICK r \in Requests : /\ Takes(w, r) /\ r.pc = "findOrder" /\ r.on = f
                            /\ ~r.alone
  <2>1. PICK a \in BOOLEAN : ~a /\ Begin(w, "findOrder", f, a) /\ f \in Subjects
    BY DEF ChooseDuration, Serve, Subjects
  <2>2. PICK r \in Requests : Takes(w, r) /\ r.pc = "findOrder" /\ r.on = f /\ r.alone = a
    BY <2>1, StagesAre, BeginTakes DEF IInv
  <2> QED
    BY <2>1, <2>2
<1>3. \A o \in Orders : /\ Pending(o)' => Pending(o) /\ order'[o] = order[o]
                                             /\ order[o].offer = f
                        /\ order[o].status # "none" => order'[o].status # "none"
  BY <1>1 DEF Pending, Stale, Over
<1>4. order' \in OrderRows
  <2>1. \A o \in Orders : order[o] \in [status : {"none", "PENDING", "AWAITING", "over"},
                                        offer : Offers \cup {None}]
    BY DEF IInv, ChatsAreSound, OrderRows
  <2>2. Over \in [status : {"none", "PENDING", "AWAITING", "over"}, offer : Offers \cup {None}]
    BY DEF Over
  <2> QED
    BY <1>1, <2>1, <2>2 DEF OrderRows
<1>5. IsSession(session)'
  BY <1>1, <1>3, SessionPoints DEF IsSession
<1>6. RowsMove
  BY <1>1, <1>3, <1>4, <1>5 DEF RowsMove, IInv, ChatsAreSound, IsLeft
<1>7. ChatsAreSound'
  <2>1. Placed(r)' /\ HasClosed(r)'
    BY <1>2 DEF Placed, HasClosed, Stages
  <2> QED
    BY <1>1, <1>2, <1>6, <2>1, ChatsStaySound DEF IInv
<1>8. OpensNone
  BY <1>1, <1>2 DEF OpensNone, Creates, Takes, Found
<1>9. OrdersAreSound'
  <2> SUFFICES ASSUME "order" \notin raced'
               PROVE  /\ \A o, p \in Orders : (Pending(o) /\ Pending(p))' => o = p
                      /\ \A o \in Orders : Pending(o)' => order'[o].offer = f
                      /\ \A x \in Workers : Chooses(x)' => x = w
                      /\ req'[w].pc = "findOrder" /\ req'[w].on = f
    BY DEF OrdersAreSound, At
  <2>1. \A x \in Workers \ {w} : Chooses(x) => x \in Others(w)
    BY DEF Others, Chooses, At
  <2>2. \A x \in Workers \ {w} : ~Chooses(x)
    BY <1>1, <2>1
  <2>3. \A x \in Workers : Chooses(x)' => x = w
    BY <1>2, <2>2 DEF Takes, Chooses
  <2>4. \A o, p \in Orders : (Pending(o) /\ Pending(p))' => o = p
    BY <1>1, <1>3 DEF IInv, OrdersAreSound
  <2>5. \A o \in Orders : Pending(o)' => order'[o].offer = f
    BY <1>3
  <2> QED
    BY <1>2, <2>3, <2>4, <2>5 DEF Takes
<1> QED
  BY <1>7, <1>8, <1>9, ConversationsStaySound DEF IInv

\* The pending order is another's, or there is none.
LEMMA FindOrderStep ==
    ASSUME IInv, NEW w \in Workers, FindOrder(w)
    PROVE  IInv'
<1>1. /\ At(w, "findOrder") /\ ~At(w, "idle") /\ UNCHANGED Chat
      /\ UNCHANGED <<session, conv, order, left, late, raced>>
  BY DEF FindOrder, At, Chat, history
<1>2. ASSUME NEW o \in Orders, Pending(o), Goto(w, "reset", o)
      PROVE  IInv'
  <2>1. \A r \in Requests : r.pc = "reset" /\ r.on = o => Placed(r) /\ HasClosed(r)
    BY <1>2, PendingExists DEF Placed, HasClosed, Stages
  <2> QED
    BY <1>1, <1>2, <2>1, StagesAre, SubjectsAre, GoStep
<1>3. ASSUME \A o \in Orders : Pending(o) => order[o].offer # req[w].on,
             Goto(w, "createOrder", req[w].on)
      PROVE  IInv'
  <2>1. PICK f \in Offers : f = req[w].on
    BY <1>1, WorksOn DEF At, Stages
  <2>2. PICK r \in Requests : /\ Takes(w, r) /\ r.pc = "createOrder" /\ r.on = f
                              /\ r.alone = req[w].alone
    <3>1. f \in Subjects
      BY DEF Subjects
    <3> QED
      BY <1>1, <1>3, <2>1, <3>1, StagesAre, GotoTakes DEF IInv
  <2>3. RowsMove
    BY <1>1, RowsStay DEF IInv, ChatsAreSound
  <2>4. ChatsAreSound'
    <3>1. Placed(r)' /\ HasClosed(r)'
      BY <2>2 DEF Placed, HasClosed, Stages
    <3>2. r.alone => \A v \in Workers \ {w} : At(v, "idle")
      BY <2>2 DEF IInv, ChatsAreSound, IsAlone
    <3> QED
      BY <1>1, <2>2, <2>3, <3>1, <3>2, ChatsStaySound DEF IInv
  <2>5. OpensNone
    BY <1>1, <2>2 DEF OpensNone, Creates, Takes, Found
  <2>6. OrdersAreSound'
    <3> SUFFICES ASSUME "order" \notin raced
                 PROVE  /\ \A o \in Orders : ~Pending(o)'
                        /\ \A x, y \in Workers : (Chooses(x) /\ Chooses(y))' => x = y
      BY <1>1 DEF OrdersAreSound
    <3>1. Chooses(w) /\ \A x \in Workers : Chooses(x)' => Chooses(x)
      BY <1>1, <2>2 DEF Chooses, Takes, At
    <3>2. \A o \in Orders : ~Pending(o)
      BY <1>3, <3>1 DEF IInv, OrdersAreSound
    <3> QED
      BY <1>1, <3>1, <3>2 DEF IInv, OrdersAreSound, Pending
  <2> QED
    BY <2>4, <2>5, <2>6, ConversationsStaySound DEF IInv
<1> QED
  BY <1>2, <1>3 DEF FindOrder

\* An order is created while none is pending.
LEMMA CreateOrderStep ==
    ASSUME IInv, NEW w \in Workers, CreateOrder(w)
    PROVE  IInv'
<1>1. /\ At(w, "createOrder") /\ ~At(w, "idle") /\ Chooses(w)
      /\ UNCHANGED <<session, conv, left, late, raced>>
  BY DEF CreateOrder, At, Chooses, history
<1>2. PICK f \in Offers : f = req[w].on
  BY <1>1, WorksOn DEF At, Stages
<1>3. PICK o \in Orders : /\ order[o].status = "none"
                          /\ order' = [order EXCEPT ![o] = [status |-> "PENDING", offer |-> f]]
                          /\ Goto(w, "reset", o)
  BY <1>2 DEF CreateOrder
<1>4. /\ order'[o] = [status |-> "PENDING", offer |-> f] /\ order' \in OrderRows
      /\ \A p \in Orders \ {o} : order'[p] = order[p]
  BY <1>3 DEF IInv, ChatsAreSound, OrderRows
<1>5. IsSession(session)'
  BY <1>1, <1>4, SessionPoints DEF IsSession
<1>6. RowsMove
  BY <1>1, <1>4, <1>5 DEF RowsMove, IInv, ChatsAreSound, IsLeft
<1>7. PICK r \in Requests : /\ Takes(w, r) /\ r.pc = "reset" /\ r.on = o
                            /\ r.alone = req[w].alone
  BY <1>1, <1>3, StagesAre, SubjectsAre, GotoTakes DEF IInv
<1>8. ChatsAreSound'
  <2>1. Placed(r)' /\ HasClosed(r)'
    BY <1>4, <1>7 DEF Placed, HasClosed, Stages
  <2>2. r.alone => \A v \in Workers \ {w} : At(v, "idle")
    BY <1>7 DEF IInv, ChatsAreSound, IsAlone
  <2> QED
    BY <1>1, <1>6, <1>7, <2>1, <2>2, ChatsStaySound DEF IInv
<1>9. OpensNone
  BY <1>1, <1>7 DEF OpensNone, Creates, Takes, Found
<1>10. OrdersAreSound'
  <2> SUFFICES ASSUME "order" \notin raced
               PROVE  /\ \A p \in Orders : Pending(p)' => p = o
                      /\ \A x \in Workers : ~Chooses(x)'
    BY <1>1 DEF OrdersAreSound
  <2>1. \A p \in Orders : ~Pending(p)
    BY <1>1 DEF IInv, OrdersAreSound, At
  <2>2. \A x \in Workers \ {w} : ~Chooses(x)
    BY <1>1 DEF IInv, OrdersAreSound
  <2>3. \A p \in Orders : Pending(p)' => p = o
    BY <1>4, <2>1 DEF Pending
  <2>4. \A x \in Workers : ~Chooses(x)'
    BY <1>7, <2>2 DEF Takes, Chooses
  <2> QED
    BY <2>3, <2>4
<1> QED
  BY <1>8, <1>9, <1>10, ConversationsStaySound DEF IInv

-----------------------------------------------------------------------------
\* What happens without a request of the customer's, and the whole step.

LEMMA FreeStep ==
    ASSUME IInv, req' \in [Workers -> Requests],
           \A v \in Workers : /\ req'[v].pc = req[v].pc /\ req'[v].on = req[v].on
                              /\ req'[v].alone => req[v].alone,
           RowsMove, left' = left, raced' = raced,
           \A v \in Convs : Found(v)' => Found(v),
           \A p \in Orders : Pending(p)' => Pending(p) /\ order'[p].offer = order[p].offer
    PROVE  IInv'
<1>1. \A v \in Workers : Placed(req[v])' /\ HasClosed(req[v])'
  <2> SUFFICES ASSUME NEW v \in Workers
               PROVE  Placed(req[v])' /\ HasClosed(req[v])'
    OBVIOUS
  <2>1. Placed(req[v]) /\ HasClosed(req[v])
    BY DEF IInv, ChatsAreSound
  <2>2. \A x : IsSession(x) /\ x.at # "active" => IsSession(x)'
    <3> SUFFICES ASSUME NEW x, IsSession(x), x.at \in {"reentry", "awaiting"}
                 PROVE  order'[x.on].status # "none"
      BY DEF IsSession
    <3>1. x.on \in Orders
      BY DEF IsSession, Sessions, NoSession, Row
    <3> QED
      BY <3>1 DEF RowsMove, IsSession
  <2>3. Placed(req[v])'
    BY <2>1, <2>2 DEF Placed, RowsMove
  <2>4. HasClosed(req[v])'
    BY <2>1 DEF HasClosed, RowsMove
  <2> QED
    BY <2>3, <2>4
<1>2. \A v \in Workers : IsAlone(v)'
  BY DEF IInv, ChatsAreSound, IsAlone, At
<1>3. \A v \in left' : IsLeft(v)'
  BY DEF IInv, ChatsAreSound, IsLeft, RowsMove
<1>4. ChatsAreSound'
  BY <1>1, <1>2, <1>3 DEF ChatsAreSound, RowsMove
<1>5. OpensNone
  BY DEF OpensNone, Creates
<1>6. OrdersNone
  BY DEF OrdersNone, Chooses
<1> QED
  BY <1>4, <1>5, <1>6, ConversationsStaySound, OrdersStaySound DEF IInv

LEMMA WriteNowStep ==
    ASSUME IInv, ShowSupportEntry \/ ShowPlan
    PROVE  IInv'
<1>1. /\ session' = Row("category", None) \/ session' = Row("plan", None)
      /\ req' = [v \in Workers |-> [req[v] EXCEPT !.alone = FALSE]]
      /\ UNCHANGED <<conv, order, left, late, raced>>
  BY DEF ShowSupportEntry, ShowPlan, WriteNow, history
<1>2. IsSession(session') /\ session'.at # "active"
  BY <1>1, SubjectsAre DEF IsSession, Row
<1>3. /\ RowsMove
      /\ left' = left /\ raced' = raced
      /\ \A v \in Convs : Found(v)' => Found(v)
      /\ \A p \in Orders : Pending(p)' => Pending(p) /\ order'[p].offer = order[p].offer
  BY <1>1, <1>2, SessionMoves
<1>4. /\ req' \in [Workers -> Requests]
      /\ \A v \in Workers : /\ req'[v].pc = req[v].pc /\ req'[v].on = req[v].on
                             /\ ~req'[v].alone
  BY <1>1 DEF IInv, ChatsAreSound, Requests
<1> QED
  BY <1>3, <1>4, FreeStep

LEMMA ExpireSessionStep ==
    ASSUME IInv, ExpireSession
    PROVE  IInv'
<1>1. /\ session' = NoSession /\ req' = req
      /\ UNCHANGED <<conv, order, left, late, raced>>
  BY DEF ExpireSession, history
<1>2. /\ RowsMove
      /\ left' = left /\ raced' = raced
      /\ \A v \in Convs : Found(v)' => Found(v)
      /\ \A p \in Orders : Pending(p)' => Pending(p) /\ order'[p].offer = order[p].offer
  BY <1>1, NoSessionIsSound, SessionMoves
<1> QED
  BY <1>1, <1>2, FreeStep DEF IInv, ChatsAreSound

LEMMA AdminCloseStep ==
    ASSUME IInv, NEW v \in Convs, AdminClose(v)
    PROVE  IInv'
<1>1. /\ conv[v] # "none" /\ conv' = [conv EXCEPT ![v] = "closed"] /\ req' = req
      /\ UNCHANGED <<session, order, left, late, raced>>
  BY DEF AdminClose, history
<1>2. /\ RowsMove
      /\ \A x \in Convs : Found(x)' => Found(x)
      /\ \A p \in Orders : Pending(p)' => Pending(p) /\ order'[p].offer = order[p].offer
  BY <1>1, ConversationMoves
<1> QED
  BY <1>1, <1>2, FreeStep DEF IInv, ChatsAreSound

LEMMA StutterStep ==
    ASSUME IInv, UNCHANGED vars
    PROVE  IInv'
<1>1. UNCHANGED <<session, conv, order, left, late, raced>> /\ req' = req
  BY DEF vars
<1>2. RowsMove
  BY <1>1, RowsStay DEF IInv, ChatsAreSound
<1>3. /\ \A v \in Convs : Found(v)' => Found(v)
      /\ \A o \in Orders : Pending(o)' => Pending(o) /\ order'[o].offer = order[o].offer
  BY <1>1 DEF Found, Pending
<1> QED
  BY <1>1, <1>2, <1>3, FreeStep DEF IInv, ChatsAreSound

LEMMA InitIsSound == Init => IInv
<1> SUFFICES ASSUME Init
             PROVE  IInv
  OBVIOUS
<1>1. \A w \in Workers : req[w] = Idle
  BY DEF Init
<1>2. Placed(Idle) /\ HasClosed(Idle)
  BY IdleRequest DEF Placed, HasClosed, Stages
<1>3. IsSession(session) /\ session.at = "none"
  BY NoSessionIsSound DEF Init
<1>4. ChatsAreSound
  BY <1>1, <1>2, <1>3, IdleRequest DEF Init, ChatsAreSound, ConvRows, OrderRows, IsAlone
<1>5. ConversationsAreSound
  BY <1>1, IdleRequest DEF Init, ConversationsAreSound, Found, Creates
<1>6. OrdersAreSound
  BY <1>1, IdleRequest DEF Init, OrdersAreSound, Pending, Chooses
<1> QED
  BY <1>4, <1>5, <1>6 DEF IInv

LEMMA ContinueStep ==
    ASSUME IInv, NEW w \in Workers, Continue(w)
    PROVE  IInv'
<1>1. CASE WriteSession(w) \/ EnterSupport(w)
  BY <1>1, WriteSessionStep
<1>2. CASE ClearSession(w)
  BY <1>2, ClearSessionStep
<1>3. CASE FindConversation(w) \/ FindToPost(w)
  BY <1>3, LookForStep
<1>4. CASE Create(w, "createConv", "enter") \/ Create(w, "createPost", "post")
  BY <1>4, CreateStep
<1>5. CASE CloseConversation(w)
  BY <1>5, CloseConversationStep
<1>6. CASE ExitSupport(w)
  BY <1>6, ExitSupportStep
<1>7. CASE PostMessage(w)
  BY <1>7, PostMessageStep
<1>8. CASE \/ ReadConversation(w) \/ ShowBuyFlow(w) \/ OfferMethods(w)
           \/ FindToCancel(w) \/ ReadReceiptSession(w) \/ FindAwaiting(w)
           \/ CheckAwaiting(w) \/ LeavePurchase(w)
  BY <1>8, ReadingStep
<1>9. CASE FindOrder(w)
  BY <1>9, FindOrderStep
<1>10. CASE CreateOrder(w)
  BY <1>10, CreateOrderStep
<1>11. CASE ResetOrder(w) \/ AttachMethod(w) \/ CancelOrder(w) \/ SubmitReceipt(w)
  BY <1>11, OrderWriteStep
<1> QED
  BY <1>1, <1>2, <1>3, <1>4, <1>5, <1>6, <1>7, <1>8, <1>9, <1>10, <1>11 DEF Continue

LEMMA NextStep == IInv /\ [Next]_vars => IInv'
<1> SUFFICES ASSUME IInv, [Next]_vars
             PROVE  IInv'
  OBVIOUS
<1>1. ASSUME NEW w \in Workers, Press(w)
      PROVE  IInv'
  BY <1>1, PressStep, ChooseDurationStep
<1>2. ASSUME NEW w \in Workers, Continue(w)
      PROVE  IInv'
  BY <1>2, ContinueStep
<1>3. ASSUME NEW w \in Workers, Crash(w)
      PROVE  IInv'
  BY <1>3, EndStep DEF Crash
<1>4. CASE ShowSupportEntry \/ ShowPlan
  BY <1>4, WriteNowStep
<1>5. CASE ExpireSession
  BY <1>5, ExpireSessionStep
<1>6. ASSUME NEW v \in Convs, AdminClose(v)
      PROVE  IInv'
  BY <1>6, AdminCloseStep
<1>7. CASE UNCHANGED vars
  BY <1>7, StutterStep
<1> QED
  BY <1>1, <1>2, <1>3, <1>4, <1>5, <1>6, <1>7 DEF Next

\* What the handlers of any number of updates keep between them.
THEOREM Invariance == Spec => []IInv
BY InitIsSound, NextStep, PTL DEF Spec

\* The rows and the requests have their types, and a session names a row that
\* exists.
THEOREM TypeCorrect == Spec => []TypeOK
<1>1. IInv => TypeOK
  <2> SUFFICES ASSUME IInv
               PROVE  TypeOK
    OBVIOUS
  <2>1. ASSUME NEW w \in Workers
        PROVE  \/ req[w].pc \in Stages.none /\ req[w].on = None
               \/ req[w].pc \in Stages.conv /\ req[w].on \in Convs
               \/ req[w].pc \in Stages.order /\ req[w].on \in Orders
               \/ req[w].pc \in Stages.offer /\ req[w].on \in Offers
               \/ req[w].pc \in Stages.write /\ req[w].on \in Sessions
    <3>1. Placed(req[w])
      BY DEF IInv, ChatsAreSound
    <3> QED
      BY <3>1 DEF Placed, IsSession
  <2> QED
    BY <2>1 DEF IInv, ChatsAreSound, IsSession, TypeOK
<1> QED
  BY <1>1, Invariance, PTL

\* A set whose members are all the same has one at most.
LEMMA AtMostOne ==
    ASSUME NEW S, \A x, y \in S : x = y
    PROVE  Cardinality(S) <= 1
<1>1. CASE S = {}
  BY <1>1, FS_EmptySet
<1>2. CASE S # {}
  <2>1. PICK x \in S : S = {x}
    BY <1>2
  <2> QED
    BY <2>1, FS_Singleton
<1> QED
  BY <1>1, <1>2

\* A customer never has two open conversations that no race accounts for, for
\* any number of updates served at a time (support.service.ts,
\* getOrCreateOpenConversation).
THEOREM OneConversation == Spec => []OneOpenConversation
<1>1. IInv => OneOpenConversation
  <2> SUFFICES ASSUME IInv, "conversation" \notin raced
               PROVE  Cardinality({v \in Convs : conv[v] = "open"}) <= 1
    BY DEF OneOpenConversation
  <2>1. \A v, x \in {y \in Convs : conv[y] = "open"} : v = x
    BY DEF IInv, ConversationsAreSound, Found
  <2> QED
    BY <2>1, AtMostOne
<1> QED
  BY <1>1, Invariance, PTL

\* Nor two pending orders: startOrderFlow, the old buttons and a new purchase
\* leave one.
THEOREM OneOrder == Spec => []OnePendingOrder
<1>1. IInv => OnePendingOrder
  <2> SUFFICES ASSUME IInv, "order" \notin raced
               PROVE  Cardinality({o \in Orders : Pending(o)}) <= 1
    BY DEF OnePendingOrder
  <2>1. \A o, p \in {x \in Orders : Pending(x)} : o = p
    BY DEF IInv, OrdersAreSound
  <2> QED
    BY <2>1, AtMostOne
<1> QED
  BY <1>1, Invariance, PTL

\* Nothing is put into a conversation that the customer closed while no other
\* update was in progress, whatever session expires and whatever crashes.
THEOREM LeftIsLeft == Spec => []LeftForGood
<1>1. IInv => LeftForGood
  BY DEF IInv, ChatsAreSound, LeftForGood
<1> QED
  BY <1>1, Invariance, PTL
=============================================================================
