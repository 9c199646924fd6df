----------------------------- MODULE KeyNotices -----------------------------
(***************************************************************************)
(* Who is told what about a payment.  When a receipt is stored, every      *)
(* administrator is sent it with a button to approve; the order may be     *)
(* approved by any of them there or in the panel, and whoever issues the   *)
(* license tells the customer its key, which is kept in the outbox; "My    *)
(* key" shows the customer a key from there later.                         *)
(*                                                                         *)
(* How orders come to be paid and rejected is in Payments; a key is named  *)
(* by its order.                                                           *)
(***************************************************************************)
EXTENDS FiniteSets, Integers, Sequences

CONSTANTS
    Orders,
    Customers,
    Workers,   \* bound: the approvals in progress at one time
    None

KeyNoticesAssumption == None \notin Orders

VARIABLES
    of,       \* whose each order is
    paid,     \* Order.status: awaiting, review, completed, rejected
    key,      \* the license of the order: none, active, or ended
    later,    \* the orders as their licenses would end
    outbox,   \* NotificationOutbox: the orders whose keys are kept, in order
    noticed,  \* the orders whose notice reached some administrator
    job,      \* the approvals in progress
    told,     \* history: how often the key of an order was announced
    screens,  \* history: <<customer, key, license of the date>> that "My key" showed
    unsaid    \* history: orders an announcement of which failed or was cut off

vars == <<of, paid, key, later, outbox, noticed, job, told, screens, unsaid>>

Idle == [pc |-> "idle", o |-> None]

\* The ways to put all orders in an order.
AllInOrder == {s \in [1..Cardinality(Orders) -> Orders] : Orders \subseteq {s[i] : i \in DOMAIN s}}

TypeOK ==
    /\ of \in [Orders -> Customers]
    /\ paid \in [Orders -> {"awaiting", "review", "completed", "rejected"}]
    /\ key \in [Orders -> {"none", "active", "ended"}]
    /\ later \in AllInOrder
    /\ outbox \in Seq(Orders)
    /\ noticed \subseteq Orders
    /\ job \in [Workers -> [pc : {"idle", "notify", "read", "issue", "complete", "tell"},
                            o : Orders \cup {None}]]
    /\ told \in [Orders -> 0..2]
    /\ screens \subseteq Customers \X Orders \X Orders
    /\ unsaid \subseteq Orders

Init ==
    /\ of \in [Orders -> Customers]
    /\ paid = [o \in Orders |-> "awaiting"]
    /\ key = [o \in Orders |-> "none"]
    /\ later \in AllInOrder
    /\ outbox = <<>>
    /\ noticed = {}
    /\ job = [w \in Workers |-> Idle]
    /\ told = [o \in Orders |-> 0]
    /\ screens = {} /\ unsaid = {}

-----------------------------------------------------------------------------
\* A definition whose comment begins with "Mutant:" is a wrong version of the
\* definition that follows it.  Nothing uses it: it stands for a bug the
\* properties must notice.

At(w, stage) == job[w].pc = stage
Goto(w, stage) == job' = [job EXCEPT ![w].pc = stage]
Serve(w, stage, o) == job' = [job EXCEPT ![w] = [pc |-> stage, o |-> o]]
Finish(w) == job' = [job EXCEPT ![w] = Idle]

\* A receipt is stored, and its handler goes on to notify.
StoreReceipt(w, o) ==
    /\ At(w, "idle") /\ paid[o] = "awaiting"
    /\ paid' = [paid EXCEPT ![o] = "review"]
    /\ Serve(w, "notify", o)
    /\ UNCHANGED <<of, key, later, outbox, noticed, told, screens, unsaid>>

\* Each administrator is sent the receipt in a call of its own, and a call that
\* fails is logged: the notice reaches some of them, or nobody.
NotifyAdmins(w) ==
    /\ At(w, "notify")
    /\ noticed' \in {noticed, noticed \cup {job[w].o}}
    /\ Finish(w)
    /\ UNCHANGED <<of, paid, key, later, outbox, told, screens, unsaid>>

\* The button of a notice, and the button of the panel, which shows every order.
PressApprove(w, o) ==
    /\ At(w, "idle") /\ o \in noticed
    /\ Serve(w, "read", o)
    /\ UNCHANGED <<of, paid, key, later, outbox, noticed, told, screens, unsaid>>

PanelApprove(w, o) ==
    /\ At(w, "idle")
    /\ Serve(w, "read", o)
    /\ UNCHANGED <<of, paid, key, later, outbox, noticed, told, screens, unsaid>>

\* A second approval finds the license, any other order is refused.
ReadOrder(w) ==
    LET o == job[w].o IN
    /\ At(w, "read")
    /\ IF key[o] = "none" /\ paid[o] = "review" THEN Goto(w, "issue") ELSE Finish(w)
    /\ UNCHANGED <<of, paid, key, later, outbox, noticed, told, screens, unsaid>>

\* Mutant: the approval that finds the license of another announces it too.
AfterDuplicateTell == "tell"

AfterDuplicate == "idle"

\* issueLicense reads and inserts; the unique index on the order ends one of two.
IssueKey(w) ==
    LET o == job[w].o IN
    /\ At(w, "issue")
    /\ IF key[o] = "none"
       THEN key' = [key EXCEPT ![o] = "active"] /\ Goto(w, "complete")
       ELSE /\ UNCHANGED key
            /\ IF AfterDuplicate = "idle" THEN Finish(w) ELSE Goto(w, AfterDuplicate)
    /\ UNCHANGED <<of, paid, later, outbox, noticed, told, screens, unsaid>>

\* The order is completed and the key kept in one transaction.
Complete(w) ==
    /\ At(w, "complete")
    /\ paid' = [paid EXCEPT ![job[w].o] = "completed"]
    /\ outbox' = Append(outbox, job[w].o)
    /\ Goto(w, "tell")
    /\ UNCHANGED <<of, key, later, noticed, told, screens, unsaid>>

\* handleAdminDecision or deliverLicenseKey sends the key, once.
TellCustomer(w) ==
    LET o == job[w].o IN
    /\ At(w, "tell")
    /\ \/ told' = [told EXCEPT ![o] = IF @ = 2 THEN 2 ELSE @ + 1] /\ UNCHANGED unsaid
       \/ unsaid' = unsaid \cup {o} /\ UNCHANGED told
    /\ Finish(w)
    /\ UNCHANGED <<of, paid, key, later, outbox, noticed, screens>>

\* The customer asks for "My key": the newest kept key of the customer, if he has
\* a license that is active.  The date that is shown with it is that of the one
\* which ends last, which may be another's.
IsLast(o, s, S) ==
    \E i \in DOMAIN s : /\ s[i] = o /\ o \in S
                        /\ \A j \in DOMAIN s : j > i => s[j] \notin S

KeptOf(c) == {o \in Orders : of[o] = c}
ActiveOf(c) == {o \in Orders : of[o] = c /\ key[o] = "active"}

ShowMyKey(c) ==
    /\ \E o, last \in Orders :
          /\ IsLast(o, outbox, KeptOf(c))
          /\ IsLast(last, later, ActiveOf(c))
          /\ screens' = screens \cup {<<c, o, last>>}
    /\ UNCHANGED <<of, paid, key, later, outbox, noticed, job, told, unsaid>>

\* Elsewhere: an order under review is rejected, a license is revoked.
RejectOrder(o) ==
    /\ paid[o] = "review"
    /\ paid' = [paid EXCEPT ![o] = "rejected"]
    /\ UNCHANGED <<of, key, later, outbox, noticed, job, told, screens, unsaid>>

EndLicense(o) ==
    /\ key[o] = "active"
    /\ key' = [key EXCEPT ![o] = "ended"]
    /\ UNCHANGED <<of, paid, later, outbox, noticed, job, told, screens, unsaid>>

Crash(w) ==
    /\ ~At(w, "idle")
    /\ unsaid' = IF job[w].pc \in {"complete", "tell"} THEN unsaid \cup {job[w].o} ELSE unsaid
    /\ Finish(w)
    /\ UNCHANGED <<of, paid, key, later, outbox, noticed, told, screens>>

Next ==
    \/ \E w \in Workers, o \in Orders :
          StoreReceipt(w, o) \/ PressApprove(w, o) \/ PanelApprove(w, o)
    \/ \E w \in Workers : NotifyAdmins(w) \/ ReadOrder(w) \/ IssueKey(w) \/ Complete(w)
    \/ \E w \in Workers : TellCustomer(w) \/ Crash(w)
    \/ \E o \in Orders : RejectOrder(o) \/ EndLicense(o)
    \/ \E c \in Customers : ShowMyKey(c)

Spec == Init /\ [][Next]_vars

-----------------------------------------------------------------------------
\* Safety.

\* The key of a license is announced to its customer once, whoever approves the
\* order and how often, unless the announcement failed or was cut off; and "My
\* key" shows nobody the key of another.
AnnouncedOnce ==
    \A o \in Orders :
        /\ told[o] <= 1
        /\ key[o] # "none" => \/ told[o] = 1 \/ o \in unsaid
                              \/ \E w \in Workers : job[w].o = o
        /\ \A x \in screens : o \in {x[2], x[3]} => of[o] = x[1]
=============================================================================
