------------------------------ MODULE DataReset ------------------------------
(***************************************************************************)
(* The resets an owner may start from the panel while customers go on: the *)
(* cleanup of test data, the reset of all user data and the factory reset. *)
(*                                                                         *)
(* Users, orders and licenses stand for the tables that are emptied: the   *)
(* devices, sessions, challenges and conversations of a user go with the   *)
(* user.  A deleting transaction runs statement by statement at READ       *)
(* COMMITTED: what it has deleted is seen by others when it commits, and   *)
(* requests that refer to such rows wait.  References are those of the     *)
(* schema: a user with orders is not deleted (Restrict), a license         *)
(* outlives its order and its user (SetNull).                              *)
(*                                                                         *)
(* The confirmation phrase, the preview and the password come before       *)
(* anything is touched; they are taken to be right.                        *)
(***************************************************************************)
EXTENDS Integers, FiniteSets

CONSTANTS
    Users,     \* bound: the users that ever exist
    TestUsers, \* those whose name or address matches a test pattern
    Orders,    \* bound: the orders that ever exist
    Licenses,  \* bound: the licenses that ever exist
    Resets,    \* bound: the resets in progress at one time
    None       \* SQL NULL, "no value"

ASSUME ResetAssumption ==
    /\ TestUsers \subseteq Users
    /\ None \notin Users \cup Orders \cup Licenses

VARIABLES
    user,    \* User rows
    order,   \* Order rows
    license, \* License rows
    lock,    \* the SystemConfig row DATA_RESET_IN_PROGRESS
    run,     \* the resets in progress
    raced    \* history: a reset took a lock it had seen free before another took it

vars == <<user, order, license, lock, run, raced>>
data == <<user, order, license>>

Scopes == {"TEST_DATA_CLEANUP", "USER_DATA_RESET", "FACTORY_RESET"}
Life == {"none", "here", "gone"}
Rows == [u : SUBSET Users, o : SUBSET Orders, l : SUBSET Licenses]
NoRows == [u |-> {}, o |-> {}, l |-> {}]
Idle == [pc |-> "idle", scope |-> None, sel |-> NoRows, dead |-> NoRows,
         found |-> NoRows, overtaken |-> FALSE, failed |-> FALSE]

Inside == {"count", "selectUsers", "selectOrders", "selectLicenses", "licenses",
           "orders", "users", "commit", "setup", "plans", "unlock"}

UserRows == [Users -> Life]
OrderRows == [Orders -> [life : Life, user : Users \cup {None}]]
LicenseRows ==
    [Licenses -> [life : Life, user : Users \cup {None}, order : Orders \cup {None}]]
LockValues == {"none", "true", "false"}

TypeOK ==
    /\ user \in UserRows
    /\ order \in OrderRows
    /\ license \in LicenseRows
    /\ lock \in LockValues
    /\ run \in [Resets -> [pc : Inside \cup {"idle", "lock", "take"},
                           scope : Scopes \cup {None}, sel : Rows, dead : Rows,
                           found : Rows, overtaken : BOOLEAN, failed : BOOLEAN]]
    /\ raced \in BOOLEAN
    /\ \A o \in Orders : order[o].life = "here" => user[order[o].user] = "here"
    /\ \A l \in Licenses : license[l].life = "here" =>
         /\ license[l].user # None => user[license[l].user] = "here"
         /\ license[l].order # None => order[license[l].order].life = "here"

Init ==
    /\ user \in [Users -> {"none", "here"}]
    /\ order = [o \in Orders |-> [life |-> "none", user |-> None]]
    /\ license = [l \in Licenses |-> [life |-> "none", user |-> None,
                                      order |-> None]]
    /\ lock = "none"
    /\ run = [r \in Resets |-> Idle]
    /\ raced = FALSE

-----------------------------------------------------------------------------
\* A definition whose comment begins with "Mutant:" is a wrong version of the
\* definition that follows it.  Nothing uses it: it stands for a bug the
\* properties must notice.

At(r, stage) == run[r].pc = stage
Goto(r, stage) == run' = [run EXCEPT ![r].pc = stage]
With(r, x) == run' = [run EXCEPT ![r] = x]

UsersHere == {u \in Users : user[u] = "here"}
OrdersHere == {o \in Orders : order[o].life = "here"}
LicensesHere == {l \in Licenses : license[l].life = "here"}
Here == [u |-> UsersHere, o |-> OrdersHere, l |-> LicensesHere]

\* Rows that a transaction of another reset has deleted and not committed.
DyingUser(u) == \E r \in Resets : u \in run[r].dead.u
DyingOrder(o) == \E r \in Resets : o \in run[r].dead.o
Others(r) == Resets \ {r}

-----------------------------------------------------------------------------
\* The requests of customers and administrators that go on meanwhile.  One that
\* refers to a dying row waits for the transaction.
Register(u) ==
    /\ user[u] = "none"
    /\ user' = [user EXCEPT ![u] = "here"]
    /\ UNCHANGED <<order, license, lock, run, raced>>

PlaceOrder(o, u) ==
    /\ order[o].life = "none"
    /\ u \in UsersHere /\ ~DyingUser(u)
    /\ order' = [order EXCEPT ![o] = [life |-> "here", user |-> u]]
    /\ UNCHANGED <<user, license, lock, run, raced>>

IssueForOrder(l, o) ==
    /\ license[l].life = "none"
    /\ o \in OrdersHere /\ ~DyingOrder(o) /\ ~DyingUser(order[o].user)
    /\ \A k \in LicensesHere : license[k].order # o
    /\ license' = [license EXCEPT ![l] = [life |-> "here", user |-> order[o].user,
                                          order |-> o]]
    /\ UNCHANGED <<user, order, lock, run, raced>>

\* createManual: a license without an order, for a user or for nobody.
IssueByHand(l, u) ==
    /\ license[l].life = "none"
    /\ u # None => u \in UsersHere /\ ~DyingUser(u)
    /\ license' = [license EXCEPT ![l] = [life |-> "here", user |-> u,
                                          order |-> None]]
    /\ UNCHANGED <<user, order, lock, run, raced>>

-----------------------------------------------------------------------------
\* execute: phrase, preview and password are right.
Execute(r, scope) ==
    /\ At(r, "idle")
    /\ With(r, [Idle EXCEPT !.pc = "lock", !.scope = scope])
    /\ UNCHANGED <<data, lock, raced>>

LockFree == lock # "true"

ReadLock(r) ==
    /\ At(r, "lock")
    /\ IF LockFree THEN Goto(r, "take") ELSE With(r, Idle)
    /\ UNCHANGED <<data, lock, raced>>

\* The lock is written whatever it is by now.
TakeLock(r) ==
    /\ At(r, "take")
    /\ lock' = "true"
    /\ raced' = (raced \/ run[r].overtaken)
    /\ run' = [q \in Resets |->
                 IF q = r THEN [run[r] EXCEPT !.pc = "count"]
                 ELSE IF At(q, "take") THEN [run[q] EXCEPT !.overtaken = TRUE]
                 ELSE run[q]]
    /\ UNCHANGED data

\* The rows are counted before the try block.
CountRows(r) ==
    /\ At(r, "count")
    /\ IF run[r].scope = "TEST_DATA_CLEANUP"
       THEN Goto(r, "selectUsers")
       ELSE With(r, [run[r] EXCEPT !.pc = "licenses", !.found = Here])
    /\ UNCHANGED <<data, lock, raced>>

-----------------------------------------------------------------------------
\* buildTestSelection reads users, orders and licenses one after the other.
SelectUsers(r) ==
    /\ At(r, "selectUsers")
    /\ With(r, [run[r] EXCEPT !.pc = "selectOrders",
                              !.sel.u = UsersHere \cap TestUsers])
    /\ UNCHANGED <<data, lock, raced>>

\* Mutant: the orders of all users are selected.
OrdersOfAnybody(us) == OrdersHere

OrdersOf(us) == {o \in OrdersHere : order[o].user \in us}

SelectOrders(r) ==
    /\ At(r, "selectOrders")
    /\ With(r, [run[r] EXCEPT !.pc = "selectLicenses",
                              !.sel.o = OrdersOf(run[r].sel.u)])
    /\ UNCHANGED <<data, lock, raced>>

SelectLicenses(r) ==
    /\ At(r, "selectLicenses")
    /\ With(r, [run[r] EXCEPT !.pc = "licenses",
                  !.sel.l = {l \in LicensesHere :
                               \/ license[l].user \in run[r].sel.u
                               \/ license[l].order \in run[r].sel.o}])
    /\ UNCHANGED <<data, lock, raced>>

\* Mutant: the rows the cleanup selected are deleted, whatever the scope.
SelectedRows(r) ==
    [u |-> UsersHere \cap run[r].sel.u, o |-> OrdersHere \cap run[r].sel.o,
     l |-> LicensesHere \cap run[r].sel.l]

\* What the deleting statements of the scope find.
Doomed(r) ==
    IF run[r].scope = "TEST_DATA_CLEANUP"
    THEN [u |-> UsersHere \cap run[r].sel.u, o |-> OrdersHere \cap run[r].sel.o,
          l |-> LicensesHere \cap run[r].sel.l]
    ELSE Here

\* A statement waits for the rows that another transaction is deleting.
DeleteLicenses(r) ==
    /\ At(r, "licenses")
    /\ \A q \in Others(r) : run[q].dead.l \cap Doomed(r).l = {}
    /\ With(r, [run[r] EXCEPT !.pc = "orders", !.dead.l = Doomed(r).l,
                              !.sel.l = {}])
    /\ UNCHANGED <<data, lock, raced>>

DeleteOrders(r) ==
    /\ At(r, "orders")
    /\ \A q \in Others(r) : run[q].dead.o \cap Doomed(r).o = {}
    /\ With(r, [run[r] EXCEPT !.pc = "users", !.dead.o = Doomed(r).o,
                              !.sel.o = {}])
    /\ UNCHANGED <<data, lock, raced>>

Failed(r) == [Idle EXCEPT !.pc = "unlock", !.scope = run[r].scope, !.failed = TRUE]

\* An order that was placed since keeps its user, and the transaction is rolled
\* back.
DeleteUsers(r) ==
    /\ At(r, "users")
    /\ \A q \in Others(r) : /\ run[q].dead.u \cap Doomed(r).u = {}
                            /\ run[q].dead.o \cap OrdersOf(Doomed(r).u) = {}
    /\ IF OrdersOf(Doomed(r).u) \subseteq run[r].dead.o
       THEN With(r, [run[r] EXCEPT !.pc = "commit", !.dead.u = Doomed(r).u,
                                   !.sel.u = {}])
       ELSE With(r, Failed(r))
    /\ UNCHANGED <<data, lock, raced>>

\* The references of a license are set to NULL.
Unlinked(l, dead) ==
    [license[l] EXCEPT !.user = IF @ \in dead.u THEN None ELSE @,
                       !.order = IF @ \in dead.o THEN None ELSE @]

\* The rows with those of dead deleted.
Without(dead) ==
    /\ user' = [u \in Users |-> IF u \in dead.u THEN "gone" ELSE user[u]]
    /\ order' = [o \in Orders |->
                   IF o \in dead.o THEN [life |-> "gone", user |-> None]
                                   ELSE order[o]]
    /\ license' = [l \in Licenses |->
         IF l \in dead.l THEN [life |-> "gone", user |-> None, order |-> None]
         ELSE Unlinked(l, dead)]

Commit(r) ==
    /\ At(r, "commit")
    /\ Without(run[r].dead)
    /\ With(r, [run[r] EXCEPT !.dead = NoRows,
                  !.pc = IF run[r].scope = "FACTORY_RESET" THEN "setup"
                                                           ELSE "unlock"])
    /\ UNCHANGED <<lock, raced>>

\* A statement fails for another reason.
FailStatement(r) ==
    /\ run[r].pc \in Inside \ {"count", "unlock"}
    /\ With(r, Failed(r))
    /\ UNCHANGED <<data, lock, raced>>

-----------------------------------------------------------------------------
\* Mutant: the lock is deleted with the other configuration.
LockGone == "none"

LockKept == lock

\* applyFactoryBootstrap: payment methods, versions and configuration are deleted,
\* each on its own, but for the lock.
DeleteSetup(r) ==
    /\ At(r, "setup")
    /\ lock' = LockKept
    /\ Goto(r, "plans")
    /\ UNCHANGED <<data, raced>>

\* Plans that are missing are created; those that exist are not touched.
BootstrapPlans(r) ==
    /\ At(r, "plans")
    /\ Goto(r, "unlock")
    /\ UNCHANGED <<data, lock, raced>>

\* finally
Unlock(r) ==
    /\ At(r, "unlock")
    /\ lock' = "false"
    /\ With(r, Idle)
    /\ UNCHANGED <<data, raced>>

\* The invocation ends; the database rolls its transaction back.  Counting the
\* rows may also fail, outside of the try block.
Crash(r) ==
    /\ ~At(r, "idle")
    /\ With(r, Idle)
    /\ UNCHANGED <<data, lock, raced>>

Serve(r) ==
    \/ ReadLock(r) \/ TakeLock(r) \/ CountRows(r)
    \/ SelectUsers(r) \/ SelectOrders(r) \/ SelectLicenses(r)
    \/ DeleteLicenses(r) \/ DeleteOrders(r) \/ DeleteUsers(r) \/ Commit(r)
    \/ FailStatement(r)
    \/ DeleteSetup(r) \/ BootstrapPlans(r)
    \/ Unlock(r)

GoOn ==
    \/ \E u \in Users : Register(u)
    \/ \E o \in Orders, u \in Users : PlaceOrder(o, u)
    \/ \E l \in Licenses, o \in Orders : IssueForOrder(l, o)
    \/ \E l \in Licenses, u \in Users \cup {None} : IssueByHand(l, u)

Next ==
    \/ GoOn
    \/ \E r \in Resets, s \in Scopes : Execute(r, s)
    \/ \E r \in Resets : Serve(r) \/ Crash(r)

Spec == Init /\ [][Next]_vars

-----------------------------------------------------------------------------
(* Safety.                                                                 *)

Running == {r \in Resets : run[r].pc \in Inside}
Succeeds(r) == At(r, "unlock") /\ ~run[r].failed

\* A reset of user data that reports success has left no row it found at its
\* beginning, whatever customers did between its statements.
ResetIsComplete ==
    \A r \in Resets : Succeeds(r) /\ run[r].scope # "TEST_DATA_CLEANUP" =>
        /\ run[r].found.u \cap UsersHere = {}
        /\ run[r].found.o \cap OrdersHere = {}
        /\ run[r].found.l \cap LicensesHere = {}

\* The cleanup of test data deletes no user, order or license of anybody else.
Customers == Users \ TestUsers
IsTestData(r) ==
    /\ run[r].dead.u \cap Customers = {}
    /\ \A o \in run[r].dead.o : order[o].user \notin Customers
    /\ \A l \in run[r].dead.l : license[l].user \notin Customers
CleanupSparesCustomers ==
    \A r \in Resets : run[r].scope = "TEST_DATA_CLEANUP" => IsTestData(r)

\* Resets exclude each other, and the lock is set as long as one is running,
\* unless two have read the lock before either wrote it.
ExclusiveUnlessRaced ==
    ~raced => /\ Cardinality(Running) <= 1
              /\ Running # {} => lock = "true"

=============================================================================
