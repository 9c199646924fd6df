--------------------------- MODULE DataResetProofs ---------------------------
(***************************************************************************)
(* The resets of data for any number of them at a time, and any tables:    *)
(* what a reset reports as done is done, the cleanup of test data touches  *)
(* nobody else, and the lock excludes two resets unless both had read it.  *)
(* Then the two wizards of an administrator in the bot, for any number of  *)
(* orders, reasons, payment methods and updates.                           *)
(***************************************************************************)
EXTENDS MCOffice, FiniteSetTheorems, TLAPS

Stages == Inside \cup {"idle", "lock", "take"}
Runs == [pc : Stages, scope : Scopes \cup {None}, sel : Rows, dead : Rows,
         found : Rows, overtaken : BOOLEAN, failed : BOOLEAN]

\* An order is its user's; a license of an order is of the user of that order,
\* or of nobody.
RefsAreSound ==
    /\ \A o \in Orders :
         /\ order[o].life = "here" => order[o].user \in UsersHere
         /\ order[o].life # "here" => order[o].user = None
    /\ \A l \in Licenses :
         /\ license[l].user # None => license[l].user \in UsersHere
         /\ license[l].order # None =>
              /\ license[l].order \in OrdersHere
              /\ license[l].user \in {None, order[license[l].order].user}

DataIsSound ==
    /\ user \in UserRows
    /\ order \in OrderRows
    /\ license \in LicenseRows
    /\ RefsAreSound

\* Rows that are there or have been.
Known(x) ==
    /\ \A u \in x.u : user[u] # "none"
    /\ \A o \in x.o : order[o].life # "none"
    /\ \A l \in x.l : license[l].life # "none"

\* Rows of test users and of nobody.
Spares(x) ==
    /\ x.u \cap Customers = {}
    /\ \A o \in x.o : order[o].user \notin Customers
    /\ \A l \in x.l : license[l].user \notin Customers

\* Users die with their orders.
DieTogether(x) == \A o \in OrdersHere : order[o].user \in x.u => o \in x.o

\* What a reset of everything has found is dying or gone, table after table.
Deletes(q) ==
    /\ q.pc \in {"orders", "users", "commit"} => q.found.l \cap LicensesHere \subseteq q.dead.l
    /\ q.pc \in {"users", "commit"} => q.found.o \cap OrdersHere \subseteq q.dead.o
    /\ q.pc = "commit" => q.found.u \cap UsersHere \subseteq q.dead.u
    /\ q.pc \in {"setup", "plans", "unlock"} =>
         \/ q.failed
         \/ /\ q.found.l \cap LicensesHere = {}
            /\ q.found.o \cap OrdersHere = {}
            /\ q.found.u \cap UsersHere = {}

Sound(q) ==
    /\ Known(q.sel) /\ Known(q.dead) /\ Known(q.found)
    /\ DieTogether(q.dead)
    /\ q.pc # "commit" => q.dead.u = {}
    /\ q.scope = "TEST_DATA_CLEANUP" => Spares(q.sel) /\ Spares(q.dead)
    /\ q.scope # "TEST_DATA_CLEANUP" => Deletes(q)

\* Who is about to take a lock that is set has been overtaken.
LockIsSound ==
    /\ lock \in LockValues
    /\ raced \in BOOLEAN
    /\ \A r \in Resets : At(r, "take") /\ lock = "true" => run[r].overtaken
    /\ ~raced => /\ \A r, q \in Running : r = q
                 /\ Running # {} => lock = "true"

IInv ==
    /\ DataIsSound
    /\ run \in [Resets -> Runs]
    /\ \A r \in Resets : Sound(run[r])
    /\ LockIsSound

-----------------------------------------------------------------------------
\* What a step does to the rows: none comes back, none gets another user, and no
\* order is placed for a user who is being deleted.
DataMoves ==
    /\ \A u \in Users : user[u] # "none" =>
         /\ user'[u] # "none"
         /\ user'[u] = "here" => user[u] = "here"
    /\ \A o \in Orders :
         /\ order[o].life # "none" =>
              /\ order'[o].life # "none"
              /\ order'[o].life = "here" => order[o].life = "here"
              /\ order'[o].user \in {None, order[o].user}
         /\ order'[o].life = "here" =>
              \/ order[o].life = "here" /\ order'[o].user = order[o].user
              \/ ~DyingUser(order'[o].user)
    /\ \A l \in Licenses : license[l].life # "none" =>
         /\ license'[l].life # "none"
         /\ license'[l].life = "here" => license[l].life = "here"
         /\ license'[l].user \in {None, license[l].user}

LEMMA Apart == None \notin Users /\ None \notin Orders /\ None \notin Licenses
BY ResetAssumption

LEMMA NotCustomers == None \notin Customers
BY Apart DEF Customers

\* What is known of a reset in progress stays true while the rows move.
LEMMA SoundStays ==
    ASSUME DataMoves, NEW r \in Resets, NEW q \in Runs, q = run[r], Sound(q)
    PROVE  Sound(q)'
<1>1. \A x \in Rows : Known(x) => Known(x)'
  BY DEF DataMoves, Known, Rows
<1>2. q.sel \in Rows /\ q.dead \in Rows /\ q.found \in Rows
  BY DEF Runs
<1>3. DieTogether(q.dead)'
  <2> SUFFICES ASSUME NEW o \in Orders, order'[o].life = "here", order'[o].user \in q.dead.u
               PROVE  o \in q.dead.o
    BY DEF DieTogether, OrdersHere
  <2>1. DyingUser(order'[o].user)
    BY DEF DyingUser
  <2>2. order[o].life = "here" /\ order'[o].user = order[o].user
    BY <2>1 DEF DataMoves
  <2> QED
    BY <2>2 DEF Sound, DieTogether, OrdersHere
<1>4. \A x \in Rows : Known(x) /\ Spares(x) => Spares(x)'
  <2> SUFFICES ASSUME NEW x \in Rows, Known(x), Spares(x)
               PROVE  Spares(x)'
    OBVIOUS
  <2>1. \A o \in x.o : order'[o].user \notin Customers
    BY NotCustomers DEF Known, Spares, DataMoves, Rows
  <2>2. \A l \in x.l : license'[l].user \notin Customers
    BY NotCustomers DEF Known, Spares, DataMoves, Rows
  <2> QED
    BY <2>1, <2>2 DEF Spares
<1>5. /\ q.found.u \cap UsersHere' \subseteq q.found.u \cap UsersHere
      /\ q.found.o \cap OrdersHere' \subseteq q.found.o \cap OrdersHere
      /\ q.found.l \cap LicensesHere' \subseteq q.found.l \cap LicensesHere
  BY DEF Sound, Known, DataMoves, UsersHere, OrdersHere, LicensesHere
<1>6. Deletes(q) => Deletes(q)'
  BY <1>5 DEF Deletes
<1> QED
  BY <1>1, <1>2, <1>3, <1>4, <1>6 DEF Sound

\* While the rows stay as they are, nothing that is said of them changes.
LEMMA RowsStay ==
    ASSUME UNCHANGED data
    PROVE  /\ UsersHere' = UsersHere /\ OrdersHere' = OrdersHere
           /\ LicensesHere' = LicensesHere
           /\ \A x : Known(x)' = Known(x) /\ Spares(x)' = Spares(x)
                     /\ DieTogether(x)' = DieTogether(x)
BY DEF data, UsersHere, OrdersHere, LicensesHere, Known, Spares, DieTogether

LEMMA DataStays ==
    ASSUME UNCHANGED data
    PROVE  /\ DataIsSound => DataIsSound'
           /\ \A q : Sound(q) => Sound(q)'
<1>1. DataIsSound => DataIsSound'
  BY RowsStay DEF data, DataIsSound, RefsAreSound
<1>2. \A q : Deletes(q) => Deletes(q)'
  BY RowsStay DEF Deletes
<1>3. \A q : Sound(q) => Sound(q)'
  BY <1>2, RowsStay DEF Sound
<1> QED
  BY <1>1, <1>3

\* A reset goes on, ends or fails, without taking the lock.
LEMMA RunStep ==
    ASSUME IInv, NEW r \in Resets, NEW x \in Runs, With(r, x), UNCHANGED <<data, lock, raced>>,
           Sound(x), x.pc \in Inside => run[r].pc \in Inside, x.pc # "take"
    PROVE  IInv'
<1>1. /\ run' \in [Resets -> Runs] /\ run'[r] = x
      /\ \A q \in Resets \ {r} : run'[q] = run[q]
  BY DEF With, IInv
<1>2. \A q \in Resets : Sound(run[q])'
  <2> SUFFICES ASSUME NEW q \in Resets
               PROVE  Sound(run[q])'
    OBVIOUS
  <2>1. PICK y : y = run'[q] /\ Sound(y)
    BY <1>1 DEF IInv
  <2>2. Sound(y)'
    BY <2>1, DataStays
  <2> QED
    BY <2>1, <2>2
<1>3. Running' \subseteq Running
  BY <1>1 DEF Running
<1>4. LockIsSound'
  BY <1>1, <1>3 DEF IInv, LockIsSound, At
<1> QED
  BY <1>1, <1>2, <1>4, DataStays DEF IInv

\* The customers' requests.
LEMMA DataStep ==
    ASSUME IInv, DataIsSound', DataMoves, UNCHANGED <<lock, run, raced>>
    PROVE  IInv'
<1>1. \A q \in Resets : Sound(run[q])'
  <2> SUFFICES ASSUME NEW q \in Resets
               PROVE  Sound(run[q])'
    OBVIOUS
  <2>1. PICK y \in Runs : y = run[q] /\ y = run'[q] /\ Sound(y)
    BY DEF IInv
  <2>2. Sound(y)'
    BY <2>1, SoundStays
  <2> QED
    BY <2>1, <2>2
<1>2. LockIsSound'
  BY DEF IInv, LockIsSound, At, Running
<1> QED
  BY <1>1, <1>2 DEF IInv

LEMMA GoOnStep ==
    ASSUME IInv, GoOn
    PROVE  IInv'
<1>1. ASSUME NEW u \in Users, Register(u)
      PROVE  IInv'
  <2>1. /\ user' \in UserRows /\ user[u] = "none" /\ user'[u] = "here"
        /\ \A v \in Users \ {u} : user'[v] = user[v]
        /\ UNCHANGED <<order, license, lock, run, raced>>
    BY <1>1 DEF Register, IInv, DataIsSound, UserRows, Life
  <2>2. UsersHere \subseteq UsersHere'
    BY <2>1 DEF UsersHere
  <2>3. RefsAreSound'
    BY <2>1, <2>2 DEF IInv, DataIsSound, RefsAreSound, OrdersHere
  <2>4. DataMoves
    BY <2>1 DEF DataMoves
  <2> QED
    BY <2>1, <2>3, <2>4, DataStep DEF IInv, DataIsSound
<1>2. ASSUME NEW o \in Orders, NEW u \in Users, PlaceOrder(o, u)
      PROVE  IInv'
  <2>1. /\ order' \in OrderRows /\ order[o].life = "none"
        /\ order'[o].life = "here" /\ order'[o].user = u
        /\ \A p \in Orders \ {o} : order'[p] = order[p]
        /\ u \in UsersHere /\ ~DyingUser(u)
        /\ UNCHANGED <<user, license, lock, run, raced>>
    BY <1>2 DEF PlaceOrder, IInv, DataIsSound, OrderRows, Life
  <2>2. UsersHere' = UsersHere /\ OrdersHere \subseteq OrdersHere'
    BY <2>1 DEF UsersHere, OrdersHere
  <2>3. \A l \in Licenses : license[l].order # o
    BY <2>1, Apart DEF IInv, DataIsSound, RefsAreSound, OrdersHere
  <2>4. RefsAreSound'
    BY <2>1, <2>2, <2>3 DEF IInv, DataIsSound, RefsAreSound, OrdersHere
  <2>5. DataMoves
    BY <2>1 DEF DataMoves
  <2> QED
    BY <2>1, <2>4, <2>5, DataStep DEF IInv, DataIsSound
<1>3. ASSUME NEW l \in Licenses, NEW u \in Users \cup {None}, NEW o \in Orders \cup {None},
             license[l].life = "none",
             license' = [license EXCEPT ![l] = [life |-> "here", user |-> u, order |-> o]],
             u # None => u \in UsersHere,
             o # None => o \in OrdersHere /\ u = order[o].user,
             UNCHANGED <<user, order, lock, run, raced>>
      PROVE  IInv'
  <2>1. /\ license' \in LicenseRows
        /\ license'[l].life = "here" /\ license'[l].user = u /\ license'[l].order = o
        /\ \A k \in Licenses \ {l} : license'[k] = license[k]
    BY <1>3 DEF IInv, DataIsSound, LicenseRows, Life
  <2>2. UsersHere' = UsersHere /\ OrdersHere' = OrdersHere
    BY <1>3 DEF UsersHere, OrdersHere
  <2>3. RefsAreSound'
    BY <1>3, <2>1, <2>2 DEF IInv, DataIsSound, RefsAreSound
  <2>4. DataMoves
    BY <1>3, <2>1 DEF DataMoves
  <2> QED
    BY <1>3, <2>1, <2>3, <2>4, DataStep DEF IInv, DataIsSound
<1>4. ASSUME NEW l \in Licenses, NEW o \in Orders, IssueForOrder(l, o)
      PROVE  IInv'
  <2>1. o \in OrdersHere /\ order[o].user \in UsersHere
    BY <1>4 DEF IssueForOrder, IInv, DataIsSound, RefsAreSound, OrdersHere
  <2>2. order[o].user \in Users
    BY <2>1 DEF UsersHere
  <2> QED
    BY <1>3, <1>4, <2>1, <2>2 DEF IssueForOrder
<1>5. ASSUME NEW l \in Licenses, NEW u \in Users \cup {None}, IssueByHand(l, u)
      PROVE  IInv'
  <2>1. None \in Orders \cup {None}
    OBVIOUS
  <2> QED
    BY <1>3, <1>5, <2>1 DEF IssueByHand
<1> QED
  BY <1>1, <1>2, <1>4, <1>5 DEF GoOn

-----------------------------------------------------------------------------
\* The statements of a reset.

LEMMA SomeRows ==
    /\ NoRows \in Rows /\ Here \in Rows
    /\ Known(NoRows) /\ Known(Here) /\ Spares(NoRows) /\ DieTogether(NoRows)
    /\ NoRows.u = {} /\ NoRows.o = {} /\ NoRows.l = {}
    /\ Here.u = UsersHere /\ Here.o = OrdersHere /\ Here.l = LicensesHere
BY DEF NoRows, Here, Rows, Known, Spares, DieTogether, UsersHere, OrdersHere, LicensesHere

LEMMA StagesAre ==
    /\ {"count", "selectUsers", "selectOrders", "selectLicenses", "licenses", "orders",
        "users", "commit", "setup", "plans", "unlock"} \subseteq Inside
    /\ Inside \cup {"idle", "lock", "take"} \subseteq Stages
    /\ "idle" \notin Inside /\ "lock" \notin Inside /\ "take" \notin Inside
BY DEF Inside, Stages

\* A reset that has touched nothing yet, or has failed.
LEMMA FreshIsSound ==
    ASSUME NEW q, q.sel = NoRows, q.dead = NoRows, q.found = NoRows,
           q.pc \in {"setup", "plans", "unlock"} => q.failed
    PROVE  Sound(q)
<1>1. Deletes(q)
  BY SomeRows DEF Deletes
<1> QED
  BY <1>1, SomeRows DEF Sound

LEMMA EndStep ==
    ASSUME IInv, NEW r \in Resets, With(r, Idle), UNCHANGED <<data, lock, raced>>
    PROVE  IInv'
<1>1. /\ Idle \in Runs /\ Idle.pc = "idle"
      /\ Idle.sel = NoRows /\ Idle.dead = NoRows /\ Idle.found = NoRows
  BY SomeRows, StagesAre DEF Idle, Runs
<1>2. Sound(Idle) /\ Idle.pc \notin Inside /\ Idle.pc # "take"
  BY <1>1, FreshIsSound, StagesAre
<1> QED
  BY <1>1, <1>2, RunStep

LEMMA FailStep ==
    ASSUME IInv, NEW r \in Resets, With(r, Failed(r)), UNCHANGED <<data, lock, raced>>,
           run[r].pc \in Inside
    PROVE  IInv'
<1> DEFINE x == Failed(r)
<1>1. run[r].scope \in Scopes \cup {None} /\ "unlock" \in Stages
  BY StagesAre DEF IInv, Runs
<1>2. /\ x \in Runs /\ x.pc = "unlock" /\ x.failed
      /\ x.sel = NoRows /\ x.dead = NoRows /\ x.found = NoRows
  BY <1>1, SomeRows DEF Failed, Idle, Runs
<1> HIDE DEF x
<1>3. Sound(x)
  BY <1>2, FreshIsSound
<1>4. With(r, x)
  BY DEF x
<1> QED
  BY <1>2, <1>3, <1>4, RunStep

LEMMA ExecuteStep ==
    ASSUME IInv, NEW r \in Resets, NEW c \in Scopes, Execute(r, c)
    PROVE  IInv'
<1> DEFINE x == [Idle EXCEPT !.pc = "lock", !.scope = c]
<1>1. /\ x \in Runs /\ x.pc = "lock"
      /\ x.sel = NoRows /\ x.dead = NoRows /\ x.found = NoRows
  BY SomeRows, StagesAre DEF Idle, Runs
<1>2. With(r, x) /\ UNCHANGED <<data, lock, raced>>
  BY DEF Execute
<1> HIDE DEF x
<1>3. Sound(x) /\ x.pc \notin Inside /\ x.pc # "take"
  BY <1>1, FreshIsSound, StagesAre
<1> QED
  BY <1>1, <1>2, <1>3, RunStep

\* What is known of a reset in progress.
LEMMA RunIs ==
    ASSUME IInv, NEW r \in Resets
    PROVE  /\ run[r] \in Runs /\ Sound(run[r])
           /\ run[r].sel \in Rows /\ run[r].dead \in Rows /\ run[r].found \in Rows
BY DEF IInv, Runs

LEMMA CountStep ==
    ASSUME IInv, NEW r \in Resets, CountRows(r)
    PROVE  IInv'
<1>1. run[r] \in Runs /\ Sound(run[r]) /\ run[r].pc = "count" /\ run[r].pc \in Inside
  BY RunIs, StagesAre DEF CountRows, At
<1>2. CASE run[r].scope = "TEST_DATA_CLEANUP"
  <2> DEFINE x == [run[r] EXCEPT !.pc = "selectUsers"]
  <2>1. /\ x \in Runs /\ x.pc = "selectUsers"
        /\ x.scope = run[r].scope /\ x.sel = run[r].sel /\ x.dead = run[r].dead
        /\ x.found = run[r].found
    BY <1>1, StagesAre DEF Runs
  <2>2. With(r, x) /\ UNCHANGED <<data, lock, raced>>
    BY <1>2 DEF CountRows, Goto, With, IInv
  <2> HIDE DEF x
  <2>3. Sound(x)
    BY <1>1, <1>2, <2>1 DEF Sound
  <2> QED
    BY <1>1, <2>1, <2>2, <2>3, RunStep
<1>3. CASE run[r].scope # "TEST_DATA_CLEANUP"
  <2> DEFINE x == [run[r] EXCEPT !.pc = "licenses", !.found = Here]
  <2>1. /\ x \in Runs /\ x.pc = "licenses"
        /\ x.scope = run[r].scope /\ x.sel = run[r].sel /\ x.dead = run[r].dead
        /\ x.found = Here
    BY <1>1, StagesAre, SomeRows DEF Runs
  <2>2. With(r, x) /\ UNCHANGED <<data, lock, raced>>
    BY <1>3 DEF CountRows
  <2> HIDE DEF x
  <2>3. Sound(x)
    BY <1>1, <1>3, <2>1, SomeRows DEF Sound, Deletes
  <2> QED
    BY <1>1, <2>1, <2>2, <2>3, RunStep
<1> QED
  BY <1>2, <1>3

\* The cleanup selects its users, their orders, and the licenses of either.
LEMMA SelectStep ==
    ASSUME IInv, NEW r \in Resets, run[r].pc \in {"selectUsers", "selectOrders", "selectLicenses"},
           NEW s \in {"selectOrders", "selectLicenses", "licenses"},
           NEW sel \in Rows, Known(sel), run[r].scope = "TEST_DATA_CLEANUP" => Spares(sel),
           With(r, [run[r] EXCEPT !.pc = s, !.sel = sel]), UNCHANGED <<data, lock, raced>>
    PROVE  IInv'
<1> DEFINE x == [run[r] EXCEPT !.pc = s, !.sel = sel]
<1>1. run[r] \in Runs /\ Sound(run[r]) /\ run[r].pc \in Inside
  BY RunIs, StagesAre
<1>2. /\ x \in Runs /\ x.pc = s /\ x.scope = run[r].scope
      /\ x.sel = sel /\ x.dead = run[r].dead /\ x.found = run[r].found
  BY <1>1, StagesAre DEF Runs
<1>3. With(r, x)
  OBVIOUS
<1> HIDE DEF x
<1>4. Sound(x)
  BY <1>1, <1>2 DEF Sound, Deletes
<1> QED
  BY <1>1, <1>2, <1>3, <1>4, RunStep

LEMMA SelectsStep ==
    ASSUME IInv, NEW r \in Resets, SelectUsers(r) \/ SelectOrders(r) \/ SelectLicenses(r)
    PROVE  IInv'
<1>1. /\ run[r] \in Runs /\ Sound(run[r]) /\ run[r].sel \in Rows
      /\ UNCHANGED <<data, lock, raced>>
  BY RunIs DEF SelectUsers, SelectOrders, SelectLicenses
<1> DEFINE clean == run[r].scope = "TEST_DATA_CLEANUP"
<1>2. CASE SelectUsers(r)
  <2> DEFINE sel == [run[r].sel EXCEPT !.u = UsersHere \cap TestUsers]
  <2>1. /\ sel \in Rows /\ sel.u = UsersHere \cap TestUsers
        /\ sel.o = run[r].sel.o /\ sel.l = run[r].sel.l
    BY <1>1 DEF Rows, UsersHere
  <2>2. With(r, [run[r] EXCEPT !.pc = "selectOrders", !.sel = sel])
    BY <1>2 DEF SelectUsers
  <2> HIDE DEF sel
  <2>3. Known(sel) /\ (clean => Spares(sel))
    BY <1>1, <2>1 DEF Sound, Known, Spares, UsersHere, Customers
  <2>4. run[r].pc = "selectUsers"
    BY <1>2 DEF SelectUsers, At
  <2> QED
    BY <1>1, <2>1, <2>2, <2>3, <2>4, SelectStep
<1>3. CASE SelectOrders(r)
  <2> DEFINE sel == [run[r].sel EXCEPT !.o = OrdersOf(run[r].sel.u)]
  <2>1. /\ sel \in Rows /\ sel.o = OrdersOf(run[r].sel.u)
        /\ sel.u = run[r].sel.u /\ sel.l = run[r].sel.l
    BY <1>1 DEF Rows, OrdersHere, OrdersOf
  <2>2. With(r, [run[r] EXCEPT !.pc = "selectLicenses", !.sel = sel])
    BY <1>3 DEF SelectOrders
  <2> HIDE DEF sel
  <2>3. Known(sel) /\ (clean => Spares(sel))
    BY <1>1, <2>1 DEF Sound, Known, Spares, OrdersHere, OrdersOf
  <2>4. run[r].pc = "selectOrders"
    BY <1>3 DEF SelectOrders, At
  <2> QED
    BY <1>1, <2>1, <2>2, <2>3, <2>4, SelectStep
<1>4. CASE SelectLicenses(r)
  <2> DEFINE mine == {l \in LicensesHere : \/ license[l].user \in run[r].sel.u
                                           \/ license[l].order \in run[r].sel.o}
             sel == [run[r].sel EXCEPT !.l = mine]
  <2>1. /\ sel \in Rows /\ sel.l = mine
        /\ sel.u = run[r].sel.u /\ sel.o = run[r].sel.o
    BY <1>1 DEF Rows, LicensesHere
  <2>2. With(r, [run[r] EXCEPT !.pc = "licenses", !.sel = sel])
    BY <1>4 DEF SelectLicenses
  <2> HIDE DEF sel
  <2>3. Known(sel)
    BY <1>1, <2>1 DEF Sound, Known, LicensesHere
  <2>4. ASSUME clean, NEW l \in mine
        PROVE  license[l].user \notin Customers
    <3>1. Spares(run[r].sel)
      BY <1>1, <2>4 DEF Sound
    <3>2. CASE license[l].user \in run[r].sel.u
      BY <3>1, <3>2 DEF Spares
    <3>3. CASE license[l].order \in run[r].sel.o
      <4>1. PICK o \in Orders : o = license[l].order /\ o \in run[r].sel.o
        BY <1>1, <3>3 DEF Rows
      <4>2. license[l].user \in {None, order[o].user}
        BY <2>4, <4>1, Apart DEF IInv, DataIsSound, RefsAreSound, LicensesHere
      <4>3. order[o].user \notin Customers
        BY <3>1, <4>1 DEF Spares
      <4> QED
        BY <4>2, <4>3, NotCustomers
    <3> QED
      BY <2>4, <3>2, <3>3
  <2>5. clean => Spares(sel)
    BY <1>1, <2>1, <2>4 DEF Sound, Spares
  <2>6. run[r].pc = "selectLicenses"
    BY <1>4 DEF SelectLicenses, At
  <2> QED
    BY <1>1, <2>1, <2>2, <2>3, <2>5, <2>6, SelectStep
<1> QED
  BY <1>2, <1>3, <1>4

LEMMA DoomedIs ==
    ASSUME IInv, NEW r \in Resets
    PROVE  /\ Doomed(r) \in Rows /\ Known(Doomed(r))
           /\ run[r].scope = "TEST_DATA_CLEANUP" => Spares(Doomed(r))
           /\ run[r].scope # "TEST_DATA_CLEANUP" => Doomed(r) = Here
<1>1. run[r].sel \in Rows /\ Sound(run[r])
  BY RunIs
<1>2. CASE run[r].scope = "TEST_DATA_CLEANUP"
  <2>1. Doomed(r) = [u |-> UsersHere \cap run[r].sel.u, o |-> OrdersHere \cap run[r].sel.o,
                     l |-> LicensesHere \cap run[r].sel.l]
    BY <1>2 DEF Doomed
  <2> QED
    BY <1>1, <1>2, <2>1 DEF Rows, Known, Spares, Sound, UsersHere, OrdersHere, LicensesHere
<1>3. CASE run[r].scope # "TEST_DATA_CLEANUP"
  BY <1>3, SomeRows DEF Doomed
<1> QED
  BY <1>2, <1>3

\* One more table is deleted: d is dying now, and e is left of the selection.
LEMMA DyingStep ==
    ASSUME IInv, NEW r \in Resets, run[r].pc \in Inside,
           NEW s \in {"orders", "users", "commit"}, NEW d \in Rows, NEW e \in Rows,
           With(r, [run[r] EXCEPT !.pc = s, !.dead = d, !.sel = e]),
           UNCHANGED <<data, lock, raced>>,
           Known(d) /\ Known(e) /\ DieTogether(d),
           s # "commit" => d.u = {},
           run[r].scope = "TEST_DATA_CLEANUP" => Spares(d) /\ Spares(e),
           run[r].scope # "TEST_DATA_CLEANUP" =>
               /\ LicensesHere \cap run[r].found.l \subseteq d.l
               /\ s # "orders" => OrdersHere \cap run[r].found.o \subseteq d.o
               /\ s = "commit" => UsersHere \cap run[r].found.u \subseteq d.u
    PROVE  IInv'
<1> DEFINE x == [run[r] EXCEPT !.pc = s, !.dead = d, !.sel = e]
<1>1. run[r] \in Runs /\ Sound(run[r])
  BY RunIs
<1>2. /\ x \in Runs /\ x.pc = s /\ x.scope = run[r].scope
      /\ x.sel = e /\ x.dead = d /\ x.found = run[r].found
  BY <1>1, StagesAre DEF Runs
<1>3. With(r, x)
  OBVIOUS
<1> HIDE DEF x
<1>4. Sound(x)
  BY <1>1, <1>2 DEF Sound, Deletes
<1>5. x.pc # "take"
  BY <1>2
<1> QED
  BY <1>2, <1>3, <1>4, <1>5, RunStep

LEMMA DeletesStep ==
    ASSUME IInv, NEW r \in Resets, DeleteLicenses(r) \/ DeleteOrders(r) \/ DeleteUsers(r)
    PROVE  IInv'
<1>1. /\ run[r] \in Runs /\ Sound(run[r]) /\ run[r].pc \in Inside
      /\ run[r].dead \in Rows /\ run[r].sel \in Rows
      /\ UNCHANGED <<data, lock, raced>>
  BY RunIs, StagesAre DEF DeleteLicenses, DeleteOrders, DeleteUsers, At
<1>2. CASE DeleteLicenses(r)
  <2> DEFINE d == [run[r].dead EXCEPT !.l = Doomed(r).l]
             e == [run[r].sel EXCEPT !.l = {}]
  <2>0. run[r].pc = "licenses"
    BY <1>2 DEF DeleteLicenses, At
  <2>1. /\ d \in Rows /\ d.l = Doomed(r).l /\ d.u = run[r].dead.u /\ d.o = run[r].dead.o
        /\ e \in Rows /\ e.l = {} /\ e.u = run[r].sel.u /\ e.o = run[r].sel.o
    BY <1>1, DoomedIs DEF Rows
  <2>2. With(r, [run[r] EXCEPT !.pc = "orders", !.dead = d, !.sel = e])
    BY <1>2 DEF DeleteLicenses
  <2> HIDE DEF d, e
  <2>3. /\ Known(d) /\ Known(e) /\ DieTogether(d) /\ d.u = {}
        /\ run[r].scope = "TEST_DATA_CLEANUP" => Spares(d) /\ Spares(e)
    BY <1>1, <2>0, <2>1, DoomedIs DEF Sound, Known, Spares, DieTogether
  <2>4. run[r].scope # "TEST_DATA_CLEANUP" => LicensesHere \cap run[r].found.l \subseteq d.l
    BY <2>1, DoomedIs, SomeRows
  <2> QED
    BY <1>1, <2>1, <2>2, <2>3, <2>4, DyingStep
<1>3. CASE DeleteOrders(r)
  <2> DEFINE d == [run[r].dead EXCEPT !.o = Doomed(r).o]
             e == [run[r].sel EXCEPT !.o = {}]
  <2>0. run[r].pc = "orders"
    BY <1>3 DEF DeleteOrders, At
  <2>1. /\ d \in Rows /\ d.o = Doomed(r).o /\ d.u = run[r].dead.u /\ d.l = run[r].dead.l
        /\ e \in Rows /\ e.o = {} /\ e.u = run[r].sel.u /\ e.l = run[r].sel.l
    BY <1>1, DoomedIs DEF Rows
  <2>2. With(r, [run[r] EXCEPT !.pc = "users", !.dead = d, !.sel = e])
    BY <1>3 DEF DeleteOrders
  <2> HIDE DEF d, e
  <2>3. Known(d) /\ Known(e)
    BY <1>1, <2>1, DoomedIs DEF Sound, Known
  <2>4. run[r].scope = "TEST_DATA_CLEANUP" => Spares(d) /\ Spares(e)
    BY <1>1, <2>1, DoomedIs DEF Sound, Spares
  <2>5. DieTogether(d) /\ d.u = {}
    BY <1>1, <2>0, <2>1 DEF Sound, DieTogether
  <2>6. run[r].scope # "TEST_DATA_CLEANUP" =>
          /\ LicensesHere \cap run[r].found.l \subseteq d.l
          /\ OrdersHere \cap run[r].found.o \subseteq d.o
    BY <1>1, <2>0, <2>1, DoomedIs, SomeRows DEF Sound, Deletes
  <2> QED
    BY <1>1, <2>1, <2>2, <2>3, <2>4, <2>5, <2>6, DyingStep
<1>4. CASE DeleteUsers(r) /\ OrdersOf(Doomed(r).u) \subseteq run[r].dead.o
  <2> DEFINE d == [run[r].dead EXCEPT !.u = Doomed(r).u]
             e == [run[r].sel EXCEPT !.u = {}]
  <2>0. run[r].pc = "users"
    BY <1>4 DEF DeleteUsers, At
  <2>1. /\ d \in Rows /\ d.u = Doomed(r).u /\ d.o = run[r].dead.o /\ d.l = run[r].dead.l
        /\ e \in Rows /\ e.u = {} /\ e.o = run[r].sel.o /\ e.l = run[r].sel.l
    BY <1>1, DoomedIs DEF Rows
  <2>2. With(r, [run[r] EXCEPT !.pc = "commit", !.dead = d, !.sel = e])
    BY <1>4 DEF DeleteUsers
  <2> HIDE DEF d, e
  <2>3. Known(d) /\ Known(e)
    BY <1>1, <2>1, DoomedIs DEF Sound, Known
  <2>4. run[r].scope = "TEST_DATA_CLEANUP" => Spares(d) /\ Spares(e)
    BY <1>1, <2>1, DoomedIs DEF Sound, Spares
  <2>5. DieTogether(d)
    BY <1>4, <2>1 DEF DieTogether, OrdersOf
  <2>6. run[r].scope # "TEST_DATA_CLEANUP" =>
          /\ LicensesHere \cap run[r].found.l \subseteq d.l
          /\ OrdersHere \cap run[r].found.o \subseteq d.o
          /\ UsersHere \cap run[r].found.u \subseteq d.u
    BY <1>1, <2>0, <2>1, DoomedIs, SomeRows DEF Sound, Deletes
  <2> QED
    BY <1>1, <2>1, <2>2, <2>3, <2>4, <2>5, <2>6, DyingStep
<1>5. CASE DeleteUsers(r) /\ ~(OrdersOf(Doomed(r).u) \subseteq run[r].dead.o)
  BY <1>1, <1>5, FailStep DEF DeleteUsers
<1> QED
  BY <1>2, <1>3, <1>4, <1>5

\* A reset that is not about to commit goes on to another such stage.
LEMMA StageStep ==
    ASSUME IInv, NEW r \in Resets, run[r].pc \in {"setup", "plans"}, NEW s \in {"plans", "unlock"},
           Goto(r, s), UNCHANGED <<data, lock, raced>>
    PROVE  IInv'
<1> DEFINE x == [run[r] EXCEPT !.pc = s]
<1>1. run[r] \in Runs /\ Sound(run[r]) /\ run[r].pc \in Inside
  BY RunIs, StagesAre
<1>2. /\ x \in Runs /\ x.pc = s /\ x.scope = run[r].scope
      /\ x.sel = run[r].sel /\ x.dead = run[r].dead /\ x.found = run[r].found
      /\ (x.failed <=> run[r].failed)
  BY <1>1, StagesAre DEF Runs
<1>3. With(r, x)
  BY DEF Goto, With, IInv
<1> HIDE DEF x
<1>4. Sound(x)
  BY <1>1, <1>2 DEF Sound, Deletes
<1> QED
  BY <1>1, <1>2, <1>3, <1>4, RunStep

\* The transaction commits: what was dying is gone.
LEMMA CommitMoves ==
    ASSUME IInv, NEW d \in Rows, Known(d), DieTogether(d), Without(d)
    PROVE  /\ DataIsSound' /\ DataMoves
           /\ UsersHere' = UsersHere \ d.u /\ OrdersHere' = OrdersHere \ d.o
           /\ LicensesHere' = LicensesHere \ d.l
<1>1. /\ user' \in UserRows
      /\ \A u \in Users : user'[u] = IF u \in d.u THEN "gone" ELSE user[u]
  BY DEF Without, IInv, DataIsSound, UserRows, Life
<1>2. /\ order' \in OrderRows
      /\ \A o \in Orders : order'[o] = IF o \in d.o THEN [life |-> "gone", user |-> None]
                                                    ELSE order[o]
  BY DEF Without, IInv, DataIsSound, OrderRows, Life
<1>3. \A l \in Licenses :
        /\ Unlinked(l, d) \in [life : Life, user : Users \cup {None}, order : Orders \cup {None}]
        /\ Unlinked(l, d).life = license[l].life
        /\ Unlinked(l, d).user = IF license[l].user \in d.u THEN None ELSE license[l].user
        /\ Unlinked(l, d).order = IF license[l].order \in d.o THEN None ELSE license[l].order
  BY DEF Unlinked, IInv, DataIsSound, LicenseRows
<1>4. \A l \in Licenses :
        license'[l] = IF l \in d.l THEN [life |-> "gone", user |-> None, order |-> None]
                                  ELSE Unlinked(l, d)
  BY DEF Without
<1>5. license' \in LicenseRows
  <2>1. [life |-> "gone", user |-> None, order |-> None]
          \in [life : Life, user : Users \cup {None}, order : Orders \cup {None}]
    BY DEF Life
  <2> QED
    BY <1>3, <2>1 DEF Without, LicenseRows
<1>6. /\ UsersHere' = UsersHere \ d.u /\ OrdersHere' = OrdersHere \ d.o
      /\ LicensesHere' = LicensesHere \ d.l
  BY <1>1, <1>2, <1>3, <1>4 DEF UsersHere, OrdersHere, LicensesHere
<1>7. \A o \in Orders : /\ order'[o].life = "here" => order'[o].user \in UsersHere'
                        /\ order'[o].life # "here" => order'[o].user = None
  BY <1>2, <1>6 DEF IInv, DataIsSound, RefsAreSound, DieTogether, OrdersHere
<1>8. \A l \in Licenses : license'[l].user # None => license'[l].user \in UsersHere'
  BY <1>3, <1>4, <1>6 DEF IInv, DataIsSound, RefsAreSound
<1>9. \A l \in Licenses : license'[l].order # None =>
        /\ license'[l].order \in OrdersHere'
        /\ license'[l].user \in {None, order'[license'[l].order].user}
  <2> SUFFICES ASSUME NEW l \in Licenses, license'[l].order # None
               PROVE  /\ license'[l].order \in OrdersHere'
                      /\ license'[l].user \in {None, order'[license'[l].order].user}
    OBVIOUS
  <2>1. /\ license'[l].order = license[l].order /\ license[l].order \notin d.o
        /\ license'[l].user \in {None, license[l].user}
    BY <1>3, <1>4
  <2>2. PICK o \in Orders : /\ o = license[l].order /\ o \in OrdersHere
                            /\ license[l].user \in {None, order[o].user}
    BY <2>1 DEF IInv, DataIsSound, RefsAreSound, OrdersHere
  <2>3. order'[o] = order[o]
    BY <1>2, <2>1, <2>2
  <2> QED
    BY <1>6, <2>1, <2>2, <2>3
<1>10. DataIsSound'
  BY <1>1, <1>2, <1>5, <1>7, <1>8, <1>9 DEF DataIsSound, RefsAreSound
<1>11. DataMoves
  BY <1>1, <1>2, <1>3, <1>4 DEF DataMoves
<1> QED
  BY <1>6, <1>10, <1>11

LEMMA CommitStep ==
    ASSUME IInv, NEW r \in Resets, Commit(r)
    PROVE  IInv'
<1> DEFINE s == IF run[r].scope = "FACTORY_RESET" THEN "setup" ELSE "unlock"
           x == [run[r] EXCEPT !.dead = NoRows, !.pc = s]
<1>1. /\ run[r] \in Runs /\ Sound(run[r]) /\ run[r].pc = "commit" /\ run[r].dead \in Rows
      /\ UNCHANGED <<lock, raced>>
  BY RunIs DEF Commit, At
<1>2. PICK d \in Rows : d = run[r].dead
  BY <1>1
<1>3. /\ DataIsSound' /\ DataMoves
      /\ UsersHere' = UsersHere \ d.u /\ OrdersHere' = OrdersHere \ d.o
      /\ LicensesHere' = LicensesHere \ d.l
  BY <1>1, <1>2, CommitMoves DEF Commit, Sound
<1>4. /\ x \in Runs /\ x.pc \in {"setup", "unlock"} /\ x.scope = run[r].scope
      /\ x.sel = run[r].sel /\ x.dead = NoRows /\ x.found = run[r].found
  BY <1>1, StagesAre, SomeRows DEF Runs
<1>5. With(r, x)
  BY DEF Commit
<1>6. PICK y \in Runs : y = run[r] /\ Sound(y)
  BY <1>1
<1>7. PICK z \in Runs : z = x
  BY <1>4
<1>8. /\ z.pc \in {"setup", "unlock"} /\ z.scope = y.scope /\ z.sel = y.sel
      /\ z.dead = NoRows /\ z.found = y.found /\ y.pc = "commit" /\ y.dead = d
  BY <1>1, <1>2, <1>4, <1>6, <1>7
<1> HIDE DEF x, s
<1>9. Sound(y)'
  BY <1>3, <1>6, SoundStays
<1>10. /\ NoRows.u = {} /\ Known(NoRows)' /\ Spares(NoRows)' /\ DieTogether(NoRows)'
  BY DEF NoRows, Known, Spares, DieTogether
<1>11. y.scope # "TEST_DATA_CLEANUP" => Deletes(z)'
  BY <1>3, <1>6, <1>8 DEF Sound, Deletes
<1>12. Sound(z)'
  BY <1>8, <1>9, <1>10, <1>11 DEF Sound
<1>13. /\ run' \in [Resets -> Runs] /\ run'[r] = z
       /\ \A q \in Resets \ {r} : run'[q] = run[q]
  BY <1>5, <1>7 DEF With, IInv
<1>14. \A q \in Resets : Sound(run[q])'
  <2> SUFFICES ASSUME NEW q \in Resets \ {r}
               PROVE  Sound(run[q])'
    BY <1>12, <1>13
  <2>1. PICK v \in Runs : v = run[q] /\ v = run'[q] /\ Sound(v)
    BY <1>13 DEF IInv
  <2>2. Sound(v)'
    BY <1>3, <2>1, SoundStays
  <2> QED
    BY <2>1, <2>2
<1>15. Running' \subseteq Running
  BY <1>1, <1>13, StagesAre DEF Running
<1>16. LockIsSound'
  BY <1>1, <1>8, <1>13, <1>15 DEF IInv, LockIsSound, At
<1> QED
  BY <1>3, <1>13, <1>14, <1>16 DEF IInv

-----------------------------------------------------------------------------
\* The lock.

\* A reset that sees the lock free is about to take it.
LEMMA ReadLockStep ==
    ASSUME IInv, NEW r \in Resets, ReadLock(r)
    PROVE  IInv'
<1>1. CASE ~LockFree
  BY <1>1, EndStep DEF ReadLock
<1>2. CASE LockFree
  <2> DEFINE x == [run[r] EXCEPT !.pc = "take"]
  <2>1. /\ run[r] \in Runs /\ Sound(run[r]) /\ run[r].pc = "lock" /\ lock # "true"
        /\ UNCHANGED <<data, lock, raced>>
    BY <1>2, RunIs DEF ReadLock, At, LockFree
  <2>2. /\ x \in Runs /\ x.pc = "take" /\ x.scope = run[r].scope
        /\ x.sel = run[r].sel /\ x.dead = run[r].dead /\ x.found = run[r].found
    BY <2>1, StagesAre DEF Runs
  <2>3. run' = [run EXCEPT ![r] = x]
    BY <1>2 DEF ReadLock, Goto, IInv
  <2> HIDE DEF x
  <2>4. Sound(x)
    BY <2>1, <2>2 DEF Sound, Deletes
  <2>5. /\ run' \in [Resets -> Runs] /\ run'[r] = x
        /\ \A q \in Resets \ {r} : run'[q] = run[q]
    BY <2>2, <2>3 DEF IInv
  <2>6. \A q \in Resets : Sound(run[q])'
    <3> SUFFICES ASSUME NEW q \in Resets
                 PROVE  Sound(run[q])'
      OBVIOUS
    <3>1. PICK y : y = run'[q] /\ Sound(y)
      BY <2>4, <2>5 DEF IInv
    <3>2. Sound(y)'
      BY <2>1, <3>1, DataStays
    <3> QED
      BY <3>1, <3>2
  <2>7. Running' \subseteq Running
    BY <2>2, <2>5, StagesAre DEF Running
  <2>8. LockIsSound'
    BY <2>1, <2>5, <2>7 DEF IInv, LockIsSound, At
  <2> QED
    BY <2>1, <2>5, <2>6, <2>8, DataStays DEF IInv
<1> QED
  BY <1>1, <1>2

\* It takes the lock, and overtakes whoever is about to.
LEMMA TakeLockStep ==
    ASSUME IInv, NEW r \in Resets, TakeLock(r)
    PROVE  IInv'
<1>1. /\ run[r] \in Runs /\ Sound(run[r]) /\ run[r].pc = "take"
      /\ lock' = "true" /\ raced' = (raced \/ run[r].overtaken) /\ UNCHANGED data
  BY RunIs DEF TakeLock, At
<1>2. \A q \in Resets :
        run'[q] = IF q = r THEN [run[r] EXCEPT !.pc = "count"]
                  ELSE IF At(q, "take") THEN [run[q] EXCEPT !.overtaken = TRUE]
                  ELSE run[q]
  BY DEF TakeLock
<1>3. ASSUME NEW q \in Resets
      PROVE  /\ run'[q] \in Runs
             /\ run'[q].pc = IF q = r THEN "count" ELSE run[q].pc
             /\ run'[q].scope = run[q].scope /\ run'[q].sel = run[q].sel
             /\ run'[q].dead = run[q].dead /\ run'[q].found = run[q].found
             /\ q # r /\ run[q].pc = "take" => run'[q].overtaken
             /\ q # r => (run'[q].failed <=> run[q].failed)
  <2>1. run[q] \in Runs
    BY RunIs
  <2>2. CASE q = r
    BY <1>2, <2>1, <2>2, StagesAre DEF Runs
  <2>3. CASE q # r /\ At(q, "take")
    BY <1>2, <2>1, <2>3 DEF Runs, At
  <2>4. CASE q # r /\ ~At(q, "take")
    BY <1>2, <2>1, <2>4 DEF At
  <2> QED
    BY <2>2, <2>3, <2>4
<1>4. run' \in [Resets -> Runs]
  <2>1. run' = [q \in Resets |-> run'[q]]
    BY DEF TakeLock
  <2> QED
    BY <1>3, <2>1
<1>5. \A q \in Resets : Sound(run[q])'
  <2> SUFFICES ASSUME NEW q \in Resets
               PROVE  Sound(run[q])'
    OBVIOUS
  <2>1. PICK y : y = run'[q]
    OBVIOUS
  <2>2. Sound(run[q])
    BY RunIs
  <2>3. /\ y.scope = run[q].scope /\ y.sel = run[q].sel /\ y.dead = run[q].dead
        /\ y.found = run[q].found /\ y.pc = (IF q = r THEN "count" ELSE run[q].pc)
        /\ q # r => (y.failed <=> run[q].failed)
    BY <1>3, <2>1
  <2>4. Sound(y)
    BY <1>1, <2>2, <2>3 DEF Sound, Deletes
  <2>5. Sound(y)'
    BY <1>1, <2>4, DataStays
  <2> QED
    BY <2>1, <2>5
<1>6. Running' \subseteq Running \cup {r} /\ r \in Running'
  BY <1>3, StagesAre DEF Running
<1>7. ~raced' => Running = {}
  <2>1. raced \in BOOLEAN /\ (lock = "true" => run[r].overtaken)
    BY <1>1 DEF IInv, LockIsSound, At
  <2>2. CASE raced
    BY <1>1, <2>2
  <2>3. CASE ~raced /\ lock = "true"
    BY <1>1, <2>1, <2>3
  <2>4. CASE ~raced /\ lock # "true"
    BY <2>4 DEF IInv, LockIsSound
  <2> QED
    BY <2>2, <2>3, <2>4
<1>8. raced' \in BOOLEAN
  BY <1>1
<1>9. \A q \in Resets : At(q, "take")' => run'[q].overtaken
  BY <1>3 DEF At
<1>10. LockIsSound'
  BY <1>1, <1>6, <1>7, <1>8, <1>9 DEF LockIsSound, LockValues
<1> QED
  BY <1>1, <1>4, <1>5, <1>10, DataStays DEF IInv

\* The last thing a reset does is to free the lock.
LEMMA UnlockStep ==
    ASSUME IInv, NEW r \in Resets, Unlock(r)
    PROVE  IInv'
<1>1. /\ lock' = "false" /\ run' = [run EXCEPT ![r] = Idle] /\ UNCHANGED <<data, raced>>
      /\ r \in Running
  BY StagesAre DEF Unlock, With, At, Running
<1>2. /\ Idle \in Runs /\ Idle.pc = "idle"
      /\ Idle.sel = NoRows /\ Idle.dead = NoRows /\ Idle.found = NoRows
  BY SomeRows, StagesAre DEF Idle, Runs
<1>3. Sound(Idle)
  BY <1>2, FreshIsSound
<1>4. /\ run' \in [Resets -> Runs] /\ run'[r] = Idle
      /\ \A q \in Resets \ {r} : run'[q] = run[q]
  BY <1>1, <1>2 DEF IInv
<1>5. \A q \in Resets : Sound(run[q])'
  <2> SUFFICES ASSUME NEW q \in Resets
               PROVE  Sound(run[q])'
    OBVIOUS
  <2>1. PICK y : y = run'[q] /\ Sound(y)
    BY <1>3, <1>4 DEF IInv
  <2>2. Sound(y)'
    BY <1>1, <2>1, DataStays
  <2> QED
    BY <2>1, <2>2
<1>6. Running' \subseteq Running \ {r}
  BY <1>2, <1>4, StagesAre DEF Running
<1>7. ~raced => Running' = {}
  BY <1>1, <1>6 DEF IInv, LockIsSound
<1>8. LockIsSound'
  BY <1>1, <1>7 DEF IInv, LockIsSound, LockValues
<1> QED
  BY <1>1, <1>4, <1>5, <1>8, DataStays DEF IInv

-----------------------------------------------------------------------------
LEMMA InitIsSound == Init => IInv
<1> SUFFICES ASSUME Init
             PROVE  IInv
  OBVIOUS
<1>1. /\ Idle \in Runs /\ Idle.pc = "idle"
      /\ Idle.sel = NoRows /\ Idle.dead = NoRows /\ Idle.found = NoRows
  BY SomeRows, StagesAre DEF Idle, Runs
<1>2. Sound(Idle)
  BY <1>1, FreshIsSound
<1>3. run \in [Resets -> Runs] /\ \A r \in Resets : run[r] = Idle
  BY <1>1 DEF Init
<1>4. DataIsSound
  BY DEF Init, DataIsSound, UserRows, OrderRows, LicenseRows, Life, RefsAreSound
<1>5. LockIsSound
  BY <1>1, <1>3, StagesAre DEF Init, LockIsSound, LockValues, At, Running
<1> QED
  BY <1>2, <1>3, <1>4, <1>5 DEF IInv

LEMMA NextStep == IInv /\ [Next]_vars => IInv'
<1> SUFFICES ASSUME IInv, [Next]_vars
             PROVE  IInv'
  OBVIOUS
<1>1. CASE GoOn
  BY <1>1, GoOnStep
<1>2. ASSUME NEW r \in Resets, NEW c \in Scopes, Execute(r, c)
      PROVE  IInv'
  BY <1>2, ExecuteStep
<1>3. ASSUME NEW r \in Resets, Serve(r)
      PROVE  IInv'
  <2>1. CASE ReadLock(r)
    BY <2>1, ReadLockStep
  <2>2. CASE TakeLock(r)
    BY <2>2, TakeLockStep
  <2>3. CASE CountRows(r)
    BY <2>3, CountStep
  <2>4. CASE SelectUsers(r) \/ SelectOrders(r) \/ SelectLicenses(r)
    BY <2>4, SelectsStep
  <2>5. CASE DeleteLicenses(r) \/ DeleteOrders(r) \/ DeleteUsers(r)
    BY <2>5, DeletesStep
  <2>6. CASE Commit(r)
    BY <2>6, CommitStep
  <2>7. CASE FailStatement(r)
    BY <2>7, FailStep DEF FailStatement
  <2>8. CASE DeleteSetup(r)
    BY <2>8, StageStep DEF DeleteSetup, LockKept, At
  <2>9. CASE BootstrapPlans(r)
    BY <2>9, StageStep DEF BootstrapPlans, At
  <2>10. CASE Unlock(r)
    BY <2>10, UnlockStep
  <2> QED
    BY <1>3, <2>1, <2>2, <2>3, <2>4, <2>5, <2>6, <2>7, <2>8, <2>9, <2>10 DEF Serve
<1>4. ASSUME NEW r \in Resets, Crash(r)
      PROVE  IInv'
  BY <1>4, EndStep DEF Crash
<1>5. CASE UNCHANGED vars
  <2>1. DataMoves /\ DataIsSound' /\ UNCHANGED <<lock, run, raced>>
    BY <1>5, DataStays DEF vars, data, IInv, DataMoves
  <2> QED
    BY <2>1, DataStep
<1> QED
  BY <1>1, <1>2, <1>3, <1>4, <1>5 DEF Next

\* What the resets keep of the rows, of what they have found and of the lock.
THEOREM Invariance == Spec => []IInv
BY InitIsSound, NextStep, PTL DEF Spec

\* The rows refer to rows that are there, although each reset deletes its tables
\* one after the other and several may run at a time.
THEOREM TypeCorrect == Spec => []TypeOK
<1>1. IInv => TypeOK
  BY DEF IInv, DataIsSound, RefsAreSound, LockIsSound, UsersHere, OrdersHere, TypeOK, Runs,
         Stages
<1> QED
  BY <1>1, Invariance, PTL

\* A reset of everything that reports success has deleted all it had found,
\* whatever customers and other resets did between its statements
\* (admin-data-reset.service.ts, applyUserDataReset and applyFactoryBootstrap).
THEOREM ResetsComplete == Spec => []ResetIsComplete
<1>1. IInv => ResetIsComplete
  <2> SUFFICES ASSUME IInv, NEW r \in Resets, Succeeds(r), run[r].scope # "TEST_DATA_CLEANUP"
               PROVE  /\ run[r].found.u \cap UsersHere = {}
                      /\ run[r].found.o \cap OrdersHere = {}
                      /\ run[r].found.l \cap LicensesHere = {}
    BY DEF ResetIsComplete
  <2> QED
    BY RunIs DEF Sound, Deletes, Succeeds, At
<1> QED
  BY <1>1, Invariance, PTL

\* The cleanup of test data deletes nothing of a customer's, although it selects
\* its rows table by table and deletes them later, while customers go on
\* (admin-data-reset.service.ts, buildTestSelection and applyTestCleanup).
THEOREM CleanupSpares == Spec => []CleanupSparesCustomers
<1>1. IInv => CleanupSparesCustomers
  BY RunIs DEF CleanupSparesCustomers, IsTestData, Sound, Spares
<1> QED
  BY <1>1, Invariance, PTL

\* One reset runs at a time, under its lock, unless two had read the lock before
\* either wrote it.
THEOREM ResetsExcludeEachOther == Spec => []ExclusiveUnlessRaced
<1>1. IInv => ExclusiveUnlessRaced
  <2> SUFFICES ASSUME IInv, ~raced
               PROVE  Cardinality(Running) <= 1 /\ (Running # {} => lock = "true")
    BY DEF ExclusiveUnlessRaced
  <2>1. /\ \A r, q \in Running : r = q
        /\ Running # {} => lock = "true"
    BY DEF IInv, LockIsSound
  <2>2. Cardinality(Running) <= 1
    <3>1. CASE Running = {}
      BY <3>1, FS_EmptySet
    <3>2. CASE Running # {}
      <4>1. PICK r \in Running : Running = {r}
        BY <2>1, <3>2
      <4> QED
        BY <4>1, FS_Singleton
    <3> QED
      BY <3>1, <3>2
  <2> QED
    BY <2>1, <2>2
<1> QED
  BY <1>1, Invariance, PTL

-----------------------------------------------------------------------------
\* The dialogs of the administrator.

SessionRows == [flow : {"none", "reject", "method"},
                step : {"none", "select", "custom", "name", "type", "value", "recipient",
                        "confirm", "done"},
                on : Orders \cup Dialogs \cup Methods \cup {None},
                pick : D!Picks, has : SUBSET D!Fields]
ReqRows == [pc : {"idle", "write", "order", "tx", "receipt", "issue", "complete", "leave",
                  "leaveTell", "tell", "mark", "save", "undo"},
            s : SessionRows]
BillRows == [status : D!Statuses, reason : Reasons \cup {Custom, Panel, None},
             licensed : BOOLEAN]

DialogTypes ==
    /\ session \in SessionRows
    /\ req \in [Workers -> ReqRows]
    /\ bill \in [Orders -> BillRows]
    /\ method \in D!MethodRows
    /\ told \in [Orders -> SUBSET D!Picks]

\* A handler that has written its rejection, and will announce it, finds its reason on
\* record, and a request that has still to write the order finds it not rejected, unless
\* the order was rejected while another one was as far.
Writes(r) == r.pc \in {"tx", "receipt", "issue", "complete"}

RejectRow(r) ==
    /\ Writes(r) \/ r.pc \in {"order", "leaveTell", "tell"} => r.s.on \in Orders
    /\ r.pc \in {"leaveTell", "tell"} =>
         \/ r.s.on \in both
         \/ bill[r.s.on].status = "REJECTED" /\ bill[r.s.on].reason = r.s.pick
    /\ Writes(r) => bill[r.s.on].status # "REJECTED" \/ r.s.on \in both

ToldRight(o) ==
    \/ o \in both
    \/ told[o] = {}
    \/ bill[o].status = "REJECTED" /\ told[o] \subseteq {bill[o].reason}

RejectIInv ==
    /\ DialogTypes
    /\ \A w \in Workers : RejectRow(req[w])
    /\ \A o \in Orders : ToldRight(o)

LEMMA IdleReq ==
    /\ D!NoSession \in SessionRows /\ D!NoSession.flow = "none"
    /\ D!Idle \in ReqRows /\ D!Idle.pc = "idle" /\ D!Idle.s = D!NoSession
<1>1. D!NoSession \in SessionRows /\ D!NoSession.flow = "none"
  BY DEF D!NoSession, SessionRows, D!Picks
<1>2. D!Idle \in ReqRows /\ D!Idle.pc = "idle" /\ D!Idle.s = D!NoSession
  BY <1>1 DEF D!Idle, ReqRows
<1> QED
  BY <1>1, <1>2

\* A handler goes on with the row r, and no order is written.
LEMMA RejectMoves ==
    ASSUME RejectIInv, NEW w \in Workers, NEW r \in ReqRows, req' = [req EXCEPT ![w] = r],
           UNCHANGED <<bill, method, told>>, session' \in SessionRows,
           both \subseteq both', RejectRow(r)'
    PROVE  RejectIInv'
<1>1. /\ req' \in [Workers -> ReqRows] /\ req'[w] = r
      /\ \A v \in Workers \ {w} : req'[v] = req[v]
  BY DEF RejectIInv, DialogTypes
<1>2. DialogTypes'
  BY <1>1 DEF RejectIInv, DialogTypes
<1>3. \A v \in Workers : RejectRow(req[v])'
  <2>1. ASSUME NEW q \in ReqRows, RejectRow(q)
        PROVE  RejectRow(q)'
    BY <2>1 DEF RejectRow, Writes
  <2>2. \A v \in Workers \ {w} : req[v] \in ReqRows /\ RejectRow(req[v])
    BY DEF RejectIInv, DialogTypes
  <2>3. \A v \in Workers \ {w} : RejectRow(req[v])'
    BY <1>1, <2>1, <2>2 DEF RejectRow, Writes
  <2>4. RejectRow(req[w])'
    BY <1>1 DEF RejectRow, Writes
  <2> QED
    BY <2>3, <2>4
<1>4. \A o \in Orders : ToldRight(o)'
  BY DEF RejectIInv, ToldRight
<1> QED
  BY <1>2, <1>3, <1>4 DEF RejectIInv

\* A request writes an order it had read, and goes on with the row r.
LEMMA OrderMoves ==
    ASSUME RejectIInv, NEW w \in Workers, NEW r \in ReqRows, req' = [req EXCEPT ![w] = r],
           NEW o \in Orders, D!Holds(w, o), NEW b \in BillRows, bill' = [bill EXCEPT ![o] = b],
           UNCHANGED <<session, method, told>>, both \subseteq both', RejectRow(r)',
           \/ b.status # "REJECTED"
           \/ o \in both'
           \/ \A v \in Workers \ {w} : ~D!Holds(v, o)
    PROVE  RejectIInv'
<1>1. /\ req' \in [Workers -> ReqRows] /\ req'[w] = r
      /\ \A v \in Workers \ {w} : req'[v] = req[v]
      /\ bill' \in [Orders -> BillRows] /\ bill'[o] = b
      /\ \A x \in Orders \ {o} : bill'[x] = bill[x]
  BY DEF RejectIInv, DialogTypes
<1>2. DialogTypes'
  BY <1>1 DEF RejectIInv, DialogTypes
<1>3. bill[o].status # "REJECTED" \/ o \in both
  BY DEF RejectIInv, RejectRow, Writes, D!Holds
<1>4. ASSUME NEW v \in Workers
      PROVE  RejectRow(req[v])'
  <2>1. CASE v = w
    BY <1>1, <2>1 DEF RejectRow, Writes
  <2>2. CASE v # w
    <3>0. PICK x \in ReqRows : x = req[v]
      BY DEF RejectIInv, DialogTypes
    <3>1. RejectRow(x)
      BY <3>0 DEF RejectIInv
    <3>2. Writes(x) /\ x.s.on = o => b.status # "REJECTED" \/ o \in both'
      BY <2>2, <3>0 DEF Writes, D!Holds
    <3>3. RejectRow(x)'
      BY <1>1, <1>3, <3>1, <3>2 DEF RejectRow, Writes
    <3>4. req'[v] = x
      BY <1>1, <2>2, <3>0
    <3> QED
      BY <3>3, <3>4 DEF RejectRow, Writes
  <2> QED
    BY <2>1, <2>2
<1>5. ASSUME NEW x \in Orders
      PROVE  ToldRight(x)'
  BY <1>1, <1>3 DEF RejectIInv, ToldRight
<1> QED
  BY <1>2, <1>4, <1>5 DEF RejectIInv

\* The same for a row that rejects nothing.
LEMMA PlainMoves ==
    ASSUME RejectIInv, NEW w \in Workers, NEW r \in ReqRows, req' = [req EXCEPT ![w] = r],
           UNCHANGED <<bill, method, told, both>>, session' \in SessionRows,
           ~Writes(r), r.pc \notin {"order", "leaveTell", "tell"}
    PROVE  RejectIInv'
BY RejectMoves DEF RejectRow, Writes

\* Handlers of one write.
LEMMA SessionMoves ==
    ASSUME RejectIInv, UNCHANGED <<bill, req, told, both>>, session' \in SessionRows,
           method' \in D!MethodRows
    PROVE  RejectIInv'
<1>1. DialogTypes'
  BY DEF RejectIInv, DialogTypes
<1> QED
  BY <1>1 DEF RejectIInv, RejectRow, Writes, ToldRight

LEMMA SessionTypes ==
    ASSUME DialogTypes
    PROVE  /\ \A o \in Orders : \A p \in D!Picks :
                \A st \in {"select", "custom", "confirm"} :
                   D!RejectStep(st, o, p) \in SessionRows
           /\ \A st \in {"type", "value", "recipient", "confirm", "done"} :
                \A has \in SUBSET D!Fields : D!MethodStep(st, has) \in SessionRows
           /\ \A d \in Dialogs \cup Methods : \A has \in SUBSET D!Fields :
                [D!NoSession EXCEPT !.flow = "method", !.step = "name", !.on = d, !.has = has]
                  \in SessionRows
           /\ session.on \in Orders \cup Dialogs \cup Methods \cup {None}
           /\ session.pick \in D!Picks
           /\ session.has \subseteq D!Fields
<1>s. session \in SessionRows
  BY DEF DialogTypes
<1>1. ASSUME NEW o \in Orders, NEW p \in D!Picks, NEW st \in {"select", "custom", "confirm"}
      PROVE  D!RejectStep(st, o, p) \in SessionRows
  BY DEF D!RejectStep, D!NoSession, SessionRows
<1>2. ASSUME NEW st \in {"type", "value", "recipient", "confirm", "done"},
             NEW has \in SUBSET D!Fields
      PROVE  D!MethodStep(st, has) \in SessionRows
  BY <1>s DEF D!MethodStep, SessionRows
<1>3. ASSUME NEW d \in Dialogs \cup Methods, NEW has \in SUBSET D!Fields
      PROVE  [D!NoSession EXCEPT !.flow = "method", !.step = "name", !.on = d, !.has = has]
               \in SessionRows
  BY DEF D!NoSession, SessionRows, D!Picks
<1>4. /\ session.on \in Orders \cup Dialogs \cup Methods \cup {None}
      /\ session.pick \in D!Picks /\ session.has \subseteq D!Fields
  BY <1>s DEF SessionRows
<1> QED
  BY <1>1, <1>2, <1>3, <1>4

\* A handler has read the session and will write s.
LEMMA WritesLater ==
    ASSUME RejectIInv, NEW w \in Workers, NEW s \in SessionRows, D!WillWrite(w, s)
    PROVE  RejectIInv'
<1> DEFINE r == [pc |-> "write", s |-> s]
<1>1. req' = [req EXCEPT ![w] = r] /\ UNCHANGED <<session, bill, method, told, both>>
  BY DEF D!WillWrite, D!Serve
<1>2. r \in ReqRows /\ r.pc = "write" /\ ~Writes(r)
  BY DEF ReqRows, Writes
<1>3. session' \in SessionRows
  BY <1>1 DEF RejectIInv, DialogTypes
<1> HIDE DEF r
<1> QED
  BY <1>1, <1>2, <1>3, PlainMoves

\* What an administrator presses keeps the invariant.
LEMMA RejectPress ==
    ASSUME RejectIInv, NEW w \in Workers, D!Press(w)
    PROVE  RejectIInv'
<1>t. DialogTypes
  BY DEF RejectIInv
<1>p. /\ None \in D!Picks /\ Custom \in D!Picks /\ Panel \in D!Picks
      /\ Reasons \subseteq D!Picks
  BY DEF D!Picks
<1>1. ASSUME NEW o \in Orders, D!OpenReject(w, o)
      PROVE  RejectIInv'
  BY <1>1, <1>t, <1>p, SessionTypes, IdleReq, WritesLater DEF D!OpenReject
<1>o. ASSUME NEW o \in Orders, NEW p \in D!Picks, NEW st \in {"order", "receipt", "issue"},
             st \in {"receipt", "issue"} => bill[o].status # "REJECTED",
             D!Serve(w, st, D!RejectStep("confirm", o, p)),
             UNCHANGED <<session, bill, method, told, both>>
      PROVE  RejectIInv'
  <2>1. PICK s \in SessionRows : s = D!RejectStep("confirm", o, p) /\ s.on = o
    BY <1>t, SessionTypes DEF D!RejectStep, D!NoSession
  <2> DEFINE r == [pc |-> st, s |-> s]
  <2>2. r \in ReqRows /\ r.pc = st /\ r.s = s
    BY DEF ReqRows
  <2>3. req' = [req EXCEPT ![w] = r]
    BY <1>o, <2>1 DEF D!Serve
  <2> HIDE DEF r
  <2>4. RejectRow(r)'
    BY <1>o, <2>1, <2>2 DEF RejectRow, Writes
  <2>5. session' \in SessionRows
    BY <1>t, <1>o DEF DialogTypes
  <2> QED
    BY <1>o, <2>2, <2>3, <2>4, <2>5, RejectMoves
<1>2. ASSUME NEW o \in Orders, D!PressReject(w, o)
      PROVE  RejectIInv'
  <2>1. PICK p \in D!Picks : p = session.pick
    BY <1>t, SessionTypes
  <2>2. /\ D!Serve(w, "order", D!RejectStep("confirm", o, p))
        /\ UNCHANGED <<session, bill, method, told, both>>
    BY <1>2, <2>1 DEF D!PressReject, D!history
  <2> QED
    BY <1>o, <2>2
<1>3. ASSUME NEW o \in Orders, D!PanelReject(w, o)
      PROVE  RejectIInv'
  BY <1>o, <1>p, <1>3 DEF D!PanelReject, D!history
<1>4. ASSUME D!InReject, NEW p \in D!Picks, D!WillWrite(w, D!RejectStep("confirm", session.on, p))
      PROVE  RejectIInv'
  <2>o. PICK x \in Orders \cup Dialogs \cup Methods \cup {None} : x = session.on
    BY <1>t, SessionTypes
  <2>s. D!RejectStep("confirm", x, p) \in SessionRows
    BY DEF D!RejectStep, D!NoSession, SessionRows
  <2>1. D!RejectStep("confirm", session.on, p) \in SessionRows
    BY <2>o, <2>s
  <2> QED
    BY <1>4, <2>1, WritesLater
<1>5. ASSUME NEW x \in Methods, D!EditMethod(w, x)
      PROVE  RejectIInv'
  BY <1>t, <1>5, SessionTypes, WritesLater DEF D!EditMethod
<1>6. ASSUME D!TypeField(w)
      PROVE  RejectIInv'
  <2>1. PICK tt \in {<<"name", "type">>, <<"value", "recipient">>, <<"recipient", "confirm">>} :
          D!WillWrite(w, D!MethodStep(tt[2], session.has \cup {tt[1]}))
    BY <1>6 DEF D!TypeField
  <2>a. tt[2] \in {"type", "recipient", "confirm"} /\ tt[1] \in D!Fields
    <3>1. CASE tt = <<"name", "type">>
      BY <3>1 DEF D!Fields
    <3>2. CASE tt = <<"value", "recipient">>
      BY <3>2 DEF D!Fields
    <3>3. CASE tt = <<"recipient", "confirm">>
      BY <3>3 DEF D!Fields
    <3> QED
      BY <3>1, <3>2, <3>3
  <2>2. session.has \cup {tt[1]} \subseteq D!Fields
    BY <1>t, <2>a, SessionTypes
  <2> QED
    BY <1>t, <2>1, <2>a, <2>2, SessionTypes, WritesLater
<1>7. ASSUME D!ChooseType(w)
      PROVE  RejectIInv'
  <2>1. session.has \cup {"type"} \subseteq D!Fields
    BY <1>t, SessionTypes DEF D!Fields
  <2> QED
    BY <1>t, <1>7, <2>1, SessionTypes, WritesLater DEF D!ChooseType
<1>8. ASSUME D!PressSave(w)
      PROVE  RejectIInv'
  <2>1. PICK s \in SessionRows : s = [session EXCEPT !.step = "done"]
    BY <1>t DEF DialogTypes, SessionRows
  <2> DEFINE r == [pc |-> "mark", s |-> s]
  <2>2. r \in ReqRows /\ r.pc = "mark" /\ ~Writes(r)
    BY DEF ReqRows, Writes
  <2>3. req' = [req EXCEPT ![w] = r] /\ UNCHANGED <<session, bill, method, told, both>>
    BY <1>8, <2>1 DEF D!PressSave, D!Serve
  <2>4. session' \in SessionRows
    BY <1>t, <2>3 DEF DialogTypes
  <2> HIDE DEF r
  <2> QED
    BY <2>2, <2>3, <2>4, PlainMoves
<1>9. ASSUME D!PressAdminMenu(w)
      PROVE  RejectIInv'
  BY <1>9, IdleReq, WritesLater DEF D!PressAdminMenu
<1>10. ASSUME NEW o \in Orders, D!ReadForReceipt(w, o) \/ D!ReadForApproval(w, o)
       PROVE  RejectIInv'
  <2>1. /\ \E st \in {"receipt", "issue"} : D!Serve(w, st, D!RejectStep("confirm", o, None))
        /\ bill[o].status # "REJECTED" /\ UNCHANGED <<session, bill, method, told, both>>
    BY <1>10 DEF D!ReadForReceipt, D!ReadForApproval, D!ReadFor, D!About, D!history
  <2> QED
    BY <1>o, <1>p, <2>1
<1> QED
  BY <1>1, <1>2, <1>3, <1>4, <1>5, <1>6, <1>7, <1>8, <1>9, <1>10, <1>p
    DEF D!Press, D!PickReason, D!TypeReason

\* A request reads the order, or writes it, or tells the customer.
LEMMA RejectWrites ==
    ASSUME RejectIInv, NEW w \in Workers
    PROVE  /\ D!ReadOrder(w) => RejectIInv'
           /\ D!RejectOrder(w) => RejectIInv'
           /\ D!SubmitReceipt(w) \/ D!IssueLicense(w) \/ D!CompleteOrder(w) => RejectIInv'
           /\ D!LeaveWizard(w) => RejectIInv'
           /\ D!NotifyCustomer(w) => RejectIInv'
<1>t. /\ DialogTypes /\ req \in [Workers -> ReqRows] /\ session \in SessionRows
      /\ bill \in [Orders -> BillRows]
  BY DEF RejectIInv, DialogTypes
<1>q. PICK q \in ReqRows : q = req[w]
  BY <1>t
<1>r. RejectRow(q) /\ q.s \in SessionRows
  BY <1>q DEF RejectIInv, ReqRows
<1>i. D!Finish(w) => req' = [req EXCEPT ![w] = D!Idle]
  BY DEF D!Finish
<1>g. ASSUME NEW st \in {"tx", "complete", "leave", "leaveTell", "tell"}, D!Goto(w, st)
      PROVE  \E r \in ReqRows : req' = [req EXCEPT ![w] = r] /\ r.pc = st /\ r.s = q.s
  <2> DEFINE r == [q EXCEPT !.pc = st]
  <2>1. r \in ReqRows /\ r.pc = st /\ r.s = q.s
    BY DEF ReqRows
  <2>2. req' = [req EXCEPT ![w] = r]
    BY <1>g, <1>q DEF D!Goto
  <2> HIDE DEF r
  <2> QED
    BY <2>1, <2>2
<1>1. ASSUME D!ReadOrder(w)
      PROVE  RejectIInv'
  <2>1. /\ q.pc = "order" /\ UNCHANGED <<session, bill, method, told, both>>
        /\ q.s.on \in Orders /\ session' \in SessionRows
    BY <1>1, <1>q, <1>r, <1>t DEF D!ReadOrder, D!At, D!history, RejectRow
  <2>2. CASE D!MayReject(q.s.on) /\ D!Goto(w, "tx")
    <3>1. PICK r \in ReqRows : req' = [req EXCEPT ![w] = r] /\ r.pc = "tx" /\ r.s = q.s
      BY <1>g, <2>2
    <3>2. RejectRow(r)'
      BY <2>1, <2>2, <3>1 DEF RejectRow, Writes, D!MayReject
    <3> QED
      BY <2>1, <3>1, <3>2, RejectMoves
  <2>3. CASE D!Finish(w) \/ D!Goto(w, "leave")
    <3>1. PICK r \in ReqRows : req' = [req EXCEPT ![w] = r] /\ r.pc \in {"idle", "leave"}
      BY <1>g, <1>i, <2>3, IdleReq
    <3>2. ~Writes(r)
      BY <3>1 DEF Writes
    <3> QED
      BY <2>1, <3>1, <3>2, PlainMoves
  <2> QED
    BY <1>1, <1>q, <2>2, <2>3 DEF D!ReadOrder, D!AfterDuplicate
<1>2. ASSUME D!RejectOrder(w)
      PROVE  RejectIInv'
  <2>1. /\ q.pc = "tx" /\ UNCHANGED <<session, method, told>> /\ q.s.on \in Orders
        /\ bill' = [bill EXCEPT ![q.s.on].status = "REJECTED", ![q.s.on].reason = q.s.pick]
        /\ D!Finish(w) \/ D!Goto(w, "leaveTell")
        /\ both' = both \cup {p \in {q.s.on} : \E v \in Workers \ {w} : D!Holds(v, p)}
    BY <1>2, <1>q, <1>r DEF D!RejectOrder, D!At, RejectRow, Writes
  <2>2. PICK o \in Orders : o = q.s.on
    BY <2>1
  <2>3. PICK p \in Reasons \cup {Custom, Panel, None} : p = q.s.pick
    BY <1>r DEF SessionRows, D!Picks
  <2>4. PICK b \in BillRows : /\ bill' = [bill EXCEPT ![o] = b]
                              /\ b.status = "REJECTED" /\ b.reason = p
    <3> DEFINE b == [bill[o] EXCEPT !.status = "REJECTED", !.reason = p]
    <3>1. b \in BillRows /\ b.status = "REJECTED" /\ b.reason = p
      BY <1>t DEF BillRows, D!Statuses
    <3>2. bill' = [bill EXCEPT ![o] = b]
      BY <1>t, <2>1, <2>2, <2>3
    <3> HIDE DEF b
    <3> QED
      BY <3>1, <3>2
  <2>5. PICK r \in ReqRows : /\ req' = [req EXCEPT ![w] = r]
                             /\ r.pc \in {"idle", "leaveTell"}
                             /\ r.pc = "leaveTell" => r.s = q.s
    BY <1>g, <1>i, <2>1, IdleReq
  <2>6. D!Holds(w, o)
    BY <1>q, <2>1, <2>2 DEF D!Holds
  <2>7. bill'[o] = b
    BY <1>t, <2>4
  <2>8. RejectRow(r)'
    BY <2>2, <2>3, <2>4, <2>5, <2>7 DEF RejectRow, Writes
  <2>9. o \in both' \/ \A v \in Workers \ {w} : ~D!Holds(v, o)
    BY <2>1, <2>2
  <2>10. both \subseteq both' /\ UNCHANGED <<session, method, told>>
    BY <2>1
  <2> QED
    BY <2>4, <2>5, <2>6, <2>8, <2>9, <2>10, OrderMoves
<1>5. ASSUME D!SubmitReceipt(w) \/ D!IssueLicense(w) \/ D!CompleteOrder(w)
      PROVE  RejectIInv'
  <2>1. /\ q.pc \in {"receipt", "issue", "complete"} /\ q.s.on \in Orders
        /\ UNCHANGED <<session, method, told, both>>
        /\ \/ bill' = [bill EXCEPT ![q.s.on].status = "UNDER_REVIEW"]
           \/ bill' = [bill EXCEPT ![q.s.on].licensed = TRUE]
           \/ bill' = [bill EXCEPT ![q.s.on].status = "COMPLETED"]
        /\ D!Finish(w) \/ D!Goto(w, "complete")
    BY <1>5, <1>q, <1>r DEF D!SubmitReceipt, D!IssueLicense, D!CompleteOrder, D!At, D!history,
         RejectRow, Writes
  <2>2. PICK o \in Orders : o = q.s.on
    BY <2>1
  <2>3. bill[o].status # "REJECTED" \/ o \in both
    BY <1>r, <2>1, <2>2 DEF RejectRow, Writes
  <2>4. PICK b \in BillRows : /\ bill' = [bill EXCEPT ![o] = b]
                              /\ b.status # "REJECTED" \/ o \in both
    <3>1. ASSUME NEW st \in {"UNDER_REVIEW", "COMPLETED"},
                 bill' = [bill EXCEPT ![o].status = st]
          PROVE  \E b \in BillRows : bill' = [bill EXCEPT ![o] = b] /\ b.status = st
      <4> DEFINE b == [bill[o] EXCEPT !.status = st]
      <4>1. b \in BillRows /\ b.status = st
        BY <1>t DEF BillRows, D!Statuses
      <4>2. bill' = [bill EXCEPT ![o] = b]
        BY <1>t, <3>1
      <4> HIDE DEF b
      <4> QED
        BY <4>1, <4>2
    <3>2. ASSUME bill' = [bill EXCEPT ![o].licensed = TRUE]
          PROVE  \E b \in BillRows : /\ bill' = [bill EXCEPT ![o] = b]
                                     /\ b.status = bill[o].status
      <4> DEFINE b == [bill[o] EXCEPT !.licensed = TRUE]
      <4>1. b \in BillRows /\ b.status = bill[o].status
        BY <1>t DEF BillRows
      <4>2. bill' = [bill EXCEPT ![o] = b]
        BY <1>t, <3>2
      <4> HIDE DEF b
      <4> QED
        BY <4>1, <4>2
    <3> QED
      BY <2>1, <2>2, <2>3, <3>1, <3>2
  <2>5. PICK r \in ReqRows : /\ req' = [req EXCEPT ![w] = r]
                             /\ r.pc \in {"idle", "complete"}
                             /\ r.pc = "complete" => r.s = q.s
    BY <1>g, <1>i, <2>1, IdleReq
  <2>6. D!Holds(w, o)
    BY <1>q, <2>1, <2>2 DEF D!Holds
  <2>7. bill'[o] = b /\ UNCHANGED both
    BY <1>t, <2>1, <2>4
  <2>8. RejectRow(r)'
    BY <2>2, <2>4, <2>5, <2>7 DEF RejectRow, Writes
  <2>9. b.status # "REJECTED" \/ o \in both'
    BY <2>4, <2>7
  <2>10. both \subseteq both' /\ UNCHANGED <<session, method, told>>
    BY <2>1
  <2> QED
    BY <2>4, <2>5, <2>6, <2>8, <2>9, <2>10, OrderMoves
<1>3. ASSUME D!LeaveWizard(w)
      PROVE  RejectIInv'
  <2>1. /\ UNCHANGED <<bill, method, told, both>> /\ session' = D!NoSession
        /\ \/ q.pc = "leaveTell" /\ D!Goto(w, "tell")
           \/ D!Finish(w)
    BY <1>3, <1>q DEF D!LeaveWizard, D!At, D!history
  <2>2. session' \in SessionRows
    BY <2>1, IdleReq
  <2>3. CASE q.pc = "leaveTell" /\ D!Goto(w, "tell")
    <3>1. PICK r \in ReqRows : req' = [req EXCEPT ![w] = r] /\ r.pc = "tell" /\ r.s = q.s
      BY <1>g, <2>3
    <3>2. RejectRow(r)'
      BY <1>r, <2>1, <2>3, <3>1 DEF RejectRow, Writes
    <3> QED
      BY <2>1, <2>2, <3>1, <3>2, RejectMoves
  <2>4. CASE D!Finish(w)
    BY <1>i, <2>1, <2>2, <2>4, IdleReq, PlainMoves DEF Writes
  <2> QED
    BY <2>1, <2>3, <2>4
<1>4. ASSUME D!NotifyCustomer(w)
      PROVE  RejectIInv'
  <2>1. /\ q.pc = "tell" /\ UNCHANGED <<session, bill, method, both>>
        /\ req' = [req EXCEPT ![w] = D!Idle]
        /\ told' = [told EXCEPT ![q.s.on] = @ \cup {q.s.pick}]
        /\ q.s.on \in Orders /\ q.s.pick \in D!Picks
    BY <1>4, <1>i, <1>q, <1>r DEF D!NotifyCustomer, D!At, RejectRow, SessionRows
  <2>2. /\ req' \in [Workers -> ReqRows] /\ req'[w] = D!Idle
        /\ \A v \in Workers \ {w} : req'[v] = req[v]
    BY <1>t, <2>1, IdleReq
  <2>3. /\ told' \in [Orders -> SUBSET D!Picks]
        /\ told'[q.s.on] = told[q.s.on] \cup {q.s.pick}
        /\ \A o \in Orders \ {q.s.on} : told'[o] = told[o]
    BY <1>t, <2>1 DEF DialogTypes
  <2>4. DialogTypes'
    BY <1>t, <2>1, <2>2, <2>3 DEF DialogTypes
  <2>5. ASSUME NEW v \in Workers
        PROVE  RejectRow(req[v])' /\ (v # w => req'[v] = req[v])
    <3>1. CASE v = w
      BY <2>2, <3>1, IdleReq DEF RejectRow, Writes
    <3>2. CASE v # w
      BY <2>1, <2>2, <3>2 DEF RejectIInv, RejectRow, Writes
    <3> QED
      BY <3>1, <3>2
  <2>7. ASSUME NEW x \in Orders
        PROVE  ToldRight(x)'
    <3>1. ToldRight(x) /\ RejectRow(q)
      BY <1>r DEF RejectIInv
    <3> QED
      BY <2>1, <2>3, <3>1 DEF ToldRight, RejectRow
  <2> QED
    BY <2>4, <2>5, <2>7 DEF RejectIInv
<1> QED
  BY <1>1, <1>2, <1>3, <1>4, <1>5

\* What handlers do without an order.
LEMMA RejectOthers ==
    ASSUME RejectIInv, NEW w \in Workers
    PROVE  /\ D!WriteSession(w) => RejectIInv'
           /\ D!MarkDone(w) => RejectIInv'
           /\ D!SaveMethod(w) => RejectIInv'
           /\ D!FailToSave(w) => RejectIInv'
           /\ D!UndoDone(w) => RejectIInv'
           /\ D!Crash(w) => RejectIInv'
<1>t. /\ DialogTypes /\ req \in [Workers -> ReqRows] /\ session \in SessionRows
      /\ method \in D!MethodRows
  BY DEF RejectIInv, DialogTypes
<1>q. PICK q \in ReqRows : q = req[w]
  BY <1>t
<1>s. q.s \in SessionRows
  BY DEF ReqRows
<1>g. ASSUME NEW st \in {"save", "undo"}, D!Goto(w, st)
      PROVE  \E r \in ReqRows : req' = [req EXCEPT ![w] = r] /\ r.pc = st
  <2> DEFINE r == [q EXCEPT !.pc = st]
  <2>1. r \in ReqRows /\ r.pc = st
    BY DEF ReqRows
  <2>2. req' = [req EXCEPT ![w] = r]
    BY <1>g, <1>q DEF D!Goto
  <2> HIDE DEF r
  <2> QED
    BY <2>1, <2>2
<1>1. ASSUME D!WriteSession(w)
      PROVE  RejectIInv'
  BY <1>1, <1>q, <1>s, IdleReq, PlainMoves DEF Writes, D!WriteSession, D!Finish, D!history
<1>2. ASSUME D!MarkDone(w)
      PROVE  RejectIInv'
  <2>1. session' = q.s /\ UNCHANGED <<bill, method, told, both>> /\ D!Goto(w, "save")
    BY <1>2, <1>q DEF D!MarkDone, D!history
  <2>2. PICK r \in ReqRows : req' = [req EXCEPT ![w] = r] /\ r.pc = "save"
    BY <1>g, <2>1
  <2> QED
    BY <1>s, <2>1, <2>2, PlainMoves DEF Writes
<1>3. ASSUME D!FailToSave(w)
      PROVE  RejectIInv'
  <2>1. UNCHANGED <<session, bill, method, told, both>> /\ D!Goto(w, "undo")
    BY <1>3 DEF D!FailToSave, D!history
  <2>2. PICK r \in ReqRows : req' = [req EXCEPT ![w] = r] /\ r.pc = "undo"
    BY <1>g, <2>1
  <2> QED
    BY <1>t, <2>1, <2>2, PlainMoves DEF Writes
<1>4. ASSUME D!UndoDone(w)
      PROVE  RejectIInv'
  <2>1. /\ session' = [q.s EXCEPT !.step = "confirm"] /\ UNCHANGED <<bill, method, told, both>>
        /\ req' = [req EXCEPT ![w] = D!Idle]
    BY <1>4, <1>q DEF D!UndoDone, D!Finish, D!history
  <2>2. session' \in SessionRows
    BY <1>s, <2>1 DEF SessionRows
  <2> QED
    BY <2>1, <2>2, IdleReq, PlainMoves DEF Writes
<1>5. ASSUME D!Crash(w)
      PROVE  RejectIInv'
  BY <1>5, <1>t, IdleReq, PlainMoves DEF Writes, D!Crash, D!Finish, D!history
<1>6. ASSUME D!SaveMethod(w)
      PROVE  RejectIInv'
  <2>1. UNCHANGED <<session, bill, told, both>>
    BY <1>6 DEF D!SaveMethod, D!history
  <2>2. PICK r \in ReqRows : req' = [req EXCEPT ![w] = r] /\ r.pc \in {"leave", "undo"}
    <3>1. [pc |-> "leave", s |-> D!NoSession] \in ReqRows
      BY IdleReq DEF ReqRows
    <3>2. PICK r \in ReqRows : r = [pc |-> "leave", s |-> D!NoSession] /\ r.pc = "leave"
      BY <3>1
    <3>3. D!Goto(w, "undo") \/ req' = [req EXCEPT ![w] = r]
      BY <1>6, <3>2 DEF D!SaveMethod, D!Serve
    <3> QED
      BY <1>g, <3>2, <3>3
  <2>3. CASE UNCHANGED method
    BY <1>t, <2>1, <2>2, <2>3, PlainMoves DEF Writes
  <2>4. ASSUME NEW x \in Methods, q.s.on \in Dialogs,
               method' = [method EXCEPT ![x] = [state |-> "here", by |-> q.s.on]]
        PROVE  RejectIInv'
    <3>1. method' \in D!MethodRows
      BY <1>t, <2>4 DEF D!MethodRows
    <3>2. /\ req' \in [Workers -> ReqRows] /\ req'[w] = r
          /\ \A v \in Workers \ {w} : req'[v] = req[v]
      BY <1>t, <2>2
    <3>3. DialogTypes'
      BY <1>t, <2>1, <3>1, <3>2 DEF DialogTypes
    <3>4. \A v \in Workers : RejectRow(req[v])'
      <4>1. ASSUME NEW v \in Workers \ {w}
            PROVE  RejectRow(req[v])'
        BY <2>1, <3>2 DEF RejectIInv, RejectRow, Writes
      <4>2. RejectRow(req[w])'
        BY <2>2, <3>2 DEF RejectRow, Writes
      <4> QED
        BY <4>1, <4>2
    <3>6. \A o \in Orders : ToldRight(o)'
      BY <2>1 DEF RejectIInv, ToldRight
    <3> QED
      BY <3>3, <3>4, <3>6 DEF RejectIInv
  <2> QED
    BY <1>6, <1>q, <2>3, <2>4 DEF D!SaveMethod
<1> QED
  BY <1>1, <1>2, <1>3, <1>4, <1>5, <1>6

\* Handlers of one write, and what customers and the panel do meanwhile.
LEMMA RejectMeanwhile ==
    ASSUME RejectIInv
    PROVE  /\ D!PressAtOnce => RejectIInv'
           /\ D!ExpireSession => RejectIInv'
           /\ \A o \in Orders : D!CancelOrder(o) => RejectIInv'
<1>t. /\ DialogTypes /\ req \in [Workers -> ReqRows] /\ session \in SessionRows
      /\ method \in D!MethodRows /\ bill \in [Orders -> BillRows]
  BY DEF RejectIInv, DialogTypes
<1>1. ASSUME NEW s \in SessionRows, D!WriteNow(s)
      PROVE  RejectIInv'
  BY <1>1, <1>t, SessionMoves DEF D!WriteNow, D!history
<1>2. ASSUME NEW x \in Methods, D!DeleteMethod(x)
      PROVE  RejectIInv'
  <2>1. method' \in D!MethodRows
    BY <1>t, <1>2 DEF D!DeleteMethod, D!MethodRows
  <2> QED
    BY <1>2, <2>1, IdleReq, SessionMoves DEF D!DeleteMethod, D!history
<1>3. ASSUME D!LeaveDialog
      PROVE  RejectIInv'
  BY <1>1, <1>3, IdleReq DEF D!LeaveDialog
<1>4. ASSUME NEW o \in Orders, D!AskCustom(o)
      PROVE  RejectIInv'
  <2>1. D!RejectStep("custom", o, None) \in SessionRows
    BY <1>t, SessionTypes DEF D!Picks
  <2> QED
    BY <1>1, <1>4, <2>1 DEF D!AskCustom
<1>5. ASSUME NEW d \in Dialogs, D!AddMethod(d)
      PROVE  RejectIInv'
  <2>1. [D!NoSession EXCEPT !.flow = "method", !.step = "name", !.on = d] \in SessionRows
    BY DEF D!NoSession, SessionRows, D!Picks
  <2> QED
    BY <1>1, <1>5, <2>1 DEF D!AddMethod
<1>6. ASSUME D!PressAtOnce
      PROVE  RejectIInv'
  BY <1>2, <1>3, <1>4, <1>5, <1>6 DEF D!PressAtOnce
<1>7. ASSUME NEW o \in Orders, D!CancelOrder(o)
      PROVE  RejectIInv'
  <2>0. /\ bill[o].status # "REJECTED" /\ bill' = [bill EXCEPT ![o].status = "CANCELLED"]
        /\ UNCHANGED <<session, method, req, told, both>>
    BY <1>7 DEF D!CancelOrder, D!history
  <2>1. /\ bill' \in [Orders -> BillRows]
        /\ \A x \in Orders \ {o} : bill'[x] = bill[x]
        /\ bill'[o].status # "REJECTED"
    BY <1>t, <2>0 DEF BillRows, D!Statuses
  <2>2. DialogTypes'
    BY <1>t, <2>0, <2>1 DEF DialogTypes
  <2>3. ASSUME NEW v \in Workers
        PROVE  RejectRow(req[v])'
    <3>0. PICK x \in ReqRows : x = req[v]
      BY <1>t
    <3>1. RejectRow(x)
      BY <3>0 DEF RejectIInv
    <3>2. RejectRow(x)'
      BY <2>0, <2>1, <3>1 DEF RejectRow, Writes
    <3> QED
      BY <2>0, <3>0, <3>2
  <2>5. \A x \in Orders : ToldRight(x)'
    BY <2>0, <2>1 DEF RejectIInv, ToldRight
  <2> QED
    BY <2>2, <2>3, <2>5 DEF RejectIInv
<1> QED
  BY <1>3, <1>6, <1>7 DEF D!ExpireSession

LEMMA RejectNext ==
    ASSUME RejectIInv, D!Next
    PROVE  RejectIInv'
<1>1. ASSUME NEW w \in Workers, D!Continue(w)
      PROVE  RejectIInv'
  BY <1>1, RejectWrites, RejectOthers DEF D!Continue
<1> QED
  BY <1>1, RejectPress, RejectOthers, RejectMeanwhile DEF D!Next

LEMMA RejectStart ==
    ASSUME D!Init
    PROVE  RejectIInv
<1>1. DialogTypes
  BY IdleReq DEF D!Init, DialogTypes, BillRows, D!Statuses, D!MethodRows
<1>2. \A w \in Workers : req[w] = D!Idle
  BY DEF D!Init
<1>3. \A w \in Workers : RejectRow(req[w])
  BY <1>2, IdleReq DEF RejectRow, Writes
<1>4. \A o \in Orders : ToldRight(o)
  BY DEF D!Init, ToldRight
<1> QED
  BY <1>1, <1>3, <1>4 DEF RejectIInv

LEMMA RejectStutter ==
    ASSUME RejectIInv, UNCHANGED dialogVars
    PROVE  RejectIInv'
<1>1. UNCHANGED <<bill, req, told, both, method, session>>
  BY DEF dialogVars
<1> QED
  BY <1>1, SessionMoves DEF RejectIInv, DialogTypes

\* However many handlers of the wizards of rejection, calls of the panel, receipts and
\* approvals run at a time: what is announced is on record, unless the order was rejected
\* while another request that had read it was still to write it.
THEOREM RejectionInvariance == OfficeSpec => [](part = "dialogs" => RejectIInv)
<1>1. OfficeInit => (part = "dialogs" => RejectIInv)
  BY RejectStart DEF OfficeInit
<1>2. (part = "dialogs" => RejectIInv) /\ [OfficeNext]_allVars => (part = "dialogs" => RejectIInv)'
  <2> SUFFICES ASSUME part = "dialogs" => RejectIInv, [OfficeNext]_allVars, part' = "dialogs"
               PROVE  RejectIInv'
    OBVIOUS
  <2>1. part = "dialogs" /\ RejectIInv
    BY DEF OfficeNext, allVars
  <2>2. CASE UNCHANGED allVars
    BY <2>1, <2>2, RejectStutter DEF allVars
  <2>3. CASE OfficeNext
    BY <2>1, <2>3, RejectNext DEF OfficeNext
  <2> QED
    BY <2>2, <2>3
<1> QED
  BY <1>1, <1>2, PTL DEF OfficeSpec

\* A customer is told the reason on record, whatever wizards were left, opened again
\* or confirmed by an old button (telegram-payment-reject.service.ts), unless a request
\* that had read the order before its rejection was still to write it.
THEOREM ReasonsToldAreOnRecord == OfficeSpec => []ToldIsOnRecord
<1>1. (part = "dialogs" => RejectIInv) => ToldIsOnRecord
  BY DEF ToldIsOnRecord, D!ToldIsOnRecord, RejectIInv, ToldRight
<1> QED
  BY <1>1, RejectionInvariance, PTL

\* A rejected order stays as it is: a later rejection finds it rejected, a receipt and an
\* approval do not take it up, unless they had read the order before the rejection was
\* written (order.service.ts and payment-approval.service.ts write it by its id).
THEOREM RejectionsStand == OfficeSpec => RejectionStands
<1>1. (part = "dialogs" => RejectIInv) /\ [OfficeNext]_allVars
        => [part = "dialogs" => D!KeepsReason]_allVars
  <2> SUFFICES ASSUME part = "dialogs", RejectIInv, OfficeNext
               PROVE  D!KeepsReason
    BY DEF OfficeNext
  <2>1. D!Next
    BY DEF OfficeNext
  <2> SUFFICES ASSUME NEW o \in Orders, bill[o].status = "REJECTED"
               PROVE  bill'[o] = bill[o] \/ o \in both
    BY DEF D!KeepsReason
  <2>t. bill \in [Orders -> BillRows]
    BY DEF RejectIInv, DialogTypes
  <2>2. CASE UNCHANGED bill
    BY <2>2
  <2>3. ASSUME NEW w \in Workers,
               \/ D!RejectOrder(w) \/ D!SubmitReceipt(w)
               \/ D!IssueLicense(w) \/ D!CompleteOrder(w)
        PROVE  bill'[o] = bill[o] \/ o \in both
    <3>1. RejectRow(req[w]) /\ Writes(req[w])
      BY <2>3 DEF RejectIInv, Writes, D!RejectOrder, D!SubmitReceipt, D!IssueLicense,
           D!CompleteOrder, D!At
    <3>2. req[w].s.on # o => bill'[o] = bill[o]
      BY <2>t, <2>3 DEF D!RejectOrder, D!SubmitReceipt, D!IssueLicense, D!CompleteOrder
    <3>3. req[w].s.on = o => o \in both
      BY <3>1 DEF RejectRow
    <3> QED
      BY <3>2, <3>3
  <2>4. ASSUME NEW x \in Orders, D!CancelOrder(x)
        PROVE  bill'[o] = bill[o]
    BY <2>t, <2>4 DEF D!CancelOrder
  <2>5. ASSUME NEW w \in Workers, D!Press(w)
        PROVE  UNCHANGED bill
    BY <2>5 DEF D!Press, D!OpenReject, D!PressReject, D!PanelReject, D!PickReason,
         D!TypeReason, D!EditMethod, D!TypeField, D!ChooseType, D!PressSave,
         D!PressAdminMenu, D!WillWrite, D!ReadForReceipt, D!ReadForApproval, D!ReadFor
  <2>6. ASSUME NEW w \in Workers, D!Continue(w), ~D!RejectOrder(w), ~D!SubmitReceipt(w),
               ~D!IssueLicense(w), ~D!CompleteOrder(w)
        PROVE  UNCHANGED bill
    BY <2>6 DEF D!Continue, D!WriteSession, D!ReadOrder, D!LeaveWizard, D!NotifyCustomer,
         D!MarkDone, D!SaveMethod, D!FailToSave, D!UndoDone
  <2>7. ASSUME D!PressAtOnce \/ D!ExpireSession
        PROVE  UNCHANGED bill
    BY <2>7 DEF D!PressAtOnce, D!ExpireSession, D!LeaveDialog, D!AskCustom, D!AddMethod,
         D!DeleteMethod, D!WriteNow
  <2>8. ASSUME NEW w \in Workers, D!Crash(w)
        PROVE  UNCHANGED bill
    BY <2>8 DEF D!Crash
  <2> QED
    BY <2>1, <2>2, <2>3, <2>4, <2>5, <2>6, <2>7, <2>8 DEF D!Next
<1> QED
  BY <1>1, RejectionInvariance, PTL DEF OfficeSpec, RejectionStands

\* The wizard of payment methods.

OfWizard(r, d) == r.s.flow = "method" /\ r.s.on = d
SessionOpen(d) == session.flow = "method" /\ session.on = d /\ session.step # "done"
HasMethod(d) == \E x \in Methods : method[x].by = d
Saving(r, d) == OfWizard(r, d) /\ r.pc = "save"

WizardRow(r) ==
    /\ r.pc \in {"mark", "save", "undo"} => r.s.flow = "method"
    /\ r.pc = "mark" => r.s.step = "done"

\* A wizard has one handler, which has made no method; while it saves, and once there is
\* a method, the session is not one from which another can be saved.
WizardRight(d) ==
    /\ \A v, w \in Workers : OfWizard(req[v], d) /\ OfWizard(req[w], d) => v = w
    /\ \A w \in Workers : OfWizard(req[w], d) => ~HasMethod(d)
    /\ HasMethod(d) => ~SessionOpen(d)
    /\ \A w \in Workers : Saving(req[w], d) => ~SessionOpen(d)
    /\ \A x, y \in Methods : method[x].by = d /\ method[y].by = d => x = y

WizardIInv ==
    /\ \A w \in Workers : WizardRow(req[w])
    /\ \A d \in Dialogs \ mixed : WizardRight(d)

\* The session may become open.
MayOpen(d) == ~HasMethod(d) /\ \A v \in Workers : ~Saving(req[v], d)

\* A handler goes on with the row r.
LEMMA WizardMoves ==
    ASSUME RejectIInv, WizardIInv, NEW w \in Workers, NEW r \in ReqRows,
           req' = [req EXCEPT ![w] = r], UNCHANGED method, mixed \subseteq mixed', WizardRow(r),
           \A d \in Dialogs \ mixed' : OfWizard(r, d) =>
              \/ OfWizard(req[w], d)
              \/ ~HasMethod(d) /\ \A v \in Workers \ {w} : ~OfWizard(req[v], d),
           \A d \in Dialogs \ mixed' : SessionOpen(d)' =>
              /\ ~HasMethod(d) /\ ~Saving(r, d)
              /\ \A v \in Workers \ {w} : ~Saving(req[v], d)
    PROVE  WizardIInv'
<1>1. /\ req'[w] = r
      /\ \A v \in Workers \ {w} : req'[v] = req[v]
  BY DEF RejectIInv, DialogTypes
<1>2. \A v \in Workers : WizardRow(req'[v])
  BY <1>1 DEF WizardIInv
<1>3. ASSUME NEW d \in Dialogs \ mixed'
      PROVE  WizardRight(d)'
  <2>1. WizardRight(d)
    BY DEF WizardIInv
  <2>2. HasMethod(d)' <=> HasMethod(d)
    BY DEF HasMethod
  <2>3. ASSUME NEW v \in Workers, NEW u \in Workers, OfWizard(req'[v], d), OfWizard(req'[u], d)
        PROVE  v = u
    BY <1>1, <2>1, <2>3 DEF WizardRight
  <2>4. ASSUME NEW v \in Workers, OfWizard(req'[v], d)
        PROVE  ~HasMethod(d)
    BY <1>1, <2>1, <2>4 DEF WizardRight
  <2>5. ASSUME NEW v \in Workers, Saving(req'[v], d)
        PROVE  ~SessionOpen(d)'
    BY <1>1, <2>5
  <2>6. /\ \A v, u \in Workers : (OfWizard(req[v], d) /\ OfWizard(req[u], d) => v = u)'
        /\ \A v \in Workers : (OfWizard(req[v], d) => ~HasMethod(d))'
        /\ \A v \in Workers : (Saving(req[v], d) => ~SessionOpen(d))'
    BY <2>2, <2>3, <2>4, <2>5 DEF OfWizard, Saving
  <2>7. (HasMethod(d) => ~SessionOpen(d))'
    BY <2>2
  <2>8. \A x, y \in Methods : (method[x].by = d /\ method[y].by = d => x = y)'
    BY <2>1 DEF WizardRight
  <2> QED
    BY <2>6, <2>7, <2>8 DEF WizardRight
<1>4. \A v \in Workers : WizardRow(req[v])'
  BY <1>2 DEF WizardRow
<1> QED
  BY <1>3, <1>4 DEF WizardIInv

\* Only the session changes, or the state of a method.
LEMMA WizardStays ==
    ASSUME RejectIInv, WizardIInv, UNCHANGED <<req, mixed>>,
           \A x \in Methods : method'[x].by = method[x].by,
           \A d \in Dialogs \ mixed : SessionOpen(d)' => MayOpen(d)
    PROVE  WizardIInv'
<1>1. \A v \in Workers : WizardRow(req[v])'
  BY DEF WizardIInv, WizardRow
<1>2. ASSUME NEW d \in Dialogs \ mixed'
      PROVE  WizardRight(d)'
  <2>1. WizardRight(d) /\ (SessionOpen(d)' => MayOpen(d))
    BY DEF WizardIInv
  <2>2. HasMethod(d)' <=> HasMethod(d)
    BY DEF HasMethod
  <2>3. /\ \A v, u \in Workers : (OfWizard(req[v], d) /\ OfWizard(req[u], d) => v = u)'
        /\ \A v \in Workers : (OfWizard(req[v], d) => ~HasMethod(d))'
        /\ \A v \in Workers : (Saving(req[v], d) => ~SessionOpen(d))'
    BY <2>1, <2>2 DEF WizardRight, MayOpen
  <2>4. (HasMethod(d) => ~SessionOpen(d))'
    BY <2>1, <2>2 DEF MayOpen
  <2>5. \A x, y \in Methods : (method[x].by = d /\ method[y].by = d => x = y)'
    BY <2>1 DEF WizardRight
  <2> QED
    BY <2>3, <2>4, <2>5 DEF WizardRight
<1> QED
  BY <1>1, <1>2 DEF WizardIInv

\* A handler goes on, and the session stays as it is or is no wizard's.
LEMMA WizardRests ==
    ASSUME RejectIInv, WizardIInv, NEW w \in Workers, NEW r \in ReqRows,
           req' = [req EXCEPT ![w] = r], UNCHANGED <<method, mixed>>,
           r.pc \notin {"mark", "save", "undo"}, r.s.flow = "method" => r.s = req[w].s,
           session' \in {session, D!NoSession}
    PROVE  WizardIInv'
<1>1. WizardRow(r) /\ \A d \in Dialogs : ~Saving(r, d)
  BY DEF WizardRow, Saving
<1>2. \A d \in Dialogs \ mixed' : OfWizard(r, d) => OfWizard(req[w], d)
  BY DEF OfWizard
<1>3. ASSUME NEW d \in Dialogs \ mixed', SessionOpen(d)'
      PROVE  ~HasMethod(d) /\ \A v \in Workers \ {w} : ~Saving(req[v], d)
  <2>1. SessionOpen(d)
    BY <1>3, IdleReq DEF SessionOpen
  <2> QED
    BY <2>1 DEF WizardIInv, WizardRight
<1> QED
  BY <1>1, <1>2, <1>3, WizardMoves

\* A handler begins, and will write s: it is another wizard's, or this one's as read.
LEMMA WizardBegins ==
    ASSUME RejectIInv, WizardIInv, NEW w \in Workers, NEW s \in SessionRows,
           NEW pc \in {"write", "mark"}, req' = [req EXCEPT ![w] = [pc |-> pc, s |-> s]],
           UNCHANGED <<session, method>>, D!Overlap(w, session),
           pc = "mark" => s.flow = "method" /\ s.step = "done",
           \/ s.flow # "method"
           \/ s.on \notin Dialogs
           \/ s.on = session.on /\ session.flow = "method" /\ session.step # "done"
    PROVE  WizardIInv'
<1> DEFINE r == [pc |-> pc, s |-> s]
<1>1. r \in ReqRows /\ r.pc = pc /\ r.s = s /\ req' = [req EXCEPT ![w] = r]
  BY DEF ReqRows
<1> HIDE DEF r
<1>2. WizardRow(r) /\ \A d \in Dialogs : ~Saving(r, d)
  BY <1>1 DEF WizardRow, Saving
<1>3. mixed \subseteq mixed'
  BY DEF D!Overlap
<1>4. ASSUME NEW d \in Dialogs \ mixed', OfWizard(r, d)
      PROVE  ~HasMethod(d) /\ \A v \in Workers \ {w} : ~OfWizard(req[v], d)
  <2>1. session.flow = "method" /\ session.on = d /\ session.step # "done"
    BY <1>1, <1>4 DEF OfWizard
  <2>2. ~HasMethod(d)
    BY <1>3, <2>1 DEF WizardIInv, WizardRight, SessionOpen
  <2>3. \A v \in Workers \ {w} : req[v].s.on # d
    BY <2>1 DEF D!Overlap
  <2> QED
    BY <2>2, <2>3 DEF OfWizard
<1>5. ASSUME NEW d \in Dialogs \ mixed', SessionOpen(d)'
      PROVE  ~HasMethod(d) /\ \A v \in Workers \ {w} : ~Saving(req[v], d)
  <2>1. SessionOpen(d)
    BY <1>5 DEF SessionOpen
  <2> QED
    BY <1>3, <2>1 DEF WizardIInv, WizardRight
<1> QED
  BY <1>1, <1>2, <1>3, <1>4, <1>5, WizardMoves

LEMMA WizardPress ==
    ASSUME RejectIInv, WizardIInv, NEW w \in Workers, D!Press(w)
    PROVE  WizardIInv'
<1>t. DialogTypes /\ session \in SessionRows
  BY DEF RejectIInv, DialogTypes
<1>d. \A x \in Methods : x \notin Dialogs
  BY DialogsAssumption DEF D!AdminDialogsAssumption
<1>w. ASSUME NEW s \in SessionRows, D!WillWrite(w, s),
             \/ s.flow # "method"
             \/ s.on \notin Dialogs
             \/ s.on = session.on /\ session.flow = "method" /\ session.step # "done"
      PROVE  WizardIInv'
  BY <1>w, WizardBegins DEF D!WillWrite, D!Serve
<1>m. ASSUME NEW st \in {"type", "value", "recipient", "confirm", "done"},
             NEW has \in SUBSET D!Fields, D!WillWrite(w, D!MethodStep(st, has)),
             session.flow = "method", session.step # "done"
      PROVE  WizardIInv'
  <2>1. PICK s \in SessionRows : s = D!MethodStep(st, has)
    BY <1>t, SessionTypes
  <2>2. s.on = session.on
    BY <1>t, <2>1 DEF D!MethodStep, SessionRows
  <2> QED
    BY <1>m, <1>w, <2>1, <2>2
<1>x. ASSUME NEW o \in Orders \cup Dialogs \cup Methods \cup {None}, NEW p \in D!Picks,
             NEW st \in {"select", "confirm"}, D!WillWrite(w, D!RejectStep(st, o, p))
      PROVE  WizardIInv'
  <2>1. PICK s : s = D!RejectStep(st, o, p)
    OBVIOUS
  <2>2. s \in SessionRows /\ s.flow = "reject"
    BY <2>1 DEF D!RejectStep, D!NoSession, SessionRows
  <2> QED
    BY <1>w, <1>x, <2>1, <2>2
<1>p. /\ None \in D!Picks /\ Custom \in D!Picks /\ Panel \in D!Picks
      /\ Reasons \subseteq D!Picks
  BY DEF D!Picks
<1>1. ASSUME NEW o \in Orders, D!OpenReject(w, o)
      PROVE  WizardIInv'
  <2>1. D!WillWrite(w, D!NoSession) \/ D!WillWrite(w, D!RejectStep("select", o, None))
    BY <1>1 DEF D!OpenReject
  <2> QED
    BY <1>p, <1>w, <1>x, <2>1, IdleReq
<1>o. ASSUME NEW o \in Orders, NEW p \in D!Picks, NEW st \in {"order", "receipt", "issue"},
             D!Serve(w, st, D!RejectStep("confirm", o, p)),
             UNCHANGED <<session, method, mixed>>
      PROVE  WizardIInv'
  <2>1. PICK s \in SessionRows : s = D!RejectStep("confirm", o, p) /\ s.flow = "reject"
    BY <1>t, SessionTypes DEF D!RejectStep, D!NoSession
  <2> DEFINE r == [pc |-> st, s |-> s]
  <2>2. r \in ReqRows /\ r.pc = st /\ r.s = s
    BY DEF ReqRows
  <2>3. req' = [req EXCEPT ![w] = r]
    BY <1>o, <2>1 DEF D!Serve
  <2> HIDE DEF r
  <2> QED
    BY <1>o, <2>1, <2>2, <2>3, WizardRests
<1>2. ASSUME NEW o \in Orders, D!PressReject(w, o)
      PROVE  WizardIInv'
  <2>1. PICK p \in D!Picks : p = session.pick
    BY <1>t, SessionTypes
  <2>2. /\ D!Serve(w, "order", D!RejectStep("confirm", o, p))
        /\ UNCHANGED <<session, method, mixed>>
    BY <1>2, <2>1 DEF D!PressReject, D!history
  <2> QED
    BY <1>o, <2>2
<1>3. ASSUME NEW o \in Orders, D!PanelReject(w, o)
      PROVE  WizardIInv'
  BY <1>o, <1>p, <1>3 DEF D!PanelReject, D!history
<1>4. ASSUME NEW p \in D!Picks, D!WillWrite(w, D!RejectStep("confirm", session.on, p))
      PROVE  WizardIInv'
  <2>1. PICK o \in Orders \cup Dialogs \cup Methods \cup {None} : o = session.on
    BY <1>t, SessionTypes
  <2> QED
    BY <1>4, <1>x, <2>1
<1>5. ASSUME NEW x \in Methods, D!EditMethod(w, x)
      PROVE  WizardIInv'
  <2>1. PICK s : s = [D!NoSession EXCEPT !.flow = "method", !.step = "name", !.on = x,
                                         !.has = D!Fields]
    OBVIOUS
  <2>2. s \in SessionRows
    BY <1>t, <2>1, SessionTypes
  <2>3. s.on = x
    BY <2>1 DEF D!NoSession
  <2> QED
    BY <1>5, <1>d, <1>w, <2>1, <2>2, <2>3 DEF D!EditMethod
<1>6. ASSUME D!TypeField(w)
      PROVE  WizardIInv'
  <2>1. PICK tt \in {<<"name", "type">>, <<"value", "recipient">>, <<"recipient", "confirm">>} :
          /\ session.step = tt[1]
          /\ D!WillWrite(w, D!MethodStep(tt[2], session.has \cup {tt[1]}))
    BY <1>6 DEF D!TypeField
  <2>a. /\ tt[2] \in {"type", "recipient", "confirm"} /\ tt[1] \in D!Fields
        /\ tt[1] # "done"
    <3>1. CASE tt = <<"name", "type">>
      BY <3>1 DEF D!Fields
    <3>2. CASE tt = <<"value", "recipient">>
      BY <3>2 DEF D!Fields
    <3>3. CASE tt = <<"recipient", "confirm">>
      BY <3>3 DEF D!Fields
    <3> QED
      BY <3>1, <3>2, <3>3
  <2>2. session.has \cup {tt[1]} \subseteq D!Fields
    BY <1>t, <2>a, SessionTypes
  <2>3. session.flow = "method"
    BY <1>6 DEF D!TypeField, D!InMethod
  <2> QED
    BY <1>m, <2>1, <2>a, <2>2, <2>3
<1>7. ASSUME D!ChooseType(w)
      PROVE  WizardIInv'
  <2>1. session.has \cup {"type"} \subseteq D!Fields
    BY <1>t, SessionTypes DEF D!Fields
  <2> QED
    BY <1>7, <1>m, <2>1 DEF D!ChooseType, D!TypeOpen, D!InMethod
<1>8. ASSUME D!PressSave(w)
      PROVE  WizardIInv'
  <2>1. PICK s \in SessionRows : s = [session EXCEPT !.step = "done"]
    BY <1>t DEF SessionRows
  <2>2. s.on = session.on /\ s.flow = session.flow /\ s.step = "done"
    BY <1>t, <2>1 DEF SessionRows
  <2>3. /\ req' = [req EXCEPT ![w] = [pc |-> "mark", s |-> s]]
        /\ UNCHANGED <<session, method>> /\ D!Overlap(w, session)
        /\ session.flow = "method" /\ session.step # "done"
    BY <1>8, <2>1 DEF D!PressSave, D!Serve, D!InMethod
  <2> QED
    BY <2>2, <2>3, WizardBegins
<1>9. ASSUME D!PressAdminMenu(w)
      PROVE  WizardIInv'
  BY <1>9, <1>w, IdleReq DEF D!PressAdminMenu
<1>10. ASSUME NEW o \in Orders, D!ReadForReceipt(w, o) \/ D!ReadForApproval(w, o)
       PROVE  WizardIInv'
  <2>1. /\ \E st \in {"receipt", "issue"} : D!Serve(w, st, D!RejectStep("confirm", o, None))
        /\ UNCHANGED <<session, method, mixed>>
    BY <1>10 DEF D!ReadForReceipt, D!ReadForApproval, D!ReadFor, D!About, D!history
  <2> QED
    BY <1>o, <1>p, <2>1
<1> QED
  BY <1>1, <1>2, <1>3, <1>4, <1>5, <1>6, <1>7, <1>8, <1>9, <1>10, <1>p
    DEF D!Press, D!PickReason, D!TypeReason

LEMMA WizardContinues ==
    ASSUME RejectIInv, WizardIInv, NEW w \in Workers, D!Continue(w) \/ D!Crash(w)
    PROVE  WizardIInv'
<1>t. DialogTypes /\ req \in [Workers -> ReqRows] /\ method \in D!MethodRows
  BY DEF RejectIInv, DialogTypes
<1>q. PICK q \in ReqRows : q = req[w]
  BY <1>t
<1>r. WizardRow(q) /\ q.s \in SessionRows
  BY <1>q DEF WizardIInv, ReqRows
<1>g. ASSUME NEW st \in {"tx", "complete", "leave", "leaveTell", "tell", "save", "undo"},
             D!Goto(w, st)
      PROVE  \E r \in ReqRows : req' = [req EXCEPT ![w] = r] /\ r.pc = st /\ r.s = q.s
  <2> DEFINE r == [q EXCEPT !.pc = st]
  <2>1. r \in ReqRows /\ r.pc = st /\ r.s = q.s
    BY DEF ReqRows
  <2>2. req' = [req EXCEPT ![w] = r]
    BY <1>g, <1>q DEF D!Goto
  <2> HIDE DEF r
  <2> QED
    BY <2>1, <2>2
\* No other handler of the wizard runs, and it has made no method.
<1>a. ASSUME NEW d \in Dialogs \ mixed, OfWizard(q, d)
      PROVE  ~HasMethod(d) /\ \A v \in Workers \ {w} : ~OfWizard(req[v], d)
  BY <1>a, <1>q DEF WizardIInv, WizardRight
\* Handlers that leave the session or clear it.
<1>b. ASSUME NEW st \in {"tx", "complete", "leave", "leaveTell", "tell"},
             D!Goto(w, st) \/ D!Finish(w),
             UNCHANGED <<method, mixed>>, session' \in {session, D!NoSession}
      PROVE  WizardIInv'
  <2>1. CASE D!Goto(w, st)
    <3>1. PICK r \in ReqRows : req' = [req EXCEPT ![w] = r] /\ r.pc = st /\ r.s = q.s
      BY <1>g, <2>1
    <3> QED
      BY <1>b, <1>q, <3>1, WizardRests
  <2>2. CASE D!Finish(w)
    BY <1>b, <2>2, IdleReq, WizardRests DEF D!Finish
  <2> QED
    BY <1>b, <2>1, <2>2
\* Handlers that write the session of their wizard, and end.
<1>c. ASSUME req' = [req EXCEPT ![w] = D!Idle], UNCHANGED <<method, mixed>>,
             \A d \in Dialogs : SessionOpen(d)' => OfWizard(q, d)
      PROVE  WizardIInv'
  <2>1. WizardRow(D!Idle) /\ \A d \in Dialogs : ~OfWizard(D!Idle, d) /\ ~Saving(D!Idle, d)
    BY IdleReq DEF WizardRow, OfWizard, Saving
  <2>2. ASSUME NEW d \in Dialogs \ mixed', SessionOpen(d)'
        PROVE  ~HasMethod(d) /\ \A v \in Workers \ {w} : ~Saving(req[v], d)
    BY <1>a, <1>c, <2>2 DEF Saving
  <2> QED
    BY <1>c, <2>1, <2>2, IdleReq, WizardMoves
<1>1. ASSUME D!WriteSession(w)
      PROVE  WizardIInv'
  <2>1. /\ req' = [req EXCEPT ![w] = D!Idle] /\ UNCHANGED <<method, mixed>> /\ session' = q.s
    BY <1>1, <1>q DEF D!WriteSession, D!Finish, D!history
  <2> QED
    BY <1>c, <2>1 DEF SessionOpen, OfWizard
<1>2. ASSUME D!UndoDone(w)
      PROVE  WizardIInv'
  <2>1. /\ req' = [req EXCEPT ![w] = D!Idle] /\ UNCHANGED <<method, mixed>>
        /\ session' = [q.s EXCEPT !.step = "confirm"]
    BY <1>2, <1>q DEF D!UndoDone, D!Finish, D!history
  <2>2. session'.flow = q.s.flow /\ session'.on = q.s.on
    BY <1>r, <2>1 DEF SessionRows
  <2> QED
    BY <1>c, <2>1, <2>2 DEF SessionOpen, OfWizard
<1>3. ASSUME \/ D!ReadOrder(w) \/ D!RejectOrder(w) \/ D!LeaveWizard(w) \/ D!NotifyCustomer(w)
             \/ D!SubmitReceipt(w) \/ D!IssueLicense(w) \/ D!CompleteOrder(w)
      PROVE  WizardIInv'
  <2>1. /\ UNCHANGED <<method, mixed>> /\ session' \in {session, D!NoSession}
        /\ \/ D!Finish(w)
           \/ \E st \in {"tx", "complete", "leave", "leaveTell", "tell"} : D!Goto(w, st)
    BY <1>3 DEF D!ReadOrder, D!RejectOrder, D!LeaveWizard, D!NotifyCustomer, D!history,
       D!AfterDuplicate, D!SubmitReceipt, D!IssueLicense, D!CompleteOrder
  <2> QED
    BY <1>b, <2>1
<1>4. ASSUME D!MarkDone(w)
      PROVE  WizardIInv'
  <2>1. /\ session' = q.s /\ q.pc = "mark" /\ UNCHANGED <<method, mixed>> /\ D!Goto(w, "save")
    BY <1>4, <1>q DEF D!MarkDone, D!At, D!history
  <2>2. PICK r \in ReqRows : req' = [req EXCEPT ![w] = r] /\ r.pc = "save" /\ r.s = q.s
    BY <1>g, <2>1
  <2>3. WizardRow(r) /\ q.s.step = "done"
    BY <1>r, <2>1, <2>2 DEF WizardRow
  <2>4. \A d \in Dialogs : ~SessionOpen(d)'
    BY <2>1, <2>3 DEF SessionOpen
  <2>5. \A d \in Dialogs : OfWizard(r, d) => OfWizard(req[w], d)
    BY <1>q, <2>2 DEF OfWizard
  <2> QED
    BY <2>1, <2>2, <2>3, <2>4, <2>5, WizardMoves
\* The save failed: the handler will undo the mark.
<1>5. ASSUME D!Goto(w, "undo"), q.pc = "save", UNCHANGED <<session, method, mixed>>
      PROVE  WizardIInv'
  <2>1. PICK r \in ReqRows : req' = [req EXCEPT ![w] = r] /\ r.pc = "undo" /\ r.s = q.s
    BY <1>g, <1>5
  <2>2. WizardRow(r) /\ \A d \in Dialogs : ~Saving(r, d)
    BY <1>r, <1>5, <2>1 DEF WizardRow, Saving
  <2>3. \A d \in Dialogs : OfWizard(r, d) => OfWizard(req[w], d)
    BY <1>q, <2>1 DEF OfWizard
  <2>4. ASSUME NEW d \in Dialogs \ mixed', SessionOpen(d)'
        PROVE  ~HasMethod(d) /\ \A v \in Workers \ {w} : ~Saving(req[v], d)
    <3>1. SessionOpen(d)
      BY <1>5, <2>4 DEF SessionOpen
    <3> QED
      BY <1>5, <3>1 DEF WizardIInv, WizardRight
  <2> QED
    BY <1>5, <2>1, <2>2, <2>3, <2>4, WizardMoves
<1>6. ASSUME D!SaveMethod(w)
      PROVE  WizardIInv'
  <2>1. q.pc = "save" /\ UNCHANGED <<session, mixed>>
    BY <1>6, <1>q DEF D!SaveMethod, D!At, D!history
  <2>2. PICK r \in ReqRows : r = [pc |-> "leave", s |-> D!NoSession] /\ r.pc = "leave"
                             /\ r.s = D!NoSession
    <3>1. [pc |-> "leave", s |-> D!NoSession] \in ReqRows
      BY IdleReq DEF ReqRows
    <3> QED
      BY <3>1
  <2>3. ASSUME NEW x \in Methods, q.s.on \in Dialogs, req' = [req EXCEPT ![w] = r],
               method' = [method EXCEPT ![x] = [state |-> "here", by |-> q.s.on]],
               method[x].state = "none"
        PROVE  WizardIInv'
    <3>0. PICK e \in Dialogs : e = q.s.on
      BY <2>3
    <3>1. /\ req'[w] = r /\ \A v \in Workers \ {w} : req'[v] = req[v]
          /\ \A d \in Dialogs : ~OfWizard(r, d) /\ ~Saving(r, d)
          /\ WizardRow(r)
      BY <1>t, <2>2, <2>3, IdleReq DEF OfWizard, Saving, WizardRow
    <3>2. /\ method'[x].by = e
          /\ \A y \in Methods \ {x} : method'[y] = method[y]
      BY <1>t, <2>3, <3>0 DEF D!MethodRows
    <3>3. OfWizard(q, e) /\ Saving(q, e)
      BY <1>r, <2>1, <3>0 DEF WizardRow, OfWizard, Saving
    <3>4. ASSUME NEW d \in Dialogs \ mixed'
          PROVE  WizardRight(d)'
      <4>1. WizardRight(d)
        BY <2>1 DEF WizardIInv
      <4>2. CASE d = e
        <5>1. /\ ~HasMethod(d) /\ ~SessionOpen(d)
              /\ \A v \in Workers \ {w} : ~OfWizard(req[v], d)
          BY <1>a, <1>q, <2>1, <3>3, <4>1, <4>2 DEF WizardRight
        <5>2. \A v \in Workers : ~OfWizard(req'[v], d)
          BY <3>1, <5>1
        <5>3. ~SessionOpen(d)'
          BY <2>1, <5>1 DEF SessionOpen
        <5>4. \A y \in Methods : method'[y].by = d => y = x
          BY <3>2, <5>1 DEF HasMethod
        <5>5. \A v \in Workers : ~OfWizard(req[v], d)'
          BY <5>2 DEF OfWizard
        <5> QED
          BY <5>3, <5>4, <5>5 DEF WizardRight, Saving
      <4>3. CASE d # e
        <5>1. HasMethod(d)' => HasMethod(d)
          BY <3>2, <4>3 DEF HasMethod
        <5>2. SessionOpen(d)' => SessionOpen(d)
          BY <2>1 DEF SessionOpen
        <5>3. /\ \A v \in Workers : OfWizard(req'[v], d) => OfWizard(req[v], d)
              /\ \A v \in Workers : Saving(req'[v], d) => Saving(req[v], d)
          BY <3>1
        <5>4. /\ \A v \in Workers : OfWizard(req[v], d)' => OfWizard(req[v], d)
              /\ \A v \in Workers : Saving(req[v], d)' => Saving(req[v], d)
          BY <5>3 DEF OfWizard, Saving
        <5>5. \A y \in Methods : method'[y].by = d => method[y].by = d
          BY <3>2, <4>3
        <5> QED
          BY <4>1, <5>1, <5>2, <5>4, <5>5 DEF WizardRight
      <4> QED
        BY <4>2, <4>3
    <3>5. \A v \in Workers : WizardRow(req'[v])
      BY <3>1 DEF WizardIInv
    <3>6. \A v \in Workers : WizardRow(req[v])'
      BY <3>5 DEF WizardRow
    <3> QED
      BY <3>4, <3>6 DEF WizardIInv
  <2>4. CASE UNCHANGED method /\ D!Goto(w, "undo")
    BY <1>5, <2>1, <2>4
  <2>5. CASE UNCHANGED method /\ req' = [req EXCEPT ![w] = r]
    BY <2>1, <2>2, <2>5, IdleReq, WizardRests
  <2> QED
    BY <1>6, <1>q, <2>2, <2>3, <2>4, <2>5 DEF D!SaveMethod, D!Serve
<1>7. ASSUME D!FailToSave(w)
      PROVE  WizardIInv'
  BY <1>5, <1>7, <1>q DEF D!FailToSave, D!At, D!history
<1>8. ASSUME D!Crash(w)
      PROVE  WizardIInv'
  <2>1. D!Finish(w) /\ UNCHANGED <<method, mixed, session>>
    BY <1>8 DEF D!Crash, D!history
  <2> QED
    BY <1>b, <2>1
<1> QED
  BY <1>1, <1>2, <1>3, <1>4, <1>6, <1>7, <1>8 DEF D!Continue

LEMMA WizardMeanwhile ==
    ASSUME RejectIInv, WizardIInv
    PROVE  /\ D!PressAtOnce => WizardIInv'
           /\ D!ExpireSession => WizardIInv'
           /\ \A o \in Orders : D!CancelOrder(o) => WizardIInv'
<1>t. method \in D!MethodRows
  BY DEF RejectIInv, DialogTypes
<1>1. ASSUME session'.flow # "method", UNCHANGED <<req, mixed>>,
             \A x \in Methods : method'[x].by = method[x].by
      PROVE  WizardIInv'
  BY <1>1, WizardStays DEF SessionOpen
<1>2. ASSUME D!LeaveDialog
      PROVE  WizardIInv'
  BY <1>1, <1>2, IdleReq DEF D!LeaveDialog, D!WriteNow, D!history
<1>3. ASSUME NEW o \in Orders, D!AskCustom(o)
      PROVE  WizardIInv'
  <2>1. D!RejectStep("custom", o, None).flow = "reject"
    BY DEF D!RejectStep, D!NoSession
  <2>2. session' = D!RejectStep("custom", o, None) /\ UNCHANGED <<req, method, mixed>>
    BY <1>3 DEF D!AskCustom, D!WriteNow, D!history
  <2>3. session'.flow # "method"
    BY <2>1, <2>2
  <2> QED
    BY <1>1, <2>2, <2>3
<1>4. ASSUME NEW x \in Methods, D!DeleteMethod(x)
      PROVE  WizardIInv'
  <2>1. /\ session' = D!NoSession /\ UNCHANGED <<req, mixed>>
        /\ method' = [method EXCEPT ![x].state = "gone"]
    BY <1>4 DEF D!DeleteMethod, D!history
  <2>2. \A y \in Methods : method'[y].by = method[y].by
    BY <1>t, <2>1 DEF D!MethodRows
  <2> QED
    BY <1>1, <2>1, <2>2, IdleReq
<1>5. ASSUME NEW d \in Dialogs, D!AddMethod(d)
      PROVE  WizardIInv'
  <2>1. /\ session' = [D!NoSession EXCEPT !.flow = "method", !.step = "name", !.on = d]
        /\ UNCHANGED <<req, mixed, method>>
        /\ \A x \in Methods : method[x].by # d
        /\ \A w \in Workers : req[w].s.on # d
    BY <1>5 DEF D!AddMethod, D!WriteNow, D!history
  <2>2. session'.on = d
    BY <2>1 DEF D!NoSession
  <2>3. \A e \in Dialogs : SessionOpen(e)' => MayOpen(e)
    BY <2>1, <2>2 DEF SessionOpen, MayOpen, HasMethod, Saving, OfWizard
  <2> QED
    BY <2>1, <2>3, WizardStays
<1>6. ASSUME NEW o \in Orders, D!CancelOrder(o)
      PROVE  WizardIInv'
  <2>1. UNCHANGED <<session, method, req, mixed>>
    BY <1>6 DEF D!CancelOrder, D!history
  <2>2. \A d \in Dialogs \ mixed : SessionOpen(d)' => MayOpen(d)
    BY <2>1 DEF SessionOpen, MayOpen, WizardIInv, WizardRight
  <2> QED
    BY <2>1, <2>2, WizardStays
<1> QED
  BY <1>2, <1>3, <1>4, <1>5, <1>6 DEF D!PressAtOnce, D!ExpireSession

LEMMA WizardStutter ==
    ASSUME RejectIInv, WizardIInv, UNCHANGED dialogVars
    PROVE  WizardIInv'
<1>1. UNCHANGED <<session, method, req, mixed>>
  BY DEF dialogVars
<1>2. \A d \in Dialogs \ mixed : SessionOpen(d)' => MayOpen(d)
  BY <1>1 DEF SessionOpen, MayOpen, WizardIInv, WizardRight
<1> QED
  BY <1>1, <1>2, WizardStays

LEMMA WizardStart ==
    ASSUME D!Init
    PROVE  WizardIInv
<1>1. \A w \in Workers : req[w] = D!Idle
  BY DEF D!Init
<1>2. \A w \in Workers : /\ WizardRow(req[w])
                         /\ \A d \in Dialogs : ~OfWizard(req[w], d)
  BY <1>1, IdleReq DEF WizardRow, OfWizard
<1>3. \A d \in Dialogs : ~HasMethod(d)
  <2>1. None \notin Dialogs
    BY DialogsAssumption DEF D!AdminDialogsAssumption
  <2>2. \A x \in Methods : method[x].by = None
    BY DEF D!Init
  <2> QED
    BY <2>1, <2>2 DEF HasMethod
<1>4. \A d \in Dialogs : WizardRight(d)
  BY <1>2, <1>3 DEF WizardRight, HasMethod, Saving
<1> QED
  BY <1>2, <1>4 DEF WizardIInv

\* One wizard makes one payment method, for any number of them, of rows and of handlers
\* under way, wherever one of them stopped: a wizard is marked done before the row is
\* made, and the mark is undone only when there is none
\* (payment-method-wizard.service.ts, handleSave).
THEOREM WizardsMakeOneMethod == OfficeSpec => []OneMethodPerWizard
<1>1. OfficeInit => (part = "dialogs" => WizardIInv)
  BY WizardStart DEF OfficeInit
<1>2. /\ part = "dialogs" => RejectIInv
      /\ part = "dialogs" => WizardIInv
      /\ [OfficeNext]_allVars
      => (part = "dialogs" => WizardIInv)'
  <2> SUFFICES ASSUME part = "dialogs" => RejectIInv, part = "dialogs" => WizardIInv,
                      [OfficeNext]_allVars, part' = "dialogs"
               PROVE  WizardIInv'
    OBVIOUS
  <2>1. part = "dialogs" /\ RejectIInv /\ WizardIInv
    BY DEF OfficeNext, allVars
  <2>2. CASE UNCHANGED allVars
    BY <2>1, <2>2, WizardStutter DEF allVars
  <2>3. CASE OfficeNext
    <3>1. D!Next
      BY <2>1, <2>3 DEF OfficeNext
    <3> QED
      BY <2>1, <3>1, WizardPress, WizardContinues, WizardMeanwhile DEF D!Next
  <2> QED
    BY <2>2, <2>3
<1>3. (part = "dialogs" => WizardIInv) => OneMethodPerWizard
  BY DEF OneMethodPerWizard, D!OneMethodPerWizard, WizardIInv, WizardRight
<1> QED
  BY <1>1, <1>2, <1>3, RejectionInvariance, PTL DEF OfficeSpec

=============================================================================
