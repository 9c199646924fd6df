--------------------------- MODULE SessionsProofs ---------------------------
(***************************************************************************)
(* Mobile sessions for any number of installations, tokens and concurrent  *)
(* requests, and any limits: accounts stay whole, a session that was ended *)
(* is not continued, a request that begins when its account is shut gets   *)
(* no session, and a device is added within the limit its request read     *)
(* unless another addition overtook the count.  And what the app is told:  *)
(* the policy it is served is a whole one, and that it has access, or has  *)
(* none, is right.                                                         *)
(***************************************************************************)
EXTENDS Sessions, MCAccess, FiniteSetTheorems, TLAPS

\* What a request r carries from its reads to its writes.
Carries(r) ==
    /\ r.pc \in {"lookup", "create", "issue", "allow", "add"}
         => r.dev \in Installations
    /\ r.pc \in {"lookup", "create"} => r.from = None
    /\ r.pc \in {"allow", "add"} => r.user \in users
    /\ r.count # NotRead => r.pc \in {"allow", "add"}
    /\ r.pc = "add" => r.count # NotRead /\ MayAdd(r)
    /\ r.pc = "issue" => r.user # None /\ owner[r.dev] = r.user
    /\ r.pc = "replace" => r.from \in Tokens
    /\ r.pc \in {"issue", "replace"} /\ r.from \in Tokens =>
         /\ token[r.from].state # "none"
         /\ token[r.from].dev = r.dev

\* A request that was begun too late still finds its installation shut.
StaysShut(r) ==
    r.late =>
        /\ r.pc \in {"idle", "lookup"}
        /\ r.pc = "lookup" => owner[r.dev] # None /\ Shut(r.dev)

\* A token belongs to an installation of its account, as does the one it
\* replaced.
TokenIsOwned(t) ==
    token[t].state # "none" =>
        /\ token[t].dev \in Installations
        /\ token[t].user # None
        /\ owner[token[t].dev] = token[t].user

TokenHasLine(t) ==
    token[t].from \in Tokens =>
        /\ token[t].state # "none"
        /\ token[token[t].from].state # "none"
        /\ token[token[t].from].dev = token[t].dev

\* A session that was ended has no successor, and nobody is to create one.
HasNoSuccessor(t) ==
    /\ token[t].state = "dead"
    /\ \A s \in Tokens : token[s].from = t => ~Live(s)
    /\ \A w \in Workers : At(w, "issue") => req[w].from # t
NotContinued == \A t \in Tokens : cut[t] = "ended" => HasNoSuccessor(t)

\* Whoever has counted, unless an addition overtook the count, has counted
\* every device the account has.
Counts(u) == Cardinality(ActiveDevices(u))
CountHolds(w) ==
    req[w].count # NotRead /\ w \notin raced => Counts(req[w].user) <= req[w].count

ShutAreKnown ==
    /\ blocked \subseteq users
    /\ \A i \in barred : owner[i] # None

IInv ==
    /\ TypeOK
    /\ AccountsAreWhole
    /\ ShutAreKnown
    /\ \A w \in Workers : Carries(req[w]) /\ StaysShut(req[w])
    /\ \A t \in Tokens : TokenIsOwned(t) /\ TokenHasLine(t)
    /\ NotContinued
    /\ \A w \in Workers : CountHolds(w)

-----------------------------------------------------------------------------
LEMMA NoneIsNothing == None \notin Installations /\ None \notin Tokens
BY SessionsAssumption

LEMMA IdleRequest ==
    Idle \in Requests /\ Carries(Idle) /\ StaysShut(Idle) /\ Idle.count = NotRead
BY NoneIsNothing DEF Idle, Requests, Stages, Carries, StaysShut

\* The devices of an account are finitely many, and fewer when one is barred.
LEMMA CountsAreNumbers ==
    ASSUME NEW u
    PROVE  /\ IsFiniteSet(ActiveDevices(u))
           /\ Counts(u) \in Nat
<1>1. ActiveDevices(u) \in SUBSET Installations
  BY DEF ActiveDevices
<1> QED
  BY <1>1, SessionsAssumption, FS_Subset, FS_CardinalityType DEF Counts

LEMMA BarringLowers ==
    ASSUME NEW u, owner' = owner, barred \subseteq barred'
    PROVE  Counts(u)' <= Counts(u) /\ Counts(u)' \in Nat
<1>1. ActiveDevices(u)' \in SUBSET ActiveDevices(u)
  BY DEF ActiveDevices
<1> QED
  BY <1>1, CountsAreNumbers, FS_Subset, FS_CardinalityType DEF Counts

-----------------------------------------------------------------------------
\* Steps by what they change.

\* One request takes its next step, and nothing else changes.
LEMMA RequestStep ==
    ASSUME IInv, NEW w \in Workers, NEW r \in Requests,
           req' = [req EXCEPT ![w] = r],
           UNCHANGED <<accounts, gates, token, cut>>,
           raced' \in {raced, raced \ {w}},
           Carries(r), StaysShut(r),
           r.count # NotRead /\ w \notin raced' => Counts(r.user) <= r.count,
           r.pc = "issue" /\ r.from \in Tokens => cut[r.from] # "ended"
    PROVE  IInv'
<1> USE DEF IInv, accounts, gates
<1>1. TypeOK'
  BY DEF TypeOK
<1>r. \A v \in Workers : req'[v] = IF v = w THEN r ELSE req[v]
  BY DEF TypeOK
<1>2. AccountsAreWhole' /\ ShutAreKnown'
  BY DEF AccountsAreWhole, ShutAreKnown
<1>3. \A v \in Workers : (Carries(req[v]) /\ StaysShut(req[v]))'
  BY <1>r DEF Carries, StaysShut, Shut
<1>4. \A t \in Tokens : (TokenIsOwned(t) /\ TokenHasLine(t))'
  BY DEF TokenIsOwned, TokenHasLine
<1>5. NotContinued'
  BY <1>r DEF NotContinued, HasNoSuccessor, At, Live
<1>6. \A v \in Workers : CountHolds(v)'
  <2>1. \A u : Counts(u)' = Counts(u)
    BY DEF Counts, ActiveDevices
  <2> QED
    BY <1>r, <2>1 DEF CountHolds
<1> QED
  BY <1>1, <1>2, <1>3, <1>4, <1>5, <1>6

\* Some tokens die, and installations may be barred.
LEMMA TokensDie ==
    ASSUME IInv, NEW T \in SUBSET {t \in Tokens : token[t].state # "none"},
           token' = [t \in Tokens |-> IF t \in T THEN Dead(token[t]) ELSE token[t]],
           UNCHANGED <<accounts, blocked, raced>>,
           req' \in [Workers -> Requests],
           \A w \in Workers : req'[w] \in {req[w], Idle},
           barred \subseteq barred', barred' \subseteq Installations,
           \A i \in barred' : owner[i] # None,
           cut' \in [Tokens -> {"no", "held", "ended"}],
           \A t \in Tokens : cut'[t] = "ended" =>
               \/ cut[t] = "ended"
               \/ /\ t \in T
                  /\ \A s \in Tokens : token[s].from = t /\ Live(s) => s \in T
                  /\ \A w \in Workers : At(w, "issue") => req[w].from # t
    PROVE  IInv'
<1> USE DEF IInv, accounts
<1>a. \A t \in Tokens :
        /\ token'[t].user = token[t].user
        /\ token'[t].dev = token[t].dev
        /\ token'[t].from = token[t].from
        /\ token'[t].state = IF t \in T THEN "dead" ELSE token[t].state
  BY DEF Dead, TypeOK, TokenRows
<1>1. TypeOK'
  <2>1. token' \in [Tokens -> TokenRows]
    BY DEF Dead, TypeOK, TokenRows, TokenStates
  <2> QED
    BY <2>1 DEF TypeOK
<1>2. AccountsAreWhole' /\ ShutAreKnown'
  BY DEF AccountsAreWhole, ShutAreKnown
<1>3. \A v \in Workers : (Carries(req[v]) /\ StaysShut(req[v]))'
  <2> SUFFICES ASSUME NEW v \in Workers
               PROVE  (Carries(req[v]) /\ StaysShut(req[v]))'
    OBVIOUS
  <2>1. CASE req'[v] = req[v]
    BY <2>1, <1>a DEF Carries, StaysShut, Shut
  <2>2. CASE req'[v] = Idle
    BY <2>2 DEF Idle, Carries, StaysShut
  <2> QED
    BY <2>1, <2>2
<1>4. \A t \in Tokens : (TokenIsOwned(t) /\ TokenHasLine(t))'
  BY <1>a DEF TokenIsOwned, TokenHasLine
<1>5. NotContinued'
  <2> SUFFICES ASSUME NEW t \in Tokens, cut'[t] = "ended"
               PROVE  HasNoSuccessor(t)'
    BY DEF NotContinued
  <2>1. \A w \in Workers : At(w, "issue")' => At(w, "issue") /\ req'[w] = req[w]
    BY DEF At, Idle
  <2>2. token[t].state = "dead" \/ t \in T
    BY DEF NotContinued, HasNoSuccessor
  <2>3. \A s \in Tokens : token[s].from = t /\ Live(s) => s \in T
    BY DEF NotContinued, HasNoSuccessor
  <2>4. \A w \in Workers : At(w, "issue") => req[w].from # t
    BY DEF NotContinued, HasNoSuccessor
  <2> QED
    BY <1>a, <2>1, <2>2, <2>3, <2>4 DEF HasNoSuccessor, Live
<1>6. \A v \in Workers : CountHolds(v)'
  <2> SUFFICES ASSUME NEW v \in Workers, req'[v].count # NotRead, v \notin raced,
                      NEW y, y = req'[v].user
               PROVE  Counts(y)' <= req'[v].count
    BY DEF CountHolds
  <2>1. req'[v] = req[v]
    BY IdleRequest
  <2>2. Counts(y)' <= Counts(y) /\ Counts(y)' \in Nat /\ Counts(y) \in Nat
    BY BarringLowers, CountsAreNumbers
  <2>3. Counts(y) <= req[v].count
    BY <2>1 DEF CountHolds
  <2>4. req[v].count \in Nat
    BY <2>1 DEF TypeOK, Requests
  <2> QED
    BY <2>1, <2>2, <2>3, <2>4
<1> QED
  BY <1>1, <1>2, <1>3, <1>4, <1>5, <1>6

-----------------------------------------------------------------------------
\* Steps one by one.

\* A device gets its account, and only then.
LEMMA OwnersStay ==
    ASSUME IInv, NEW i \in Installations, NEW u \in Installations,
           owner[i] = None, owner' = [owner EXCEPT ![i] = u]
    PROVE  /\ owner' \in [Installations -> Installations \cup {None}]
           /\ owner'[i] = u
           /\ \A j \in Installations : owner[j] # None => owner'[j] = owner[j]
           /\ \A j \in Installations : j # i => owner'[j] = owner[j]
BY DEF IInv, TypeOK

LEMMA CreateAccountStep ==
    ASSUME IInv, NEW w \in Workers, CreateAccount(w)
    PROVE  IInv'
<1> USE DEF IInv
<1> DEFINE i == req[w].dev
<1>i. i \in Installations /\ At(w, "create") /\ ~req[w].late
  BY DEF CreateAccount, At, Carries, StaysShut, TypeOK, Requests
<1>1. CASE owner[i] # None
  BY <1>1, IdleRequest, RequestStep DEF CreateAccount, Finish, Idle
<1>2. CASE owner[i] = None
  <2> DEFINE r == [req[w] EXCEPT !.pc = "issue", !.user = i]
  <2>a. /\ users' = users \cup {i}
        /\ trials' = trials \cup {i}
        /\ owner' = [owner EXCEPT ![i] = i]
        /\ req' = [req EXCEPT ![w].pc = "issue", ![w].user = i]
        /\ UNCHANGED <<gates, token, cut, raced>>
    BY <1>2 DEF CreateAccount
  <2>o. /\ owner' \in [Installations -> Installations \cup {None}]
        /\ owner'[i] = i
        /\ \A j \in Installations : owner[j] # None => owner'[j] = owner[j]
        /\ \A j \in Installations : j # i => owner'[j] = owner[j]
    BY <1>2, <1>i, <2>a, OwnersStay
  <2>r. /\ r \in Requests
        /\ req' = [req EXCEPT ![w] = r]
        /\ r.pc = "issue" /\ r.user = i /\ r.dev = i
        /\ r.late = req[w].late /\ r.from = req[w].from /\ r.count = NotRead
    BY <1>i, <2>a DEF TypeOK, Requests, Stages, Carries, At
  <2>v. \A v \in Workers : req'[v] = IF v = w THEN r ELSE req[v]
    BY <2>r DEF TypeOK
  <2>n. i \notin users
    BY <1>2, <1>i, NoneIsNothing DEF AccountsAreWhole
  <2>1. TypeOK'
    <3>1. req' \in [Workers -> Requests]
      BY <2>r DEF TypeOK
    <3> QED
      BY <1>i, <2>a, <2>o, <3>1 DEF TypeOK, gates
  <2>2. AccountsAreWhole'
    BY <1>i, <2>a, <2>o, NoneIsNothing DEF AccountsAreWhole, TypeOK
  <2>3. ShutAreKnown'
    BY <2>a, <2>o, NoneIsNothing DEF ShutAreKnown, gates, TypeOK
  <2>f. req[w].from \notin Tokens
    BY <1>i, NoneIsNothing DEF Carries, At
  <2>4. \A v \in Workers : (Carries(req[v]) /\ StaysShut(req[v]))'
    BY <1>i, <2>a, <2>o, <2>v, <2>r, <2>f, NoneIsNothing
    DEF Carries, StaysShut, Shut, gates, At, TypeOK
  <2>5. \A t \in Tokens : (TokenIsOwned(t) /\ TokenHasLine(t))'
    BY <2>a, <2>o DEF TokenIsOwned, TokenHasLine
  <2>6. NotContinued'
    <3> SUFFICES ASSUME NEW t \in Tokens, cut[t] = "ended"
                 PROVE  HasNoSuccessor(t)'
      BY <2>a DEF NotContinued
    <3>1. HasNoSuccessor(t)
      BY DEF NotContinued
    <3>2. req'[w].from # t
      BY <2>v, <2>r, <2>f
    <3> QED
      BY <2>a, <2>v, <3>1, <3>2 DEF HasNoSuccessor, At, Live
  <2>7. \A v \in Workers : CountHolds(v)'
    <3> SUFFICES ASSUME NEW v \in Workers, req'[v].count # NotRead, v \notin raced,
                        NEW y, y = req'[v].user
                 PROVE  Counts(y)' <= req'[v].count
      BY <2>a DEF CountHolds
    <3>1. req'[v] = req[v]
      BY <2>v, <2>r
    <3>2. y \in users
      BY <3>1 DEF Carries
    <3>3. ActiveDevices(y)' = ActiveDevices(y)
      BY <1>2, <1>i, <2>a, <2>o, <2>n, <3>2, NoneIsNothing DEF ActiveDevices, TypeOK, gates
    <3> QED
      BY <3>1, <3>3 DEF CountHolds, Counts
  <2> QED
    BY <2>1, <2>2, <2>3, <2>4, <2>5, <2>6, <2>7
<1> QED
  BY <1>1, <1>2

\* A row that is created has the account, the device and the token before it
\* of the request.
LEMMA IssueTokenStep ==
    ASSUME IInv, NEW w \in Workers, NEW t \in Tokens, IssueToken(w, t)
    PROVE  IInv'
<1> USE DEF IInv, accounts, gates
<1> DEFINE row == [state |-> "live", user |-> req[w].user, dev |-> req[w].dev,
                   from |-> req[w].from]
<1>a. /\ At(w, "issue")
      /\ token[t].state = "none"
      /\ token' = [token EXCEPT ![t] = row]
      /\ UNCHANGED <<users, trials, owner, blocked, barred, cut, raced>>
  BY DEF IssueToken
<1>b. /\ req[w].dev \in Installations
      /\ req[w].user \in Installations
      /\ owner[req[w].dev] = req[w].user
      /\ req[w].from \in Tokens \cup {None}
      /\ ~req[w].late
      /\ req[w] \in Requests
  BY <1>a DEF Carries, StaysShut, At, TypeOK, Requests
<1>c. row \in TokenRows
  BY <1>b DEF TokenRows, TokenStates
<1>t. /\ token' \in [Tokens -> TokenRows]
      /\ \A s \in Tokens : token'[s] = IF s = t THEN row ELSE token[s]
  BY <1>a, <1>c DEF TypeOK
<1>r. \E r \in Requests :
        /\ req' = [req EXCEPT ![w] = r]
        /\ ~r.late /\ r.count = NotRead
        /\ \/ r = Idle
           \/ /\ r.pc = "replace" /\ r.dev = req[w].dev /\ r.from = req[w].from
              /\ req[w].from \in Tokens
  <2>1. CASE req[w].from = None
    BY <2>1, IdleRequest DEF IssueToken, Finish, Idle
  <2>2. CASE req[w].from # None
    <3> DEFINE r == [req[w] EXCEPT !.pc = "replace"]
    <3>1. req' = [req EXCEPT ![w] = r]
      BY <2>2 DEF IssueToken, Goto
    <3>2. /\ r \in Requests /\ ~r.late /\ r.count = NotRead
          /\ r.pc = "replace" /\ r.dev = req[w].dev /\ r.from = req[w].from
      BY <1>a, <1>b DEF Requests, Stages, Carries, At
    <3> QED
      BY <1>b, <2>2, <3>1, <3>2
  <2> QED
    BY <2>1, <2>2
<1>p. PICK r \in Requests :
        /\ req' = [req EXCEPT ![w] = r]
        /\ ~r.late /\ r.count = NotRead
        /\ \/ r = Idle
           \/ /\ r.pc = "replace" /\ r.dev = req[w].dev /\ r.from = req[w].from
              /\ req[w].from \in Tokens
  BY <1>r
<1>v. \A v \in Workers : req'[v] = IF v = w THEN r ELSE req[v]
  BY <1>p DEF TypeOK
<1>i. r.pc \in {"idle", "replace"}
  BY <1>p DEF Idle
<1>1. TypeOK'
  <2>1. req' \in [Workers -> Requests]
    BY <1>p DEF TypeOK
  <2> QED
    BY <1>a, <1>t, <2>1 DEF TypeOK
<1>2. AccountsAreWhole' /\ ShutAreKnown'
  BY <1>a DEF AccountsAreWhole, ShutAreKnown
<1>n. \A s \in Tokens : token[s].state # "none" => token'[s] = token[s] /\ s # t
  BY <1>a, <1>t
<1>f. req[w].from \in Tokens =>
        /\ token[req[w].from].state # "none"
        /\ token[req[w].from].dev = req[w].dev
  BY <1>a DEF Carries, At
<1>3. \A v \in Workers : (Carries(req[v]) /\ StaysShut(req[v]))'
  <2> SUFFICES ASSUME NEW v \in Workers
               PROVE  (Carries(req[v]) /\ StaysShut(req[v]))'
    OBVIOUS
  <2>1. CASE v # w
    BY <1>a, <1>v, <1>n, <2>1 DEF Carries, StaysShut, Shut
  <2>2. CASE v = w /\ r = Idle
    BY <1>v, <2>2 DEF Carries, StaysShut, Idle
  <2>3. CASE v = w /\ r # Idle
    BY <1>v, <1>p, <1>f, <1>n, <2>3 DEF Carries, StaysShut
  <2> QED
    BY <2>1, <2>2, <2>3
<1>4. \A s \in Tokens : (TokenIsOwned(s) /\ TokenHasLine(s))'
  <2> SUFFICES ASSUME NEW s \in Tokens
               PROVE  (TokenIsOwned(s) /\ TokenHasLine(s))'
    OBVIOUS
  <2>1. CASE s = t
    BY <1>a, <1>b, <1>t, <1>f, <1>n, <2>1, NoneIsNothing DEF TokenIsOwned, TokenHasLine
  <2>2. CASE s # t
    BY <1>a, <1>t, <1>n, <2>2 DEF TokenIsOwned, TokenHasLine
  <2> QED
    BY <2>1, <2>2
<1>5. NotContinued'
  <2> SUFFICES ASSUME NEW s \in Tokens, cut[s] = "ended"
               PROVE  HasNoSuccessor(s)'
    BY <1>a DEF NotContinued
  <2>1. HasNoSuccessor(s) /\ s # t /\ req[w].from # s
    BY <1>a DEF NotContinued, HasNoSuccessor
  <2> QED
    BY <1>t, <1>v, <1>i, <2>1 DEF HasNoSuccessor, Live, At
<1>6. \A v \in Workers : CountHolds(v)'
  <2>1. \A u : Counts(u)' = Counts(u)
    BY <1>a DEF Counts, ActiveDevices
  <2> QED
    BY <1>a, <1>v, <1>p, <2>1 DEF CountHolds
<1> QED
  BY <1>1, <1>2, <1>3, <1>4, <1>5, <1>6

\* A request that compares its two reads has room for the device, or ends.
LEMMA CompareStep ==
    ASSUME IInv, NEW w \in Workers, NEW r \in Requests, Compare(w, r),
           UNCHANGED <<accounts, gates, token, cut>>,
           raced' \in {raced, raced \ {w}},
           r.pc = "allow", ~r.late, r.dev \in Installations, r.user \in users,
           r.count # NotRead /\ w \notin raced' => Counts(r.user) <= r.count
    PROVE  IInv'
<1>1. CASE r.max = NotRead \/ r.count = NotRead
  <2>1. req' = [req EXCEPT ![w] = r]
    BY <1>1 DEF Compare
  <2>2. Carries(r) /\ StaysShut(r)
    BY DEF Carries, StaysShut
  <2> QED
    BY <2>1, <2>2, RequestStep
<1>2. CASE ~(r.max = NotRead \/ r.count = NotRead) /\ MayAdd(r)
  <2> DEFINE q == [r EXCEPT !.pc = "add"]
  <2>1. req' = [req EXCEPT ![w] = q]
    BY <1>2 DEF Compare
  <2>2. /\ q \in Requests /\ q.pc = "add" /\ q.dev = r.dev /\ q.user = r.user
        /\ q.late = r.late /\ q.max = r.max /\ q.count = r.count
    BY DEF Requests, Stages
  <2>3. Carries(q) /\ StaysShut(q)
    BY <1>2, <2>2 DEF Carries, StaysShut, MayAdd
  <2> HIDE DEF q
  <2> QED
    BY <2>1, <2>2, <2>3, RequestStep
<1>3. CASE ~(r.max = NotRead \/ r.count = NotRead) /\ ~MayAdd(r)
  <2>1. req' = [req EXCEPT ![w] = Idle]
    BY <1>3 DEF Compare
  <2> QED
    BY <2>1, IdleRequest, RequestStep DEF Idle
<1> QED
  BY <1>1, <1>2, <1>3

LEMMA ReadLimitStep ==
    ASSUME IInv, NEW w \in Workers, ReadLimit(w)
    PROVE  IInv'
<1> USE DEF IInv
<1>a. /\ At(w, "allow")
      /\ req[w] \in Requests /\ Carries(req[w]) /\ StaysShut(req[w]) /\ CountHolds(w)
      /\ UNCHANGED <<accounts, gates, token, cut, raced>>
  BY DEF ReadLimit, TypeOK
<1>1. PICK n \in 1..MaxLimit : Compare(w, [req[w] EXCEPT !.max = n])
  BY SessionsAssumption DEF ReadLimit
<1> DEFINE r == [req[w] EXCEPT !.max = n]
<1>2. /\ r \in Requests /\ r.pc = "allow" /\ ~r.late
      /\ r.dev \in Installations /\ r.user \in users
      /\ r.count = req[w].count /\ r.user = req[w].user
  BY <1>a DEF Requests, Carries, StaysShut, At
<1>3. r.count # NotRead /\ w \notin raced' => Counts(r.user) <= r.count
  BY <1>a, <1>2 DEF CountHolds
<1>4. raced' \in {raced, raced \ {w}}
  BY <1>a
<1> HIDE DEF r
<1> QED
  BY <1>a, <1>1, <1>2, <1>3, <1>4, CompareStep DEF r

LEMMA CountDevicesStep ==
    ASSUME IInv, NEW w \in Workers, CountDevices(w)
    PROVE  IInv'
<1> USE DEF IInv
<1>a. /\ At(w, "allow")
      /\ req[w] \in Requests /\ Carries(req[w]) /\ StaysShut(req[w])
      /\ UNCHANGED <<accounts, gates, token, cut>> /\ raced' = raced \ {w}
  BY DEF CountDevices, TypeOK
<1>1. PICK n \in Nat : n = Counts(req[w].user)
  BY CountsAreNumbers
<1> DEFINE r == [req[w] EXCEPT !.count = n]
<1>2. /\ r \in Requests /\ r.pc = "allow" /\ ~r.late
      /\ r.dev \in Installations /\ r.user \in users
      /\ r.count = n /\ r.user = req[w].user
  BY <1>a DEF Requests, Carries, StaysShut, At
<1>3. Compare(w, r)
  BY <1>1 DEF CountDevices, Counts
<1>4. Counts(r.user) <= r.count
  BY <1>1, <1>2
<1> HIDE DEF r
<1> QED
  BY <1>a, <1>2, <1>3, <1>4, CompareStep

\* Whoever adds a device overtakes every count of its account.
LEMMA AddDeviceStep ==
    ASSUME IInv, NEW w \in Workers, AddDevice(w)
    PROVE  IInv'
<1> USE DEF IInv
<1>a. /\ At(w, "add")
      /\ req' = [req EXCEPT ![w] = Idle]
      /\ UNCHANGED <<users, trials, blocked, barred, token, cut>>
  BY DEF AddDevice, Finish, gates
<1>b. PICK i \in Installations, u \in Installations :
        i = req[w].dev /\ u = req[w].user /\ u \in users
  BY <1>a DEF Carries, At, TypeOK
<1>1. CASE owner[i] # None
  <2>1. UNCHANGED <<owner, raced>>
    BY <1>1, <1>b DEF AddDevice
  <2> QED
    BY <1>a, <2>1, IdleRequest, RequestStep DEF Idle, accounts, gates
<1>2. CASE owner[i] = None
  <2>o. /\ owner' \in [Installations -> Installations \cup {None}]
        /\ owner'[i] = u
        /\ \A j \in Installations : owner[j] # None => owner'[j] = owner[j]
        /\ \A j \in Installations : j # i => owner'[j] = owner[j]
    <3>1. owner' = [owner EXCEPT ![i] = u]
      BY <1>2, <1>b DEF AddDevice
    <3> QED
      BY <1>2, <1>b, <3>1, OwnersStay
  <2>r. raced' = raced \cup Overtaken(w)
    BY <1>2, <1>b DEF AddDevice
  <2>v. \A v \in Workers : req'[v] = IF v = w THEN Idle ELSE req[v]
    BY <1>a, IdleRequest DEF TypeOK
  <2>1. TypeOK'
    <3>1. req' \in [Workers -> Requests]
      BY <1>a, IdleRequest DEF TypeOK
    <3> QED
      BY <1>a, <2>o, <2>r, <3>1 DEF TypeOK, Overtaken
  <2>2. AccountsAreWhole'
    BY <1>a, <1>b, <2>o, NoneIsNothing DEF AccountsAreWhole, TypeOK
  <2>3. ShutAreKnown'
    BY <1>a, <1>b, <2>o, NoneIsNothing DEF ShutAreKnown, TypeOK
  <2>4. \A v \in Workers : (Carries(req[v]) /\ StaysShut(req[v]))'
    <3> SUFFICES ASSUME NEW v \in Workers
                 PROVE  (Carries(req[v]) /\ StaysShut(req[v]))'
      OBVIOUS
    <3>1. CASE v = w
      BY <2>v, <3>1 DEF Carries, StaysShut, Idle
    <3>2. CASE v # w
      <4>1. req'[v] = req[v]
        BY <2>v, <3>2
      <4>2. Carries(req[v])'
        BY <1>a, <2>o, <4>1 DEF Carries, TypeOK
      <4>3. StaysShut(req[v])'
        BY <1>a, <2>o, <4>1 DEF StaysShut, Shut, Carries
      <4> QED
        BY <4>2, <4>3
    <3> QED
      BY <3>1, <3>2
  <2>5. \A t \in Tokens : (TokenIsOwned(t) /\ TokenHasLine(t))'
    BY <1>a, <2>o DEF TokenIsOwned, TokenHasLine
  <2>6. NotContinued'
    BY <1>a, <2>v DEF NotContinued, HasNoSuccessor, At, Live, Idle
  <2>7. \A v \in Workers : CountHolds(v)'
    <3> SUFFICES ASSUME NEW v \in Workers, req'[v].count # NotRead, v \notin raced',
                        NEW y, y = req'[v].user
                 PROVE  Counts(y)' <= req'[v].count
      BY DEF CountHolds
    <3>1. v # w /\ req'[v] = req[v]
      BY <2>v, IdleRequest
    <3>2. y \in users
      BY <3>1 DEF Carries
    <3>3. v \notin raced /\ y # u
      BY <1>b, <2>r, <3>1 DEF Overtaken
    <3>4. ActiveDevices(y)' = ActiveDevices(y)
      BY <1>a, <1>2, <2>o, <3>2, <3>3, NoneIsNothing DEF ActiveDevices, TypeOK
    <3> QED
      BY <3>1, <3>3, <3>4 DEF CountHolds, Counts
  <2> QED
    BY <2>1, <2>2, <2>3, <2>4, <2>5, <2>6, <2>7
<1> QED
  BY <1>1, <1>2

LEMMA BlockAccountStep ==
    ASSUME IInv, NEW u \in Installations, BlockAccount(u)
    PROVE  IInv'
<1> USE DEF IInv
<1>a. /\ u \in users
      /\ blocked' = blocked \cup {u}
      /\ UNCHANGED <<users, trials, owner, barred, token, req, cut, raced>>
  BY DEF BlockAccount, accounts
<1>1. TypeOK'
  BY <1>a DEF TypeOK
<1>2. AccountsAreWhole' /\ ShutAreKnown'
  BY <1>a DEF AccountsAreWhole, ShutAreKnown
<1>3. \A v \in Workers : (Carries(req[v]) /\ StaysShut(req[v]))'
  BY <1>a DEF Carries, StaysShut, Shut
<1>4. \A t \in Tokens : (TokenIsOwned(t) /\ TokenHasLine(t))'
  BY <1>a DEF TokenIsOwned, TokenHasLine
<1>5. NotContinued'
  BY <1>a DEF NotContinued, HasNoSuccessor, At, Live
<1>6. \A v \in Workers : CountHolds(v)'
  BY <1>a DEF CountHolds, Counts, ActiveDevices
<1> QED
  BY <1>1, <1>2, <1>3, <1>4, <1>5, <1>6

-----------------------------------------------------------------------------
\* Requests that begin, read and refuse.

LEMMA FinishStep ==
    ASSUME IInv, NEW w \in Workers, Finish(w),
           UNCHANGED <<accounts, gates, token, cut, raced>>
    PROVE  IInv'
BY IdleRequest, RequestStep DEF Finish, Idle

LEMMA BeginRegisterStep ==
    ASSUME IInv, NEW w \in Workers, NEW i \in Installations, BeginRegister(w, i)
    PROVE  IInv'
<1> DEFINE r == [Idle EXCEPT !.pc = "lookup", !.dev = i, !.late = Shut(i)]
<1>1. /\ r.pc = "lookup" /\ r.dev = i /\ r.from = None /\ r.user = None
      /\ r.late = Shut(i) /\ r.count = NotRead
  BY DEF Idle
<1>2. Shut(i) \in BOOLEAN
  BY DEF Shut
<1>3. r \in Requests
  BY <1>2 DEF Idle, Requests, Stages
<1>4. Shut(i) => owner[i] # None
  BY NoneIsNothing DEF Shut, IInv, ShutAreKnown, TypeOK
<1>5. Carries(r)
  BY <1>1, NoneIsNothing DEF Carries
<1>6. StaysShut(r)
  BY <1>1, <1>4 DEF StaysShut
<1> QED
  BY <1>1, <1>3, <1>5, <1>6, RequestStep DEF BeginRegister

LEMMA LookupStep ==
    ASSUME IInv, NEW w \in Workers, Lookup(w)
    PROVE  IInv'
<1> USE DEF IInv
<1> DEFINE i == req[w].dev
<1>a. /\ At(w, "lookup")
      /\ UNCHANGED <<accounts, gates, token, cut, raced>>
  BY DEF Lookup
<1>b. /\ i \in Installations /\ req[w].from = None /\ req[w] \in Requests
      /\ req[w].count = NotRead
      /\ owner[i] \in Installations \cup {None}
  BY <1>a DEF Carries, At, TypeOK
<1>l. req[w].late => owner[i] # None /\ Shut(i)
  BY <1>a DEF StaysShut, At
<1>1. CASE owner[i] = None
  <2> DEFINE r == [req[w] EXCEPT !.pc = "create"]
  <2>1. req' = [req EXCEPT ![w] = r]
    BY <1>1 DEF Lookup, Goto
  <2>2. /\ r \in Requests /\ r.pc = "create" /\ r.dev = i /\ r.from = None
        /\ r.late = req[w].late /\ r.count = NotRead
    BY <1>b DEF Requests, Stages
  <2>3. Carries(r) /\ StaysShut(r)
    BY <1>1, <1>b, <1>l, <2>2 DEF Carries, StaysShut
  <2> QED
    BY <1>a, <2>1, <2>2, <2>3, RequestStep
<1>2. CASE owner[i] # None /\ Shut(i)
  BY <1>a, <1>2, FinishStep DEF Lookup
<1>3. CASE owner[i] # None /\ ~Shut(i)
  <2> DEFINE r == [req[w] EXCEPT !.pc = "issue", !.user = owner[i]]
  <2>1. req' = [req EXCEPT ![w] = r]
    BY <1>3 DEF Lookup
  <2>2. /\ r \in Requests /\ r.pc = "issue" /\ r.dev = i /\ r.from = None
        /\ r.late = req[w].late /\ r.user = owner[i] /\ r.count = NotRead
    BY <1>b DEF Requests, Stages
  <2>3. Carries(r) /\ StaysShut(r)
    BY <1>3, <1>b, <1>l, <2>2, NoneIsNothing DEF Carries, StaysShut
  <2> QED
    BY <1>a, <2>1, <2>2, <2>3, NoneIsNothing, RequestStep
<1> QED
  BY <1>1, <1>2, <1>3

LEMMA BeginRefreshStep ==
    ASSUME IInv, NEW w \in Workers, NEW t \in Tokens, BeginRefresh(w, t)
    PROVE  IInv'
<1> USE DEF IInv
<1> DEFINE r == [Idle EXCEPT !.pc = "issue", !.user = token[t].user,
                             !.dev = token[t].dev, !.from = t,
                             !.late = Shut(token[t].dev)]
<1>1. /\ token[t].state = "live"
      /\ token[t].user \notin blocked
      /\ token[t].dev \notin barred
  BY DEF BeginRefresh, Renewable, Live
<1>2. /\ token[t].dev \in Installations
      /\ token[t].user \in Installations
      /\ owner[token[t].dev] = token[t].user
  BY <1>1 DEF TokenIsOwned, TypeOK, TokenRows
<1>3. Shut(token[t].dev) = FALSE
  BY <1>1, <1>2 DEF Shut
<1>4. /\ r.pc = "issue" /\ r.user = token[t].user /\ r.dev = token[t].dev
      /\ r.from = t /\ r.late = FALSE /\ r.count = NotRead
      /\ r \in Requests
  BY <1>2, <1>3 DEF Idle, Requests, Stages
<1>5. Carries(r)
  BY <1>1, <1>2, <1>4, NoneIsNothing DEF Carries
<1>6. StaysShut(r)
  BY <1>4 DEF StaysShut
<1>7. cut[t] # "ended"
  BY <1>1 DEF NotContinued, HasNoSuccessor
<1> QED
  BY <1>4, <1>5, <1>6, <1>7, RequestStep DEF BeginRefresh

LEMMA BeginAddStep ==
    ASSUME IInv, NEW w \in Workers, NEW u \in Installations,
           NEW j \in Installations, BeginAdd(w, u, j)
    PROVE  IInv'
<1> DEFINE r == [Idle EXCEPT !.pc = "allow", !.user = u, !.dev = j]
<1>1. /\ r.pc = "allow" /\ r.user = u /\ r.dev = j /\ r.from = None
      /\ r.late = FALSE /\ r.count = NotRead
  BY DEF Idle
<1>2. r \in Requests
  BY DEF Idle, Requests, Stages
<1>3. Carries(r) /\ StaysShut(r)
  BY <1>1 DEF BeginAdd, Carries, StaysShut
<1> QED
  BY <1>1, <1>2, <1>3, RequestStep DEF BeginAdd

-----------------------------------------------------------------------------
\* Tokens that end.

LEMMA LogoutStep ==
    ASSUME IInv, NEW t \in Tokens, Logout(t)
    PROVE  IInv'
<1> USE DEF IInv, accounts, gates
<1>1. \A s \in Tokens : cut'[s] = IF s = t THEN IF Carried(t) THEN "held" ELSE "ended"
                                  ELSE cut[s]
  BY DEF Logout, TypeOK
<1>2. cut' \in [Tokens -> {"no", "held", "ended"}]
  BY DEF Logout, TypeOK
<1>3. ~Carried(t) => /\ \A s \in Tokens : ~(token[s].from = t /\ Live(s))
                     /\ \A w \in Workers : At(w, "issue") => req[w].from # t
  BY DEF Carried
<1>4. {t} \in SUBSET {s \in Tokens : token[s].state # "none"}
  BY DEF Logout, Live
<1>5. /\ token' = [s \in Tokens |-> IF s \in {t} THEN Dead(token[s]) ELSE token[s]]
      /\ UNCHANGED <<accounts, gates, req, raced>>
  BY DEF Logout, EndTokens
<1>6. \A s \in Tokens : cut'[s] = "ended" =>
        \/ cut[s] = "ended"
        \/ /\ s \in {t}
           /\ \A x \in Tokens : token[x].from = s /\ Live(x) => x \in {t}
           /\ \A w \in Workers : At(w, "issue") => req[w].from # s
  BY <1>1, <1>3
<1>7. req' \in [Workers -> Requests] /\ \A w \in Workers : req'[w] \in {req[w], Idle}
  BY <1>5 DEF TypeOK
<1>8. barred' \subseteq Installations /\ \A i \in barred' : owner[i] # None
  BY <1>5 DEF TypeOK, ShutAreKnown
<1> QED
  BY <1>2, <1>4, <1>5, <1>6, <1>7, <1>8, TokensDie

\* A set of living tokens that holds every living successor of its members.
LEMMA CutAllStep ==
    ASSUME IInv, NEW T \in SUBSET {t \in Tokens : Live(t)},
           token' = [t \in Tokens |-> IF t \in T THEN Dead(token[t]) ELSE token[t]],
           UNCHANGED <<accounts, blocked, req, raced>>,
           barred \subseteq barred', barred' \subseteq Installations,
           \A i \in barred' : owner[i] # None,
           CutAll(T),
           \A t \in T : \A s \in Tokens : token[s].from = t /\ Live(s) => s \in T
    PROVE  IInv'
<1> USE DEF IInv
<1>1. \A s \in Tokens : cut'[s] = "ended" =>
        \/ cut[s] = "ended"
        \/ /\ s \in T
           /\ \A w \in Workers : At(w, "issue") => req[w].from # s
  BY DEF CutAll
<1>2. cut' \in [Tokens -> {"no", "held", "ended"}]
  BY DEF CutAll, TypeOK
<1>3. T \in SUBSET {t \in Tokens : token[t].state # "none"}
  BY DEF Live
<1>4. req' \in [Workers -> Requests] /\ \A w \in Workers : req'[w] \in {req[w], Idle}
  BY DEF TypeOK
<1>5. \A s \in Tokens : cut'[s] = "ended" =>
        \/ cut[s] = "ended"
        \/ /\ s \in T
           /\ \A x \in Tokens : token[x].from = s /\ Live(x) => x \in T
           /\ \A w \in Workers : At(w, "issue") => req[w].from # s
  BY <1>1
<1> QED
  BY <1>2, <1>3, <1>4, <1>5, TokensDie

\* A successor has the account and the installation of the token it replaced.
LEMMA SuccessorsAgree ==
    ASSUME IInv, NEW t \in Tokens, NEW s \in Tokens, token[s].from = t
    PROVE  token[s].user = token[t].user /\ token[s].dev = token[t].dev
BY DEF IInv, TokenHasLine, TokenIsOwned

LEMMA LogoutAllStep ==
    ASSUME IInv, NEW u \in Installations, LogoutAll(u)
    PROVE  IInv'
<1> DEFINE T == ReachedByUser(u)
<1>1. T \in SUBSET {t \in Tokens : Live(t)}
  BY DEF ReachedByUser
<1>2. \A t \in T : \A s \in Tokens : token[s].from = t /\ Live(s) => s \in T
  BY SuccessorsAgree DEF ReachedByUser
<1>3. /\ token' = [t \in Tokens |-> IF t \in T THEN Dead(token[t]) ELSE token[t]]
      /\ UNCHANGED <<accounts, blocked, req, raced>> /\ UNCHANGED barred
      /\ CutAll(T)
  BY DEF LogoutAll, EndTokens, gates
<1>4. barred' \subseteq Installations /\ \A i \in barred' : owner[i] # None
  BY <1>3 DEF IInv, TypeOK, ShutAreKnown
<1> HIDE DEF T
<1> QED
  BY <1>1, <1>2, <1>3, <1>4, CutAllStep

LEMMA DeviceStep ==
    ASSUME IInv, NEW i \in Installations, RevokeDevice(i) \/ BarInstallation(i)
    PROVE  IInv'
<1> DEFINE T == {t \in Tokens : Live(t) /\ token[t].dev = i}
<1>1. T \in SUBSET {t \in Tokens : Live(t)}
  OBVIOUS
<1>2. \A t \in T : \A s \in Tokens : token[s].from = t /\ Live(s) => s \in T
  BY SuccessorsAgree
<1>3. /\ token' = [t \in Tokens |-> IF t \in T THEN Dead(token[t]) ELSE token[t]]
      /\ UNCHANGED <<accounts, blocked, req, raced>>
      /\ barred' \in {barred, barred \cup {i}}
      /\ owner[i] # None
      /\ CutAll(T)
  BY DEF RevokeDevice, BarInstallation, EndTokens, gates
<1>4. /\ barred \subseteq barred' /\ barred' \subseteq Installations
      /\ \A j \in barred' : owner[j] # None
  BY <1>3 DEF IInv, TypeOK, ShutAreKnown
<1> HIDE DEF T
<1> QED
  BY <1>1, <1>2, <1>3, <1>4, CutAllStep

\* One token dies for a reason that is no logout.
LEMMA OneTokenDies ==
    ASSUME IInv, NEW t \in Tokens, token[t].state # "none",
           token' = [token EXCEPT ![t] = Dead(@)],
           UNCHANGED <<accounts, gates, cut, raced>>,
           req' \in [Workers -> Requests],
           \A w \in Workers : req'[w] \in {req[w], Idle}
    PROVE  IInv'
<1>1. token' = [s \in Tokens |-> IF s \in {t} THEN Dead(token[s]) ELSE token[s]]
  BY DEF IInv, TypeOK
<1>2. {t} \in SUBSET {s \in Tokens : token[s].state # "none"}
  OBVIOUS
<1>3. /\ barred' \subseteq Installations /\ \A i \in barred' : owner[i] # None
      /\ cut' \in [Tokens -> {"no", "held", "ended"}]
  BY DEF IInv, TypeOK, ShutAreKnown, gates
<1> QED
  BY <1>1, <1>2, <1>3, TokensDie DEF gates

LEMMA ReplaceTokenStep ==
    ASSUME IInv, NEW w \in Workers, ReplaceToken(w)
    PROVE  IInv'
<1>1. req[w].from \in Tokens /\ token[req[w].from].state # "none"
  BY DEF ReplaceToken, At, IInv, Carries
<1>2. /\ req' \in [Workers -> Requests]
      /\ \A v \in Workers : req'[v] \in {req[v], Idle}
  BY IdleRequest DEF ReplaceToken, Finish, IInv, TypeOK
<1> QED
  BY <1>1, <1>2, OneTokenDies DEF ReplaceToken

-----------------------------------------------------------------------------
\* The invariant holds at first and is kept.

LEMMA FirstState == Init => IInv
<1> SUFFICES ASSUME Init
             PROVE  IInv
  OBVIOUS
<1> USE DEF Init
<1>1. TypeOK
  <2>1. NoToken \in TokenRows
    BY DEF NoToken, TokenRows, TokenStates
  <2> QED
    BY <2>1, IdleRequest DEF TypeOK
<1>2. AccountsAreWhole /\ ShutAreKnown
  BY DEF AccountsAreWhole, ShutAreKnown
<1>3. \A w \in Workers : Carries(req[w]) /\ StaysShut(req[w])
  BY IdleRequest
<1>4. \A t \in Tokens : TokenIsOwned(t) /\ TokenHasLine(t)
  BY NoneIsNothing DEF TokenIsOwned, TokenHasLine, NoToken
<1>5. NotContinued
  BY DEF NotContinued
<1>6. \A w \in Workers : CountHolds(w)
  BY IdleRequest DEF CountHolds
<1> QED
  BY <1>1, <1>2, <1>3, <1>4, <1>5, <1>6 DEF IInv

LEMMA NextStep == IInv /\ [Next]_vars => IInv'
<1> SUFFICES ASSUME IInv, [Next]_vars
             PROVE  IInv'
  OBVIOUS
<1>1. ASSUME NEW w \in Workers, NEW i \in Installations, BeginRegister(w, i)
      PROVE  IInv'
  BY <1>1, BeginRegisterStep
<1>2. ASSUME NEW w \in Workers, NEW t \in Tokens, BeginRefresh(w, t)
      PROVE  IInv'
  BY <1>2, BeginRefreshStep
<1>3. ASSUME NEW w \in Workers, NEW u \in Installations, NEW j \in Installations,
             BeginAdd(w, u, j)
      PROVE  IInv'
  BY <1>3, BeginAddStep
<1>4. ASSUME NEW w \in Workers, Continue(w)
      PROVE  IInv'
  BY <1>4, LookupStep, CreateAccountStep, IssueTokenStep, ReplaceTokenStep,
     ReadLimitStep, CountDevicesStep, AddDeviceStep DEF Continue
<1>5. ASSUME NEW w \in Workers, Crash(w)
      PROVE  IInv'
  BY <1>5, FinishStep DEF Crash
<1>6. ASSUME NEW t \in Tokens, Logout(t)
      PROVE  IInv'
  BY <1>6, LogoutStep
<1>7. ASSUME NEW t \in Tokens, Expire(t)
      PROVE  IInv'
  <2>1. /\ req' \in [Workers -> Requests]
        /\ \A w \in Workers : req'[w] \in {req[w], Idle}
    BY <1>7 DEF Expire, IInv, TypeOK
  <2> QED
    BY <1>7, <2>1, OneTokenDies DEF Expire, Live
<1>8. ASSUME NEW i \in Installations, LogoutAll(i)
      PROVE  IInv'
  BY <1>8, LogoutAllStep
<1>9. ASSUME NEW i \in Installations, RevokeDevice(i) \/ BarInstallation(i)
      PROVE  IInv'
  BY <1>9, DeviceStep
<1>10. ASSUME NEW i \in Installations, BlockAccount(i)
       PROVE  IInv'
  BY <1>10, BlockAccountStep
<1>11. CASE UNCHANGED vars
  BY <1>11 DEF vars, IInv, TypeOK, AccountsAreWhole, ShutAreKnown, Carries, StaysShut,
     Shut, TokenIsOwned, TokenHasLine, NotContinued, HasNoSuccessor, CountHolds, Counts,
     ActiveDevices, At, Live
<1> QED
  BY <1>1, <1>2, <1>3, <1>4, <1>5, <1>6, <1>7, <1>8, <1>9, <1>10, <1>11 DEF Next

\* The conjuncts hold together in every reachable state.
THEOREM Invariance == Spec => []IInv
BY FirstState, NextStep, PTL DEF Spec

\* The columns and the requests in progress keep their types.
THEOREM TypeCorrect == Spec => []TypeOK
<1>1. IInv => TypeOK
  BY DEF IInv
<1> QED
  BY <1>1, Invariance, PTL

\* However many requests register or add the same installation, every account
\* has its own device and one trial, and every device an account that exists.
THEOREM AccountsWhole == Spec => []AccountsAreWhole
<1>1. IInv => AccountsAreWhole
  BY DEF IInv
<1> QED
  BY <1>1, Invariance, PTL

\* A token that a logout or a revocation has reached stays dead, and no refresh
\* goes on from it unless one had read it before.
THEOREM EndIsForGood == Spec => []EndedForGood
<1>1. IInv => EndedForGood
  BY DEF IInv, NotContinued, HasNoSuccessor, EndedForGood
<1> QED
  BY <1>1, Invariance, PTL

\* A request that begins once its account is blocked or its installation barred
\* never comes to the step that creates a token.
THEOREM ShutGetNoSession == Spec => []NoSessionOnceShut
<1>1. IInv => NoSessionOnceShut
  BY DEF IInv, StaysShut, NoSessionOnceShut, At
<1> QED
  BY <1>1, Invariance, PTL

\* Only the addition of a device gives an account one it has not had, and the
\* devices are then at most one more than were counted.
LEMMA Additions ==
    ASSUME IInv, Next, NEW u \in users, ~(ActiveDevices(u)' \subseteq ActiveDevices(u))
    PROVE  \E w \in Workers :
             /\ At(w, "add") /\ ~At(w, "add")' /\ req[w].user = u
             /\ w \in raced \/ Cardinality(ActiveDevices(u)') <= req[w].max
<1> USE DEF IInv
<1>1. ~(UNCHANGED owner /\ barred \subseteq barred')
  BY DEF ActiveDevices
<1>2. ASSUME NEW w \in Workers, CreateAccount(w)
      PROVE  FALSE
  <2>1. req[w].dev \in Installations
    BY <1>2 DEF CreateAccount, At, Carries
  <2>2. /\ owner[req[w].dev] = None /\ UNCHANGED barred
        /\ owner' = [owner EXCEPT ![req[w].dev] = req[w].dev]
    BY <1>1, <1>2 DEF CreateAccount, accounts, gates
  <2>3. req[w].dev # u
    BY <2>1, <2>2, NoneIsNothing DEF AccountsAreWhole
  <2> QED
    BY <2>1, <2>2, <2>3 DEF ActiveDevices, TypeOK
<1>3. ASSUME NEW w \in Workers, AddDevice(w)
      PROVE  /\ At(w, "add") /\ ~At(w, "add")' /\ req[w].user = u
             /\ w \in raced \/ Cardinality(ActiveDevices(u)') <= req[w].max
  <2>1. /\ At(w, "add") /\ req[w].dev \in Installations /\ req[w] \in Requests
        /\ req[w].count # NotRead /\ req[w].count < req[w].max
    BY <1>3 DEF AddDevice, At, Carries, MayAdd, TypeOK
  <2>2. /\ owner' = [owner EXCEPT ![req[w].dev] = req[w].user]
        /\ UNCHANGED barred
        /\ req' = [req EXCEPT ![w] = Idle]
    BY <1>1, <1>3 DEF AddDevice, gates, Finish
  <2>3. req[w].user = u
    BY <2>1, <2>2 DEF ActiveDevices, TypeOK
  <2>4. ~At(w, "add")'
    BY <2>2, IdleRequest DEF At, Idle, TypeOK
  <2>5. ASSUME w \notin raced
        PROVE  Cardinality(ActiveDevices(u)') <= req[w].max
    <3>1. ActiveDevices(u)' \in SUBSET (ActiveDevices(u) \cup {req[w].dev})
      BY <2>1, <2>2 DEF ActiveDevices, TypeOK
    <3>2. Counts(u) \in Nat /\ Counts(u) <= req[w].count
      BY <2>1, <2>3, <2>5, CountsAreNumbers DEF CountHolds
    <3>3. /\ IsFiniteSet(ActiveDevices(u) \cup {req[w].dev})
          /\ Cardinality(ActiveDevices(u) \cup {req[w].dev}) \in {Counts(u), Counts(u) + 1}
      BY CountsAreNumbers, FS_AddElement DEF Counts
    <3>4. /\ Cardinality(ActiveDevices(u)')
               <= Cardinality(ActiveDevices(u) \cup {req[w].dev})
          /\ Cardinality(ActiveDevices(u)') \in Nat
      BY <3>1, <3>3, FS_Subset, FS_CardinalityType
    <3>5. req[w].count \in Nat /\ req[w].max \in Int
      BY <2>1, SessionsAssumption DEF Requests, NotRead
    <3> QED
      BY <2>1, <3>2, <3>3, <3>4, <3>5
  <2> QED
    BY <2>1, <2>3, <2>4, <2>5
<1>4. \E w \in Workers : CreateAccount(w) \/ AddDevice(w)
  BY <1>1 DEF Next, Continue, BeginRegister, BeginRefresh, BeginAdd, Lookup, IssueToken,
     ReplaceToken, ReadLimit, CountDevices, Crash, Logout, Expire, LogoutAll, RevokeDevice,
     BlockAccount, BarInstallation, EndTokens, accounts, gates
<1> QED
  BY <1>2, <1>3, <1>4

\* A device is added within the limit that its request has read, unless another
\* addition to the account came between its count and its own.
THEOREM DevicesAddedWithinLimit == Spec => AddedWithinLimit
<1>1. IInv /\ [Next]_vars => [AddsWithinLimit]_vars
  BY Additions DEF AddsWithinLimit
<1> QED
  BY <1>1, Invariance, PTL DEF Spec, AddedWithinLimit

-----------------------------------------------------------------------------
\* The privacy policy that the app shows.

Revisions == [status : P!Statuses, revision : Nat, text : Texts]
SaveRows == [pc : {"idle", "look", "edit", "number", "create"},
             id : Policies \cup {Null}, seen : P!Statuses, next : Nat]
PublishRows == [pc : {"idle", "look", "publish"}, id : Policies \cup {Null}, seen : P!Statuses]

\* Who saves a revision has found it a draft; who publishes one has found it a draft
\* in both languages, and nobody has edited it since.
SaveRight(r) == r.pc = "edit" => r.id \in Policies /\ r.seen = "DRAFT"

PublishRight(r) ==
    /\ r.pc # "idle" => r.id \in Policies
    /\ r.pc = "publish" =>
         /\ r.seen = "DRAFT" /\ policy[r.id].status # "none"
         /\ r.id \in edited \/ policy[r.id].text \in Whole

PolicyTypes ==
    /\ policy \in [Policies -> Revisions]
    /\ page \in [Tabs -> Policies \cup {Null}]
    /\ save \in [Tabs -> SaveRows]
    /\ publish \in [Tabs -> PublishRows]

PolicyIInv ==
    /\ PolicyTypes
    /\ \A t \in Tabs : SaveRight(save[t]) /\ PublishRight(publish[t])
    /\ P!ServedIsWhole

LEMMA PolicyRows ==
    /\ P!NoSave \in SaveRows /\ SaveRight(P!NoSave)
    /\ P!NoPublish \in PublishRows /\ P!NoPublish.pc = "idle"
    /\ Default \in Whole /\ Whole \subseteq Texts /\ Null \notin Policies
BY AppAssumption DEF P!PrivacyPolicyAssumption, P!NoSave, P!NoPublish, SaveRows, PublishRows,
   SaveRight, P!Statuses

\* A request reads, or begins, or ends: the revisions stay.
LEMMA PolicyReads ==
    ASSUME PolicyIInv, UNCHANGED <<policy, edited>>, page' \in [Tabs -> Policies \cup {Null}],
           \/ UNCHANGED save
           \/ \E t \in Tabs, r \in SaveRows : SaveRight(r) /\ save' = [save EXCEPT ![t] = r],
           \/ UNCHANGED publish
           \/ \E t \in Tabs, r \in PublishRows :
                PublishRight(r) /\ publish' = [publish EXCEPT ![t] = r]
    PROVE  PolicyIInv'
<1>1. save' \in [Tabs -> SaveRows] /\ \A t \in Tabs : SaveRight(save'[t])
  BY DEF PolicyIInv, PolicyTypes
<1>2. publish' \in [Tabs -> PublishRows] /\ \A t \in Tabs : PublishRight(publish[t])'
  BY DEF PolicyIInv, PolicyTypes, PublishRight
<1>3. P!ServedIsWhole'
  BY DEF PolicyIInv, P!ServedIsWhole, P!Of
<1>4. \A t \in Tabs : SaveRight(save[t])'
  BY <1>1 DEF SaveRight
<1> QED
  BY <1>1, <1>2, <1>3, <1>4 DEF PolicyIInv, PolicyTypes

LEMMA PolicyBegins ==
    ASSUME PolicyIInv, NEW t \in Tabs,
           \/ P!LoadPage(t) \/ P!BeginSave(t) \/ P!NumberDraft(t) \/ P!SaveBreaks(t)
           \/ P!BeginPublish(t) \/ P!PublishBreaks(t)
    PROVE  PolicyIInv'
<1>t. /\ page[t] \in Policies \cup {Null} /\ save[t] \in SaveRows
      /\ page \in [Tabs -> Policies \cup {Null}]
      /\ policy \in [Policies -> Revisions]
  BY DEF PolicyIInv, PolicyTypes
<1>1. CASE P!LoadPage(t)
  <2>1. page' \in [Tabs -> Policies \cup {Null}] /\ UNCHANGED <<policy, save, publish, edited>>
    BY <1>1, <1>t DEF P!LoadPage, P!Of
  <2> QED
    BY <2>1, PolicyReads
<1>2. CASE P!BeginSave(t)
  <2> DEFINE r == [P!NoSave EXCEPT !.pc = "look", !.id = page[t]]
  <2>1. r \in SaveRows /\ r.pc = "look" /\ save' = [save EXCEPT ![t] = r]
    BY <1>2, <1>t, PolicyRows DEF P!BeginSave, P!SaveTo, SaveRows
  <2>2. SaveRight(r) /\ UNCHANGED <<policy, page, publish, edited>>
    BY <1>2, <2>1 DEF P!BeginSave, SaveRight
  <2> HIDE DEF r
  <2> QED
    BY <1>t, <2>1, <2>2, PolicyReads
<1>3. CASE P!NumberDraft(t)
  <2>1. PICK n \in P!Numbers :
               P!SaveTo(t, [save[t] EXCEPT !.pc = "create", !.next = n + 1])
    BY <1>3 DEF P!NumberDraft
  <2>2. n + 1 \in Nat
    BY <1>t, <2>1 DEF P!Numbers, Revisions
  <2> DEFINE r == [save[t] EXCEPT !.pc = "create", !.next = n + 1]
  <2>3. r \in SaveRows /\ r.pc = "create" /\ save' = [save EXCEPT ![t] = r]
    BY <1>t, <2>1, <2>2 DEF P!SaveTo, SaveRows
  <2>4. SaveRight(r) /\ UNCHANGED <<policy, page, publish, edited>>
    BY <1>3, <2>3 DEF P!NumberDraft, SaveRight
  <2> HIDE DEF r
  <2> QED
    BY <1>t, <2>3, <2>4, PolicyReads
<1>4. CASE P!SaveBreaks(t)
  BY <1>4, <1>t, PolicyRows, PolicyReads DEF P!SaveBreaks, P!SaveTo
<1>5. CASE P!BeginPublish(t)
  <2> DEFINE r == [P!NoPublish EXCEPT !.pc = "look", !.id = page[t]]
  <2>1. /\ r \in PublishRows /\ r.pc = "look" /\ r.id \in Policies
        /\ publish' = [publish EXCEPT ![t] = r]
    BY <1>5, <1>t, PolicyRows DEF P!BeginPublish, P!PublishTo, PublishRows
  <2>2. PublishRight(r) /\ UNCHANGED <<policy, page, save, edited>>
    BY <1>5, <2>1 DEF P!BeginPublish, PublishRight
  <2> HIDE DEF r
  <2> QED
    BY <1>t, <2>1, <2>2, PolicyReads
<1>6. CASE P!PublishBreaks(t)
  <2>1. PublishRight(P!NoPublish)
    BY PolicyRows DEF PublishRight
  <2> QED
    BY <1>6, <1>t, <2>1, PolicyRows, PolicyReads DEF P!PublishBreaks, P!PublishTo
<1> QED
  BY <1>1, <1>2, <1>3, <1>4, <1>5, <1>6

\* saveDraft and publish look at the revision.
LEMMA PolicyLooks ==
    ASSUME PolicyIInv, NEW t \in Tabs, P!LookToSave(t) \/ P!LookToPublish(t)
    PROVE  PolicyIInv'
<1>t. /\ save[t] \in SaveRows /\ publish[t] \in PublishRows
      /\ page \in [Tabs -> Policies \cup {Null}]
      /\ policy \in [Policies -> Revisions]
      /\ PublishRight(publish[t])
  BY DEF PolicyIInv, PolicyTypes
<1>1. CASE P!LookToSave(t)
  <2>u. UNCHANGED <<policy, page, publish, edited>>
    BY <1>1 DEF P!LookToSave
  <2>1. ASSUME NEW p \in Policies, policy[p].status = "DRAFT", P!ToEdit(t, p)
        PROVE  PolicyIInv'
    <3> DEFINE r == [save[t] EXCEPT !.pc = "edit", !.id = p, !.seen = policy[p].status]
    <3>1. /\ r \in SaveRows /\ r.id = p /\ r.seen = "DRAFT" /\ save' = [save EXCEPT ![t] = r]
      BY <1>t, <2>1 DEF P!ToEdit, P!SaveTo, SaveRows, P!Statuses
    <3>2. SaveRight(r)
      BY <3>1 DEF SaveRight
    <3> HIDE DEF r
    <3> QED
      BY <1>t, <2>u, <3>1, <3>2, PolicyReads
  <2>2. CASE P!SaveTo(t, P!NoSave)
    BY <1>t, <2>u, <2>2, PolicyRows, PolicyReads DEF P!SaveTo
  <2>3. CASE P!SaveTo(t, [save[t] EXCEPT !.pc = "number"])
    <3> DEFINE r == [save[t] EXCEPT !.pc = "number"]
    <3>1. r \in SaveRows /\ r.pc = "number" /\ save' = [save EXCEPT ![t] = r]
      BY <1>t, <2>3 DEF P!SaveTo, SaveRows
    <3>2. SaveRight(r)
      BY <3>1 DEF SaveRight
    <3> HIDE DEF r
    <3> QED
      BY <1>t, <2>u, <3>1, <3>2, PolicyReads
  <2>4. save[t].id # Null => save[t].id \in Policies
    BY <1>t DEF SaveRows
  <2> QED
    BY <1>1, <2>1, <2>2, <2>3, <2>4 DEF P!LookToSave, P!MayEdit, P!Of
<1>2. CASE P!LookToPublish(t)
  <2>u. UNCHANGED <<policy, page, save, edited>>
    BY <1>2 DEF P!LookToPublish
  <2>1. CASE P!MayPublish(publish[t].id)
    <3> DEFINE r == [publish[t] EXCEPT !.pc = "publish", !.seen = policy[publish[t].id].status]
    <3>1. /\ publish[t].id \in Policies /\ policy[publish[t].id].status = "DRAFT"
          /\ policy[publish[t].id].text \in Whole
      BY <1>2, <1>t, <2>1 DEF P!LookToPublish, P!MayPublish, PublishRight
    <3>2. /\ r \in PublishRows /\ r.id = publish[t].id /\ r.seen = "DRAFT"
          /\ publish' = [publish EXCEPT ![t] = r]
      BY <1>2, <1>t, <2>1, <3>1 DEF P!LookToPublish, P!PublishTo, PublishRows, P!Statuses
    <3>3. PublishRight(r)
      BY <3>1, <3>2 DEF PublishRight
    <3> HIDE DEF r
    <3> QED
      BY <1>t, <2>u, <3>2, <3>3, PolicyReads
  <2>2. CASE ~P!MayPublish(publish[t].id)
    <3>1. publish' = [publish EXCEPT ![t] = P!NoPublish]
      BY <1>2, <2>2 DEF P!LookToPublish, P!PublishTo
    <3>2. PublishRight(P!NoPublish)
      BY PolicyRows DEF PublishRight
    <3> QED
      BY <1>t, <2>u, <3>1, <3>2, PolicyRows, PolicyReads
  <2> QED
    BY <2>1, <2>2
<1> QED
  BY <1>1, <1>2

LEMMA PolicyEdits ==
    ASSUME PolicyIInv, NEW t \in Tabs, NEW x \in Texts, P!EditDraft(t, x)
    PROVE  PolicyIInv'
<1> DEFINE d == save[t].id
<1>t. /\ save \in [Tabs -> SaveRows] /\ publish \in [Tabs -> PublishRows]
      /\ page \in [Tabs -> Policies \cup {Null}]
      /\ policy \in [Policies -> Revisions]
      /\ \A u \in Tabs : SaveRight(save[u]) /\ PublishRight(publish[u])
      /\ P!ServedIsWhole
  BY DEF PolicyIInv, PolicyTypes
<1>1. /\ d \in Policies /\ save[t].seen = "DRAFT"
      /\ policy' = [policy EXCEPT ![d].text = x]
      /\ edited' = IF policy[d].status # "DRAFT" \/ P!BeingPublished(d)
                   THEN edited \cup {d} ELSE edited
      /\ save' = [save EXCEPT ![t] = P!NoSave]
      /\ page' = [page EXCEPT ![t] = d] \/ page' = page
      /\ publish' = publish
  BY <1>t DEF P!EditDraft, P!Told, P!SaveTo, SaveRight
<1>2. /\ policy' \in [Policies -> Revisions]
      /\ \A p \in Policies : /\ policy'[p].status = policy[p].status
                             /\ p # d => policy'[p] = policy[p]
  BY <1>1, <1>t DEF Revisions
<1> HIDE DEF d
<1>3. PolicyTypes'
  BY <1>1, <1>2, <1>t, PolicyRows DEF PolicyTypes
<1>4. \A u \in Tabs : SaveRight(save'[u])
  BY <1>1, <1>t, PolicyRows
<1>5. ASSUME NEW u \in Tabs
      PROVE  PublishRight(publish[u])'
  <2>1. publish'[u] = publish[u] /\ PublishRight(publish[u])
    BY <1>1, <1>t
  <2>2. CASE publish[u].pc = "publish" /\ publish[u].id = d
    BY <1>1, <2>1, <2>2 DEF P!BeingPublished, PublishRight
  <2>3. CASE ~(publish[u].pc = "publish" /\ publish[u].id = d)
    BY <1>1, <1>2, <2>1, <2>3 DEF PublishRight
  <2> QED
    BY <2>2, <2>3
<1>6. P!Of("PUBLISHED")' = P!Of("PUBLISHED")
  <2>1. \A p \in Policies : (policy[p].status)' = policy[p].status
    BY <1>2
  <2> QED
    BY <2>1, Zenon DEF P!Of
<1>7. P!ServedIsWhole'
  <2>1. \A p \in P!Of("PUBLISHED")' \ edited' : policy'[p].text \in Whole
    BY <1>1, <1>2, <1>6, <1>t DEF P!ServedIsWhole, P!Of
  <2>2. \E p \in Policies : P!Of("PUBLISHED")' = {p}
    BY <1>6, <1>t DEF P!ServedIsWhole
  <2> QED
    BY <2>1, <2>2 DEF P!ServedIsWhole
<1>8. \A u \in Tabs : SaveRight(save[u])'
  BY <1>4 DEF SaveRight
<1> QED
  BY <1>3, <1>5, <1>7, <1>8 DEF PolicyIInv

LEMMA PolicyCreates ==
    ASSUME PolicyIInv, NEW t \in Tabs, NEW x \in Texts, P!CreateDraft(t, x)
    PROVE  PolicyIInv'
<1>t. /\ save \in [Tabs -> SaveRows] /\ publish \in [Tabs -> PublishRows]
      /\ page \in [Tabs -> Policies \cup {Null}]
      /\ policy \in [Policies -> Revisions]
      /\ \A u \in Tabs : SaveRight(save[u]) /\ PublishRight(publish[u])
      /\ P!ServedIsWhole
  BY DEF PolicyIInv, PolicyTypes
<1>1. CASE P!SaveTo(t, P!NoSave) /\ UNCHANGED <<policy, page, publish, edited>>
  BY <1>1, <1>t, PolicyRows, PolicyReads DEF P!SaveTo
<1>2. ASSUME NEW p \in P!Of("none"),
             policy' = [policy EXCEPT ![p] = [status |-> "DRAFT", revision |-> save[t].next,
                                              text |-> x]],
             P!Told(t, p), UNCHANGED <<publish, edited>>
      PROVE  PolicyIInv'
  <2>1. p \in Policies /\ policy[p].status = "none" /\ save[t].next \in Nat
    BY <1>t DEF P!Of, SaveRows
  <2> DEFINE r == [status |-> "DRAFT", revision |-> save[t].next, text |-> x]
  <2>2. r \in Revisions /\ r.status = "DRAFT" /\ policy' = [policy EXCEPT ![p] = r]
    BY <1>2, <2>1 DEF Revisions, P!Statuses
  <2> HIDE DEF r
  <2>3. /\ policy' \in [Policies -> Revisions]
        /\ policy'[p].status = "DRAFT"
        /\ \A q \in Policies : q # p => policy'[q] = policy[q]
    BY <1>t, <2>1, <2>2
  <2>4. /\ save' = [save EXCEPT ![t] = P!NoSave]
        /\ page' \in [Tabs -> Policies \cup {Null}]
    BY <1>2, <1>t, <2>1 DEF P!Told, P!SaveTo
  <2>5. PolicyTypes'
    BY <1>2, <1>t, <2>3, <2>4, PolicyRows DEF PolicyTypes
  <2>6. \A u \in Tabs : SaveRight(save[u])'
    <3>1. \A u \in Tabs : SaveRight(save'[u])
      BY <1>t, <2>4, PolicyRows
    <3> QED
      BY <3>1 DEF SaveRight
  <2>7. ASSUME NEW u \in Tabs
        PROVE  PublishRight(publish[u])'
    <3>1. PublishRight(publish[u]) /\ publish'[u] = publish[u]
      BY <1>2, <1>t
    <3> QED
      BY <1>2, <2>1, <2>3, <3>1 DEF PublishRight
  <2>8. P!ServedIsWhole'
    <3>1. P!Of("PUBLISHED")' = P!Of("PUBLISHED") /\ p \notin P!Of("PUBLISHED")
      BY <2>1, <2>3 DEF P!Of
    <3>2. \A q \in P!Of("PUBLISHED")' \ edited' : policy'[q].text \in Whole
      BY <1>2, <1>t, <2>3, <3>1 DEF P!ServedIsWhole, P!Of
    <3>3. \E q \in Policies : P!Of("PUBLISHED")' = {q}
      BY <3>1, <1>t DEF P!ServedIsWhole
    <3> QED
      BY <3>2, <3>3 DEF P!ServedIsWhole
  <2> QED
    BY <2>5, <2>6, <2>7, <2>8 DEF PolicyIInv
<1> QED
  BY <1>1, <1>2 DEF P!CreateDraft

LEMMA PolicyPublishes ==
    ASSUME PolicyIInv, NEW t \in Tabs, P!Publish(t)
    PROVE  PolicyIInv'
<1> DEFINE d == publish[t].id
<1>t. /\ save \in [Tabs -> SaveRows] /\ publish \in [Tabs -> PublishRows]
      /\ page \in [Tabs -> Policies \cup {Null}]
      /\ policy \in [Policies -> Revisions]
      /\ \A u \in Tabs : SaveRight(save[u]) /\ PublishRight(publish[u])
      /\ P!ServedIsWhole
  BY DEF PolicyIInv, PolicyTypes
<1>1. /\ d \in Policies /\ publish[t].pc = "publish" /\ publish[t].seen = "DRAFT"
      /\ d \in edited \/ policy[d].text \in Whole
      /\ edited \subseteq edited'
      /\ publish' = [publish EXCEPT ![t] = P!NoPublish]
      /\ page' = page /\ save' = save
  BY <1>t DEF P!Publish, P!PublishTo, PublishRight
<1>2. policy' = [p \in Policies |->
                   IF p = d THEN [policy[p] EXCEPT !.status = "PUBLISHED"]
                   ELSE IF p \in P!Of("PUBLISHED")
                   THEN [policy[p] EXCEPT !.status = "ARCHIVED"]
                   ELSE policy[p]]
  BY DEF P!Publish
<1> HIDE DEF d
<1>3. /\ policy' \in [Policies -> Revisions]
      /\ \A p \in Policies : policy'[p].text = policy[p].text
      /\ policy'[d].status = "PUBLISHED"
      /\ \A p \in Policies : p # d => policy'[p].status # "PUBLISHED"
      /\ \A p \in Policies : policy[p].status # "none" => policy'[p].status # "none"
  <2>1. ASSUME NEW p \in Policies
        PROVE  /\ policy'[p] \in Revisions /\ policy'[p].text = policy[p].text
               /\ p = d => policy'[p].status = "PUBLISHED"
               /\ p # d => policy'[p].status # "PUBLISHED"
               /\ policy[p].status # "none" => policy'[p].status # "none"
    <3>t. policy[p] \in Revisions
      BY <1>t
    <3>1. CASE p = d
      <4>1. policy'[p] = [policy[p] EXCEPT !.status = "PUBLISHED"]
        BY <1>2, <3>1
      <4> QED
        BY <3>t, <3>1, <4>1 DEF Revisions, P!Statuses
    <3>2. CASE p # d /\ policy[p].status = "PUBLISHED"
      <4>1. policy'[p] = [policy[p] EXCEPT !.status = "ARCHIVED"]
        BY <1>2, <3>2 DEF P!Of
      <4> QED
        BY <3>t, <3>2, <4>1 DEF Revisions, P!Statuses
    <3>3. CASE p # d /\ policy[p].status # "PUBLISHED"
      BY <1>2, <3>t, <3>3 DEF P!Of
    <3> QED
      BY <3>1, <3>2, <3>3
  <2> QED
    BY <1>1, <1>2, <2>1
<1>4. PolicyTypes'
  BY <1>1, <1>3, <1>t, PolicyRows DEF PolicyTypes
<1>5. \A u \in Tabs : SaveRight(save[u])'
  BY <1>1, <1>t DEF SaveRight
<1>6. ASSUME NEW u \in Tabs
      PROVE  PublishRight(publish[u])'
  <2>1. CASE u = t
    BY <1>1, <1>t, <2>1, PolicyRows DEF PublishRight
  <2>2. CASE u # t
    <3>1. publish'[u] = publish[u] /\ PublishRight(publish[u])
      BY <1>1, <1>t, <2>2
    <3> QED
      BY <1>1, <1>3, <3>1 DEF PublishRight
  <2> QED
    BY <2>1, <2>2
<1>7. P!ServedIsWhole'
  <2>1. P!Of("PUBLISHED")' = {d}
    BY <1>1, <1>3 DEF P!Of
  <2> QED
    BY <1>1, <1>3, <2>1 DEF P!ServedIsWhole
<1> QED
  BY <1>4, <1>5, <1>6, <1>7 DEF PolicyIInv

LEMMA PolicyStart == P!PolicyInit => PolicyIInv
<1> SUFFICES ASSUME P!PolicyInit PROVE PolicyIInv
  OBVIOUS
<1>1. PICK r \in Policies : policy = [p \in Policies |->
                     IF p = r THEN [status |-> "PUBLISHED", revision |-> 1, text |-> Default]
                              ELSE P!NoPolicy]
  BY DEF P!PolicyInit
<1>2. /\ policy \in [Policies -> Revisions]
      /\ policy[r].status = "PUBLISHED" /\ policy[r].text = Default
      /\ \A p \in Policies : p # r => policy[p].status # "PUBLISHED"
  BY <1>1, PolicyRows DEF P!NoPolicy, Revisions, P!Statuses
<1>3. PolicyTypes
  BY <1>2, PolicyRows DEF P!PolicyInit, PolicyTypes
<1>4. \A t \in Tabs : SaveRight(save[t]) /\ PublishRight(publish[t])
  BY PolicyRows DEF P!PolicyInit, PublishRight
<1>5. P!ServedIsWhole
  <2>1. P!Of("PUBLISHED") = {r}
    BY <1>2 DEF P!Of
  <2> QED
    BY <1>2, <2>1, PolicyRows DEF P!ServedIsWhole
<1> QED
  BY <1>3, <1>4, <1>5 DEF PolicyIInv

LEMMA PolicySteps == PolicyIInv /\ [P!PolicyNext]_policyVars => PolicyIInv'
<1> SUFFICES ASSUME PolicyIInv, [P!PolicyNext]_policyVars PROVE PolicyIInv'
  OBVIOUS
<1>1. CASE UNCHANGED policyVars
  BY <1>1, PolicyReads DEF policyVars, PolicyIInv, PolicyTypes
<1>2. CASE P!PolicyNext
  BY <1>2, PolicyBegins, PolicyLooks, PolicyEdits, PolicyCreates, PolicyPublishes DEF P!PolicyNext
<1> QED
  BY <1>1, <1>2

-----------------------------------------------------------------------------
\* What the app may do.

AccessLicenses == [status : {"none", "ACTIVE", "REVOKED"}, revoked : BOOLEAN, rank : Nat,
                   until : Nat, owned : BOOLEAN]
SnapRows == [pc : {"idle", "look", "slot", "answer"}, dev : Devices \cup {Null},
             lic : Licenses \cup {Null}, source : {"NONE", "LICENSE", "TRIAL"},
             access : BOOLEAN]

AccessRows ==
    /\ license \in [Licenses -> AccessLicenses]
    /\ slot \in [Licenses -> SUBSET Devices]
    /\ claim \in (Devices \X Licenses) \cup {Null}
    /\ trial \in Nat
    /\ now \in Nat

AccessTypes == AccessRows /\ snap \in [Snapshots -> SnapRows]

\* A device that has access now is known to have had it.
HeldIsSeen(w) ==
    snap[w].pc # "idle" /\ (A!UsesValid(snap[w].dev) \/ A!OnTrial) => w \in held

\* The request has chosen a license: a slot of it gives access, or has given it too
\* late; and if another license was the best all the time, it would be that one.
ChoiceIsRight(w) ==
    snap[w].pc = "slot" =>
        /\ snap[w].lic \in Licenses
        /\ snap[w].dev \in slot[snap[w].lic] => w \in held \/ snap[w].lic \in late
        /\ \A l \in Licenses : <<w, l>> \in best => l = snap[w].lic

AnswerIsRight(w) ==
    snap[w].pc = "answer" =>
        /\ snap[w].access => w \in held \/ snap[w].lic \in late
        /\ ~snap[w].access => \A l \in Licenses : <<w, l>> \notin best

BestIsUsed(w) ==
    \A l \in Licenses : <<w, l>> \in best => A!UsesBest(l, snap[w].dev)

SnapRight(w) == HeldIsSeen(w) /\ ChoiceIsRight(w) /\ AnswerIsRight(w) /\ BestIsUsed(w)

AccessIInv == AccessTypes /\ \A w \in Snapshots : SnapRight(w)

\* A license that the device uses and that is better than all others is the only one
\* that can be chosen.
LEMMA BestIsBest ==
    ASSUME AccessRows, NEW l \in Licenses, NEW d, A!UsesBest(l, d)
    PROVE  A!Best = {l}
<1>1. /\ l \in A!Candidates /\ A!Valid(l) /\ d \in slot[l]
      /\ \A k \in A!Candidates \ {l} : A!Valid(k) =>
           \/ license[k].rank < license[l].rank
           \/ license[k].rank = license[l].rank /\ license[k].until < license[l].until
  BY DEF A!UsesBest, A!OnDevice, A!Candidates
<1>2. \A k \in Licenses : license[k].rank \in Nat /\ license[k].until \in Nat
  BY DEF AccessRows, AccessLicenses
<1>3. A!Candidates \subseteq Licenses
  BY DEF A!Candidates
<1>4. l \in A!Best
  BY <1>1, <1>2, <1>3 DEF A!Best, A!NoBetter
<1>5. ASSUME NEW k \in A!Best, k # l PROVE FALSE
  <2>1. k \in A!Candidates /\ A!Valid(k) /\ A!NoBetter(l, k)
    BY <1>1, <1>5 DEF A!Best
  <2> QED
    BY <1>1, <1>2, <1>3, <1>5, <2>1 DEF A!NoBetter
<1> QED
  BY <1>4, <1>5

\* What the history notes.
LEMMA WatchNotes ==
    ASSUME AccessTypes', A!Watch, NEW w \in Snapshots
    PROVE  /\ HeldIsSeen(w)' /\ BestIsUsed(w)'
           /\ w \in held /\ snap'[w].pc # "idle" => w \in held'
           /\ late \subseteq late'
           /\ \A l \in Licenses :
                ~A!Valid(l) /\ slot'[l] # slot[l] /\ claim' # claim => l \in late'
           /\ \A l \in Licenses :
                <<w, l>> \in best' => /\ snap'[w].pc # "idle"
                                      /\ snap[w].pc = "idle" \/ <<w, l>> \in best
<1>1. HeldIsSeen(w)' /\ (w \in held /\ snap'[w].pc # "idle" => w \in held')
  BY DEF A!Watch, A!At, HeldIsSeen
<1>2. BestIsUsed(w)'
  BY DEF A!Watch, BestIsUsed
<1>3. late \subseteq late' /\ \A l \in Licenses :
        ~A!Valid(l) /\ slot'[l] # slot[l] /\ claim' # claim => l \in late'
  BY DEF A!Watch
<1>4. \A l \in Licenses :
        <<w, l>> \in best' => /\ snap'[w].pc # "idle"
                              /\ snap[w].pc = "idle" \/ <<w, l>> \in best
  BY DEF A!Watch, A!At
<1> QED
  BY <1>1, <1>2, <1>3, <1>4

\* Rows change under a request that waits.
LEMMA RequestWaits ==
    ASSUME AccessIInv, A!Watch, AccessTypes', NEW w \in Snapshots, snap'[w] = snap[w],
           \A l \in Licenses, d \in Devices :
               d \in slot'[l] /\ d \notin slot[l] => A!Valid(l)' \/ l \in late'
    PROVE  SnapRight(w)'
<1>t. /\ snap[w] \in SnapRows /\ snap'[w] = snap[w]
      /\ HeldIsSeen(w) /\ ChoiceIsRight(w) /\ AnswerIsRight(w)
  BY DEF AccessIInv, AccessTypes, SnapRight
<1>1. HeldIsSeen(w)' /\ BestIsUsed(w)' /\ late \subseteq late'
  BY WatchNotes
<1>2. w \in held /\ snap[w].pc # "idle" => w \in held'
  BY <1>t, WatchNotes
<1>3. snap[w].pc # "idle" => \A l \in Licenses : <<w, l>> \in best' => <<w, l>> \in best
  BY WatchNotes
<1>4. ChoiceIsRight(w)'
  <2>1. SUFFICES ASSUME snap[w].pc = "slot"
        PROVE  /\ snap[w].lic \in Licenses
               /\ snap[w].dev \in slot'[snap[w].lic] => w \in held' \/ snap[w].lic \in late'
               /\ \A l \in Licenses : <<w, l>> \in best' => l = snap[w].lic
    BY <1>t DEF ChoiceIsRight
  <2>2. /\ snap[w].lic \in Licenses
        /\ snap[w].dev \in slot[snap[w].lic] => w \in held \/ snap[w].lic \in late
        /\ \A l \in Licenses : <<w, l>> \in best => l = snap[w].lic
    BY <1>t, <2>1 DEF ChoiceIsRight
  <2>3. ASSUME snap[w].dev \in slot'[snap[w].lic], snap[w].dev \notin slot[snap[w].lic]
        PROVE  w \in held' \/ snap[w].lic \in late'
    <3>1. snap[w].dev \in Devices
      BY <2>2, <2>3 DEF AccessTypes, AccessRows
    <3>2. A!Valid(snap[w].lic)' => w \in held'
      <4>1. A!Valid(snap[w].lic)' => A!UsesValid(snap[w].dev)'
        BY <1>t, <2>2, <2>3 DEF A!UsesValid, A!OnDevice
      <4> QED
        BY <1>1, <1>t, <2>1, <4>1 DEF HeldIsSeen
    <3>3. A!Valid(snap[w].lic)' \/ snap[w].lic \in late'
      <4>1. PICK l : l = snap[w].lic
        OBVIOUS
      <4>2. A!Valid(l)' \/ l \in late'
        BY <2>2, <2>3, <3>1, <4>1
      <4>3. (snap[w].lic)' = l
        BY <1>t, <4>1
      <4> QED
        BY <4>1, <4>2, <4>3 DEF A!Valid
    <3> QED
      BY <3>2, <3>3
  <2> QED
    BY <1>1, <1>2, <1>3, <2>1, <2>2, <2>3
<1>5. AnswerIsRight(w)'
  BY <1>t, <1>1, <1>2, <1>3 DEF AnswerIsRight
<1> QED
  BY <1>1, <1>4, <1>5 DEF SnapRight

LEMMA RowsChange ==
    ASSUME AccessIInv, A!Watch, AccessRows', snap' = snap,
           \A l \in Licenses, d \in Devices :
               d \in slot'[l] /\ d \notin slot[l] => A!Valid(l)' \/ l \in late'
    PROVE  AccessIInv'
<1>1. AccessTypes'
  BY DEF AccessIInv, AccessTypes
<1>2. ASSUME NEW w \in Snapshots
      PROVE  SnapRight(w)'
  BY <1>1, RequestWaits
<1> QED
  BY <1>1, <1>2 DEF AccessIInv

\* A license is valid as long as nothing revokes it and its time has not come.
LEMMA SlotsAreGiven ==
    ASSUME AccessIInv, A!Watch, NEW d \in Devices, NEW l \in Licenses, A!GiveSlot(d, l)
    PROVE  AccessIInv'
<1>1. /\ license \in [Licenses -> AccessLicenses]
      /\ slot \in [Licenses -> SUBSET Devices]
  BY DEF AccessIInv, AccessTypes, AccessRows
<1>2. /\ claim = <<d, l>> /\ claim' = Null
      /\ slot' = [slot EXCEPT ![l] = slot[l] \cup {d}]
      /\ license' = license \/ license' = [license EXCEPT ![l].status = "ACTIVE"]
      /\ trial' = trial /\ now' = now /\ snap' = snap
  BY DEF A!GiveSlot
<1>3. <<d, l>> # Null
  BY AppAssumption DEF A!AppAccessAssumption
<1>4. license' \in [Licenses -> AccessLicenses]
  BY <1>1, <1>2 DEF AccessLicenses
<1>5. slot' \in [Licenses -> SUBSET Devices]
  BY <1>1, <1>2
<1>6. AccessRows' /\ AccessTypes'
  BY <1>2, <1>4, <1>5 DEF AccessIInv, AccessTypes, AccessRows
<1>7. ASSUME NEW k \in Licenses, NEW e \in Devices, e \in slot'[k], e \notin slot[k]
      PROVE  A!Valid(k)' \/ k \in late'
  <2>1. k = l
    BY <1>1, <1>2, <1>7
  <2>2. CASE A!Valid(l)
    <3>1. /\ (license[l].status)' = "ACTIVE"
          /\ (license[l].revoked)' = license[l].revoked
          /\ (license[l].until)' = license[l].until
      BY <1>1, <1>2, <2>2 DEF A!Valid, AccessLicenses
    <3> QED
      BY <1>2, <2>1, <2>2, <3>1 DEF A!Valid
  <2>3. CASE ~A!Valid(l)
    <3>1. claim' # claim /\ slot'[l] # slot[l]
      BY <1>2, <1>3, <1>7, <2>1
    <3> QED
      BY <2>1, <2>3, <3>1 DEF A!Watch
  <2> QED
    BY <2>2, <2>3
<1> QED
  BY <1>2, <1>6, <1>7, RowsChange

\* The rows change in another way: no device gets a slot.
LEMMA RowsEnd ==
    ASSUME AccessIInv, A!Watch,
           \/ \E l \in Licenses :
                \/ \E rank \in Ranks, until \in 1 .. MaxTime + 1, owned \in BOOLEAN :
                     A!Issue(l, rank, until, owned)
                \/ A!Revoke(l)
                \/ \E d \in Devices : A!CheckLicense(d, l) \/ A!EndSlot(l, d)
           \/ A!RefuseSlot \/ A!TimePasses
    PROVE  AccessIInv'
<1>t. AccessRows
  BY DEF AccessIInv, AccessTypes
<1>1. ASSUME NEW l \in Licenses, NEW rank \in Ranks, NEW until \in 1 .. MaxTime + 1,
             NEW owned \in BOOLEAN, A!Issue(l, rank, until, owned)
      PROVE  AccessRows' /\ snap' = snap /\ slot' = slot
  <2> DEFINE r == [A!NoLicense EXCEPT !.status = "ACTIVE", !.rank = rank, !.until = until,
                                      !.owned = owned]
  <2>t. rank \in Nat /\ until \in Nat
    BY AppAssumption DEF A!AppAccessAssumption
  <2>1. r \in AccessLicenses
    BY <2>t DEF AccessLicenses, A!NoLicense
  <2>2. license' = [license EXCEPT ![l] = r]
    BY <1>1 DEF A!Issue
  <2> HIDE DEF r
  <2>3. license' \in [Licenses -> AccessLicenses]
    BY <1>t, <2>1, <2>2 DEF AccessRows
  <2> QED
    BY <1>1, <1>t, <2>3 DEF A!Issue, AccessRows
<1>2. ASSUME NEW l \in Licenses, A!Revoke(l)
      PROVE  AccessIInv'
  <2>1. license' = [license EXCEPT ![l].status = "REVOKED", ![l].revoked = TRUE]
    BY <1>2 DEF A!Revoke
  <2>2. license' \in [Licenses -> AccessLicenses]
    BY <1>t, <2>1 DEF AccessRows, AccessLicenses
  <2>3. AccessRows' /\ snap' = snap /\ slot' = slot
    BY <1>2, <1>t, <2>2 DEF A!Revoke, AccessRows
  <2> QED
    BY <2>3, RowsChange
<1>3. ASSUME NEW l \in Licenses, NEW d \in Devices, A!CheckLicense(d, l)
      PROVE  AccessIInv'
  BY <1>3, <1>t, RowsChange DEF A!CheckLicense, AccessRows
<1>4. ASSUME NEW l \in Licenses, NEW d \in Devices, A!EndSlot(l, d)
      PROVE  AccessIInv'
  <2>1. slot' = [slot EXCEPT ![l] = slot[l] \ {d}]
    BY <1>4 DEF A!EndSlot
  <2>2. /\ slot' \in [Licenses -> SUBSET Devices]
        /\ \A k \in Licenses : slot'[k] \subseteq slot[k]
    BY <1>t, <2>1 DEF AccessRows
  <2>3. AccessRows' /\ snap' = snap
    BY <1>4, <1>t, <2>2 DEF A!EndSlot, AccessRows
  <2> QED
    BY <2>2, <2>3, RowsChange
<1>5. CASE A!RefuseSlot
  BY <1>5, <1>t, RowsChange DEF A!RefuseSlot, AccessRows
<1>6. CASE A!TimePasses
  <2>1. AccessRows' /\ snap' = snap /\ slot' = slot
    BY <1>6, <1>t DEF A!TimePasses, A!rows, AccessRows
  <2> QED
    BY <2>1, RowsChange
<1> QED
  BY <1>1, <1>2, <1>3, <1>4, <1>5, <1>6, RowsChange

\* A request goes on: it asks, or begins, or it is answered.
LEMMA RequestGoes ==
    ASSUME AccessIInv, A!Watch, UNCHANGED <<A!rows, now>>,
           NEW w \in Snapshots, NEW r \in SnapRows, snap' = [snap EXCEPT ![w] = r],
           ChoiceIsRight(w)', AnswerIsRight(w)'
    PROVE  AccessIInv'
<1>1. AccessTypes'
  BY DEF AccessIInv, AccessTypes, AccessRows, A!rows
<1>2. ASSUME NEW u \in Snapshots
      PROVE  SnapRight(u)'
  <2>1. CASE u = w
    <3>1. HeldIsSeen(w)' /\ BestIsUsed(w)'
      BY <1>1, WatchNotes
    <3> QED
      BY <2>1, <3>1 DEF SnapRight
  <2>2. CASE u # w
    <3>1. snap'[u] = snap[u] /\ slot' = slot
      BY <1>1, <2>2 DEF AccessIInv, AccessTypes, A!rows
    <3> QED
      BY <1>1, <3>1, RequestWaits
  <2> QED
    BY <2>1, <2>2
<1> QED
  BY <1>1, <1>2 DEF AccessIInv

LEMMA RequestAsks ==
    ASSUME AccessIInv, A!Watch, NEW w \in Snapshots,
           (\E d \in Devices : A!Ask(w, d)) \/ A!Finish(w)
    PROVE  AccessIInv'
<1>1. PICK r \in SnapRows : r.pc \in {"idle", "look"} /\ snap' = [snap EXCEPT ![w] = r]
  <2>1. ASSUME NEW d \in Devices, A!Ask(w, d)
        PROVE  \E r \in SnapRows : /\ r.pc \in {"idle", "look"}
                                   /\ snap' = [snap EXCEPT ![w] = r]
    <3> DEFINE r == [A!NoSnap EXCEPT !.pc = "look", !.dev = d]
    <3>1. r \in SnapRows /\ r.pc = "look"
      BY DEF SnapRows, A!NoSnap
    <3>2. snap' = [snap EXCEPT ![w] = r]
      BY <2>1 DEF A!Ask, A!Goto
    <3> HIDE DEF r
    <3> QED
      BY <3>1, <3>2
  <2>2. CASE A!Finish(w)
    <3>1. A!NoSnap \in SnapRows /\ A!NoSnap.pc = "idle"
      BY DEF SnapRows, A!NoSnap
    <3> QED
      BY <2>2, <3>1 DEF A!Finish, A!Goto
  <2> QED
    BY <2>1, <2>2
<1>2. snap'[w] = r
  BY <1>1 DEF AccessIInv, AccessTypes
<1>3. ChoiceIsRight(w)' /\ AnswerIsRight(w)'
  BY <1>1, <1>2 DEF ChoiceIsRight, AnswerIsRight
<1>4. UNCHANGED <<A!rows, now>>
  BY DEF A!Ask, A!Finish
<1> QED
  BY <1>1, <1>3, <1>4, RequestGoes

\* What the device uses does not change while a query runs.
LEMMA SameRows ==
    ASSUME UNCHANGED <<A!rows, now>>
    PROVE  /\ A!OnTrial' = A!OnTrial
           /\ \A d : A!UsesValid(d)' = A!UsesValid(d)
           /\ \A l, d : A!UsesBest(l, d)' = A!UsesBest(l, d)
BY DEF A!rows, A!OnTrial, A!UsesValid, A!UsesBest, A!OnDevice, A!Valid, A!Candidates

\* The request reads the account and chooses, or answers at once.
LEMMA RequestLooks ==
    ASSUME AccessIInv, A!Watch, NEW w \in Snapshots, A!Look(w)
    PROVE  AccessIInv'
<1>t. /\ AccessRows /\ snap \in [Snapshots -> SnapRows] /\ snap[w].pc = "look"
      /\ UNCHANGED <<A!rows, now>>
  BY DEF AccessIInv, AccessTypes, A!Look, A!At
<1>1. \/ \E l \in A!Best : snap' = [snap EXCEPT ![w] = [snap[w] EXCEPT !.pc = "slot", !.lic = l]]
      \/ /\ A!Best = {} /\ A!OnTrial
         /\ snap' = [snap EXCEPT ![w] = [snap[w] EXCEPT !.pc = "answer", !.source = "TRIAL",
                                                         !.access = TRUE]]
      \/ /\ A!Best = {}
         /\ snap' = [snap EXCEPT ![w] = [snap[w] EXCEPT !.pc = "answer", !.source = "NONE",
                                                         !.access = FALSE]]
  BY DEF A!Look, A!Goto, A!Answers
<1>2. ASSUME NEW r \in SnapRows, snap' = [snap EXCEPT ![w] = r], r.pc # "idle"
      PROVE  /\ AccessTypes' /\ snap'[w] = r /\ HeldIsSeen(w)'
             /\ \A l \in Licenses : <<w, l>> \in best' => A!Best = {l}
  <2>1. AccessTypes' /\ snap'[w] = r
    BY <1>2, <1>t DEF AccessTypes, AccessRows, A!rows
  <2>2. HeldIsSeen(w)' /\ BestIsUsed(w)'
    BY <2>1, WatchNotes
  <2>3. ASSUME NEW l \in Licenses, <<w, l>> \in best'
        PROVE  A!Best = {l}
    <3>1. PICK d : d = r.dev
      OBVIOUS
    <3>2. A!UsesBest(l, d)'
      <4>1. A!UsesBest(l, snap[w].dev)'
        BY <2>2, <2>3 DEF BestIsUsed
      <4>2. (snap[w].dev)' = d
        BY <2>1, <3>1
      <4> QED
        BY <4>1, <4>2 DEF A!UsesBest, A!OnDevice
    <3>3. A!UsesBest(l, d)
      BY <1>t, <3>2, SameRows
    <3> QED
      BY <1>t, <3>3, BestIsBest
  <2> QED
    BY <2>1, <2>2, <2>3
<1>3. ASSUME NEW l \in A!Best,
             snap' = [snap EXCEPT ![w] = [snap[w] EXCEPT !.pc = "slot", !.lic = l]]
      PROVE  AccessIInv'
  <2> DEFINE r == [snap[w] EXCEPT !.pc = "slot", !.lic = l]
  <2>1. l \in Licenses /\ A!Valid(l)
    BY DEF A!Best, A!Candidates
  <2>2. r \in SnapRows /\ r.pc = "slot" /\ r.lic = l /\ snap' = [snap EXCEPT ![w] = r]
    BY <1>t, <1>3, <2>1 DEF SnapRows
  <2> HIDE DEF r
  <2>3. /\ snap'[w] = r /\ HeldIsSeen(w)' /\ AccessTypes'
        /\ \A k \in Licenses : <<w, k>> \in best' => k = l
    BY <1>2, <2>2
  <2>4. ASSUME r.dev \in slot'[l]
        PROVE  w \in held'
    <3>1. A!UsesValid(snap[w].dev)'
      BY <1>t, <2>1, <2>3, <2>4 DEF A!UsesValid, A!OnDevice, A!Valid, A!rows
    <3>2. (snap[w].pc)' # "idle"
      BY <2>2, <2>3
    <3> QED
      BY <2>3, <3>1, <3>2 DEF HeldIsSeen
  <2>5. ChoiceIsRight(w)' /\ AnswerIsRight(w)'
    BY <2>1, <2>2, <2>3, <2>4 DEF ChoiceIsRight, AnswerIsRight
  <2> QED
    BY <1>t, <2>2, <2>5, RequestGoes
<1>4. ASSUME NEW s \in {"TRIAL", "NONE"}, NEW b \in BOOLEAN, A!Best = {}, b => A!OnTrial,
             snap' = [snap EXCEPT ![w] = [snap[w] EXCEPT !.pc = "answer", !.source = s,
                                                         !.access = b]]
      PROVE  AccessIInv'
  <2> DEFINE r == [snap[w] EXCEPT !.pc = "answer", !.source = s, !.access = b]
  <2>2. r \in SnapRows /\ r.pc = "answer" /\ r.access = b /\ snap' = [snap EXCEPT ![w] = r]
    BY <1>t, <1>4 DEF SnapRows
  <2> HIDE DEF r
  <2>3. /\ snap'[w] = r /\ HeldIsSeen(w)'
        /\ \A k \in Licenses : <<w, k>> \notin best'
    BY <1>2, <1>4, <2>2
  <2>4. b => w \in held'
    <3>1. A!OnTrial' = A!OnTrial
      BY <1>t, SameRows
    <3> QED
      BY <1>4, <2>2, <2>3, <3>1 DEF HeldIsSeen
  <2>5. ChoiceIsRight(w)' /\ AnswerIsRight(w)'
    BY <2>2, <2>3, <2>4 DEF ChoiceIsRight, AnswerIsRight
  <2> QED
    BY <1>t, <2>2, <2>5, RequestGoes
<1> QED
  BY <1>1, <1>3, <1>4

\* The slot of the chosen license decides.
LEMMA RequestEnds ==
    ASSUME AccessIInv, A!Watch, NEW w \in Snapshots, A!LookForSlot(w)
    PROVE  AccessIInv'
<1>t. /\ AccessRows /\ snap \in [Snapshots -> SnapRows] /\ snap[w].pc = "slot"
      /\ ChoiceIsRight(w) /\ UNCHANGED <<A!rows, now>>
  BY DEF AccessIInv, AccessTypes, SnapRight, A!LookForSlot, A!At
<1>1. PICK c : c = snap[w].lic
  OBVIOUS
<1>2. PICK d : d = snap[w].dev
  OBVIOUS
<1>3. /\ c \in Licenses
      /\ d \in slot[c] => w \in held \/ c \in late
      /\ \A l \in Licenses : <<w, l>> \in best => l = c
  BY <1>t, <1>1, <1>2 DEF ChoiceIsRight
<1>4. PICK b \in BOOLEAN : b = (d \in slot[c])
  <2>1. CASE d \in slot[c]
    <3>1. TRUE \in BOOLEAN /\ TRUE = (d \in slot[c])
      BY <2>1
    <3> QED
      BY <3>1, Zenon
  <2>2. CASE d \notin slot[c]
    <3>1. FALSE \in BOOLEAN /\ FALSE = (d \in slot[c])
      BY <2>2
    <3> QED
      BY <3>1, Zenon
  <2> QED
    BY <2>1, <2>2
<1>5. snap' = [snap EXCEPT ![w] = [snap[w] EXCEPT !.pc = "answer", !.source = "LICENSE",
                                                  !.access = b]]
  <2>1. A!HasSlot(snap[w].lic, snap[w].dev) = b
    BY <1>1, <1>2, <1>4 DEF A!HasSlot
  <2> QED
    BY <2>1, Zenon DEF A!LookForSlot, A!Answers, A!Goto
<1> DEFINE r == [snap[w] EXCEPT !.pc = "answer", !.source = "LICENSE", !.access = b]
<1>6. /\ r \in SnapRows /\ r.pc = "answer" /\ r.lic = c /\ r.dev = d /\ r.access = b
      /\ snap' = [snap EXCEPT ![w] = r]
  BY <1>t, <1>1, <1>2, <1>5 DEF SnapRows
<1> HIDE DEF r
<1>7. /\ AccessTypes' /\ snap'[w] = r /\ slot' = slot
  BY <1>6, <1>t DEF AccessTypes, AccessRows, A!rows
<1>8. /\ BestIsUsed(w)' /\ late \subseteq late'
      /\ w \in held => w \in held'
      /\ \A l \in Licenses : <<w, l>> \in best' => <<w, l>> \in best
  BY <1>t, <1>6, <1>7, WatchNotes
<1>9. ASSUME NEW l \in Licenses, <<w, l>> \in best'
      PROVE  d \in slot[c]
  <2>1. A!UsesBest(l, snap[w].dev)'
    BY <1>8, <1>9 DEF BestIsUsed
  <2>2. d \in slot'[l]
    BY <1>6, <1>7, <2>1 DEF A!UsesBest, A!OnDevice
  <2> QED
    BY <1>3, <1>7, <1>8, <1>9, <2>2
<1>10. ChoiceIsRight(w)' /\ AnswerIsRight(w)'
  BY <1>3, <1>4, <1>6, <1>7, <1>8, <1>9 DEF ChoiceIsRight, AnswerIsRight
<1> QED
  BY <1>t, <1>6, <1>10, RequestGoes

LEMMA AccessStart == A!AccessInit => AccessIInv
<1> SUFFICES ASSUME A!AccessInit PROVE AccessIInv
  OBVIOUS
<1>1. A!NoLicense \in AccessLicenses /\ A!NoSnap \in SnapRows /\ A!NoSnap.pc = "idle"
  BY DEF A!NoLicense, A!NoSnap, AccessLicenses, SnapRows
<1>2. AccessRows
  BY <1>1, AppAssumption DEF A!AccessInit, AccessRows, A!Times, A!AppAccessAssumption
<1>3. snap \in [Snapshots -> SnapRows] /\ \A w \in Snapshots : snap[w].pc = "idle"
  BY <1>1 DEF A!AccessInit
<1>4. \A w \in Snapshots : SnapRight(w)
  BY <1>3 DEF A!AccessInit, SnapRight, HeldIsSeen, ChoiceIsRight, AnswerIsRight, BestIsUsed
<1> QED
  BY <1>2, <1>3, <1>4 DEF AccessIInv, AccessTypes

LEMMA AccessSteps == AccessIInv /\ [A!AccessNext]_accessVars => AccessIInv'
<1> SUFFICES ASSUME AccessIInv, [A!AccessNext]_accessVars PROVE AccessIInv'
  OBVIOUS
<1>1. CASE UNCHANGED accessVars
  BY <1>1 DEF accessVars, AccessIInv, AccessTypes, AccessRows, SnapRight, HeldIsSeen,
     ChoiceIsRight, AnswerIsRight, BestIsUsed, A!UsesValid, A!OnTrial, A!OnDevice, A!Valid,
     A!UsesBest, A!Candidates
<1>2. CASE A!AccessNext
  <2>1. A!AccessStep /\ A!Watch
    BY <1>2 DEF A!AccessNext
  <2>2. CASE \E l \in Licenses, d \in Devices : A!GiveSlot(d, l)
    BY <2>1, <2>2, SlotsAreGiven
  <2>3. CASE \E w \in Snapshots : \/ \E d \in Devices : A!Ask(w, d)
                                 \/ A!Look(w) \/ A!LookForSlot(w) \/ A!Finish(w)
    BY <2>1, <2>3, RequestAsks, RequestLooks, RequestEnds
  <2>4. CASE \/ \E l \in Licenses :
                \/ \E rank \in Ranks, until \in 1 .. MaxTime + 1, owned \in BOOLEAN :
                     A!Issue(l, rank, until, owned)
                \/ A!Revoke(l)
                \/ \E d \in Devices : A!CheckLicense(d, l) \/ A!EndSlot(l, d)
             \/ A!RefuseSlot \/ A!TimePasses
    BY <2>1, <2>4, RowsEnd
  <2> QED
    BY <2>1, <2>2, <2>3, <2>4 DEF A!AccessStep
<1> QED
  BY <1>1, <1>2

\* What the panel shows is right in every state: its rules look at the rows as they are.
LEMMA PanelIsRight ==
    ASSUME AccessRows
    PROVE  A!PanelAgrees
<1> SUFFICES ASSUME NEW d \in Devices
             PROVE
        /\ A!Granted(d) => A!Bucket(d) \in {"LICENSED", "TRIAL"}
        /\ A!Granted(d) /\ A!Review(d, A!RevokedShown(d)) =>
             \E l \in Licenses : license[l].owned /\ license[l].status = "REVOKED"
        /\ ~A!Granted(d) /\ ~A!Review(d, A!RevokedShown(d)) =>
             A!HasActive(d) \/ (A!OnTrial /\ A!Best # {})
        /\ A!Review(d, A!RevokedShown(d)) # A!Review(d, A!RevokedCounted(d)) =>
             \E l \in Licenses : /\ license[l].status = "REVOKED"
                                 /\ l \in A!OnDevice(d) \/ license[l].owned
  BY DEF A!PanelAgrees
<1>1. A!Granted(d) => A!HasActive(d) \/ A!OnTrial
  BY DEF A!Granted, A!HasActive, A!Best, A!Candidates, A!HasSlot, A!OnDevice, A!Valid
<1>2. A!Bucket(d) \in {"LICENSED", "TRIAL"} <=> A!HasActive(d) \/ A!OnTrial
  BY DEF A!Bucket
<1>3. A!Bucket(d) = "TRIAL_EXPIRED" <=> ~(A!HasActive(d) \/ A!OnTrial)
  BY DEF A!Bucket
<1>4. A!RevokedShown(d) =>
        \E l \in Licenses : license[l].owned /\ license[l].status = "REVOKED"
  <2>1. \A l \in Licenses : license[l].status \in {"none", "ACTIVE", "REVOKED"}
    BY DEF AccessRows, AccessLicenses
  <2> QED
    BY <2>1 DEF A!RevokedShown, A!HasActive, A!Exists
<1>5. A!RevokedCounted(d) =>
        \E l \in Licenses : /\ license[l].status = "REVOKED"
                            /\ l \in A!OnDevice(d) \/ license[l].owned
  BY DEF A!RevokedCounted, A!OnDevice
<1>6. A!OnTrial /\ ~A!Granted(d) => A!Best # {}
  BY DEF A!Granted
<1>7. CASE A!Review(d, A!RevokedShown(d)) # A!Review(d, A!RevokedCounted(d))
  <2>1. A!RevokedShown(d) \/ A!RevokedCounted(d)
    BY <1>7 DEF A!Review
  <2> QED
    BY <1>1, <1>2, <1>3, <1>4, <1>5, <1>6, <2>1 DEF A!Review
<1>8. CASE ~(A!Review(d, A!RevokedShown(d)) # A!Review(d, A!RevokedCounted(d)))
  BY <1>1, <1>2, <1>3, <1>4, <1>6, <1>8 DEF A!Review
<1> QED
  BY <1>7, <1>8

-----------------------------------------------------------------------------
\* One of the two runs.
AppIInv ==
    /\ part = "access" => AccessIInv
    /\ part = "policy" => PolicyIInv

THEOREM AppInvariance == AppSpec => []AppIInv
<1>1. AppInit => AppIInv
  BY AccessStart, PolicyStart DEF AppInit, AppIInv
<1>2. AppIInv /\ [AppNext]_appVars => AppIInv'
  <2> SUFFICES ASSUME AppIInv, [AppNext]_appVars PROVE AppIInv'
    OBVIOUS
  <2>1. part' = part
    BY DEF AppNext, appVars
  <2>2. part = "access" => AccessIInv'
    BY AccessSteps DEF AppIInv, AppNext, appVars
  <2>3. part = "policy" => PolicyIInv'
    BY PolicySteps DEF AppIInv, AppNext, appVars
  <2> QED
    BY <2>1, <2>2, <2>3 DEF AppIInv
<1> QED
  BY <1>1, <1>2, PTL DEF AppSpec

\* The app is told that it has access only if its device had a slot of a license that
\* was valid, or the trial was running, at some time of the request, or the slot was
\* given by a key that was being used as the license ended; and it is not told that it
\* has none as long as it has a slot of the best license of its account: for any number
\* of licenses, devices and requests, whatever changes between the two queries.
THEOREM AccessSaysWhatIs == AppSpec => []AccessIsRight
<1>1. AppIInv => AccessIsRight
  BY DEF AppIInv, AccessIInv, SnapRight, AnswerIsRight, AccessIsRight, A!AccessIsRight, A!At
<1> QED
  BY <1>1, AppInvariance, PTL

\* By its own rules the panel shows every device that has access as one that has, and
\* suspects one, or misses one, only in the cases the property names.
THEOREM PanelShowsWhatIs == AppSpec => []PanelAgrees
<1>1. AppIInv => PanelAgrees
  BY PanelIsRight DEF AppIInv, AccessIInv, AccessTypes, PanelAgrees
<1> QED
  BY <1>1, AppInvariance, PTL

\* Always one policy is served, and in both languages unless its draft was edited
\* while it was published: for any number of tabs, revisions and texts.
THEOREM PolicyIsWhole == AppSpec => []ServedIsWhole
<1>1. AppIInv => ServedIsWhole
  BY DEF AppIInv, PolicyIInv, ServedIsWhole
<1> QED
  BY <1>1, AppInvariance, PTL

=============================================================================
