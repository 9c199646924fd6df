------------------------------ MODULE Sessions ------------------------------
(***************************************************************************)
(* Mobile sessions: registration of an installation, rotation of refresh   *)
(* tokens, the three ways to end sessions, and the additional devices of   *)
(* an account.                                                             *)
(*                                                                         *)
(* Requests run in separate invocations and take one action per database   *)
(* call they await; one that only reads and then refuses ends in the       *)
(* action of its last read.  An account is named by the installation whose *)
(* registration created it.  Access tokens live 15 minutes and no database *)
(* row stands for them: any device that has registered may call the        *)
(* endpoints of its account.                                               *)
(***************************************************************************)
EXTENDS Integers, FiniteSets

CONSTANTS
    Installations, \* bound: the installation ids that may register
    Tokens,        \* bound: the RefreshToken rows that may be created
    Workers,       \* bound: the requests in progress at one time
    MaxLimit,      \* bound: the greatest max_devices of a plan
    MaxShut,       \* bound: the accounts and installations an operator shuts
    None           \* SQL NULL, "no value"

ASSUME SessionsAssumption ==
    /\ MaxLimit \in Nat \ {0}
    /\ MaxShut \in Nat
    /\ IsFiniteSet(Installations)
    /\ None \notin Installations \cup Tokens

VARIABLES
    users,       \* User rows
    trials,      \* TrialGrant rows, by installation
    owner,       \* DeviceInstallation rows: userId, None without a row
    blocked,     \* accounts that are SUSPENDED or DELETED
    barred,      \* installations with revokedAt set
    token,       \* RefreshToken rows
    req,         \* the requests in progress
    cut,         \* history: tokens that a logout or a revocation has reached
    raced        \* history: requests whose count of the account's devices was
                 \* overtaken by an addition

vars == <<users, trials, owner, blocked, barred, token, req, cut, raced>>
accounts == <<users, trials, owner>>
gates == <<blocked, barred>>

\* A token is dead when revokedAt is set or expiresAt has passed: every reader
\* refuses the one as the other.
TokenStates == {"none", "live", "dead"}
NoToken == [state |-> "none", user |-> None, dev |-> None, from |-> None]
TokenRows == [state : TokenStates, user : Installations \cup {None},
              dev : Installations \cup {None},
              from : Tokens \cup {None}]

Stages == {"idle", "lookup", "create", "issue", "replace", "allow", "add"}
NotRead == -1
Idle == [pc |-> "idle", user |-> None, dev |-> None, from |-> None,
         late |-> FALSE, max |-> NotRead, count |-> NotRead]
Requests == [pc : Stages, user : Installations \cup {None},
             dev : Installations \cup {None}, from : Tokens \cup {None},
             late : BOOLEAN, max : {NotRead} \cup 1..MaxLimit,
             count : {NotRead} \cup Nat]

TypeOK ==
    /\ users \subseteq Installations
    /\ trials \subseteq Installations
    /\ owner \in [Installations -> Installations \cup {None}]
    /\ blocked \subseteq Installations
    /\ barred \subseteq Installations
    /\ token \in [Tokens -> TokenRows]
    /\ req \in [Workers -> Requests]
    /\ cut \in [Tokens -> {"no", "held", "ended"}]
    /\ raced \subseteq Workers

Init ==
    /\ users = {}
    /\ trials = {}
    /\ owner = [i \in Installations |-> None]
    /\ blocked = {}
    /\ barred = {}
    /\ token = [t \in Tokens |-> NoToken]
    /\ req = [w \in Workers |-> Idle]
    /\ cut = [t \in Tokens |-> "no"]
    /\ raced = {}

-----------------------------------------------------------------------------
\* A definition whose comment begins with "Mutant:" is a wrong version of the
\* definition that follows it.  Nothing uses it: it stands for a bug the
\* properties must notice.

At(w, stage) == req[w].pc = stage
Goto(w, stage) == req' = [req EXCEPT ![w].pc = stage]
Finish(w) == req' = [req EXCEPT ![w] = Idle]

Live(t) == token[t].state = "live"
Dead(row) == [row EXCEPT !.state = "dead"]
ActiveDevices(u) == {i \in Installations : owner[i] = u} \ barred

\* The request has begun when the account was already blocked or the device
\* already barred: what it may never get is a session.
Shut(i) == i \in barred \/ owner[i] \in blocked

-----------------------------------------------------------------------------
\* POST /auth/device/register needs no credentials but the installation id.
\* MAINTENANCE_MODE refuses it, as if nobody had asked.
BeginRegister(w, i) ==
    /\ At(w, "idle")
    /\ req' = [req EXCEPT ![w] = [Idle EXCEPT !.pc = "lookup", !.dev = i,
                                              !.late = Shut(i)]]
    /\ UNCHANGED <<accounts, gates, token, cut, raced>>

\* A known installation comes back to its account; the transaction that then
\* refreshes its metadata changes nothing that is modelled.
Lookup(w) ==
    /\ At(w, "lookup")
    /\ LET i == req[w].dev IN
         IF owner[i] = None THEN Goto(w, "create")
         ELSE IF Shut(i) THEN Finish(w)
         ELSE req' = [req EXCEPT ![w].pc = "issue", ![w].user = owner[i]]
    /\ UNCHANGED <<accounts, gates, token, cut, raced>>

\* One transaction creates the user, the device and the trial.  The unique
\* installationId makes it fail when another request was faster.
CreateAccount(w) ==
    /\ At(w, "create")
    /\ LET i == req[w].dev IN
         IF owner[i] # None
         THEN Finish(w) /\ UNCHANGED accounts
         ELSE /\ users' = users \cup {i}
              /\ trials' = trials \cup {i}
              /\ owner' = [owner EXCEPT ![i] = i]
              /\ req' = [req EXCEPT ![w].pc = "issue", ![w].user = i]
    /\ UNCHANGED <<gates, token, cut, raced>>

\* Mutant: a token that was revoked is taken.
RenewableRevoked(t) ==
    /\ token[t].state # "none"
    /\ token[t].user \notin blocked
    /\ token[t].dev \notin barred

Renewable(t) ==
    /\ Live(t)
    /\ token[t].user \notin blocked
    /\ token[t].dev \notin barred

\* POST /auth/refresh reads the token, its user and its device in one query.
BeginRefresh(w, t) ==
    /\ At(w, "idle")
    /\ Renewable(t)
    /\ req' = [req EXCEPT ![w] =
                 [Idle EXCEPT !.pc = "issue", !.user = token[t].user,
                              !.dev = token[t].dev, !.from = t,
                              !.late = Shut(token[t].dev)]]
    /\ UNCHANGED <<accounts, gates, token, cut, raced>>

\* issueTokenPair creates the new token and only then revokes the old one.
IssueToken(w, t) ==
    /\ At(w, "issue")
    /\ token[t].state = "none"
    /\ token' = [token EXCEPT ![t] =
                   [state |-> "live", user |-> req[w].user, dev |-> req[w].dev,
                    from |-> req[w].from]]
    /\ IF req[w].from = None
       THEN Finish(w)
       ELSE Goto(w, "replace")
    /\ UNCHANGED <<accounts, gates, cut, raced>>

\* The update addresses the old token by its id alone.
ReplaceToken(w) ==
    /\ At(w, "replace")
    /\ token' = [token EXCEPT ![req[w].from] = Dead(@)]
    /\ Finish(w)
    /\ UNCHANGED <<accounts, gates, cut, raced>>

-----------------------------------------------------------------------------
\* Ending sessions: one updateMany each, of tokens that are not revoked.

\* A refresh has read the token and has yet to create its successor, or has
\* created one that still lives.
Carried(t) ==
    \/ \E w \in Workers : At(w, "issue") /\ req[w].from = t
    \/ \E s \in Tokens : token[s].from = t /\ Live(s)

EndTokens(T) ==
    /\ token' = [t \in Tokens |-> IF t \in T THEN Dead(token[t]) ELSE token[t]]
    /\ UNCHANGED <<accounts, gates, req, raced>>

\* POST /auth/logout with the refresh token the client has.
Logout(t) ==
    /\ Live(t)
    /\ EndTokens({t})
    /\ cut' = [cut EXCEPT ![t] = IF Carried(t) THEN "held" ELSE "ended"]

CutAll(T) ==
    cut' = [t \in Tokens |->
              IF t \notin T THEN cut[t]
              ELSE IF \E w \in Workers : At(w, "issue") /\ req[w].from = t
                   THEN "held" ELSE "ended"]

ReachedByUser(u) == {t \in Tokens : Live(t) /\ token[t].user = u}

\* POST /auth/logout-all.
LogoutAll(u) ==
    /\ u \in users
    /\ EndTokens(ReachedByUser(u))
    /\ CutAll(ReachedByUser(u))

\* POST /devices/revoke by a device of the account that owns installation i:
\* the activations go too, see ClearDevice of LicenseSlots.
RevokeDevice(i) ==
    /\ owner[i] # None
    /\ i \notin barred
    /\ LET reached == {t \in Tokens : Live(t) /\ token[t].dev = i} IN
         EndTokens(reached) /\ CutAll(reached)

Expire(t) ==
    /\ Live(t)
    /\ token' = [token EXCEPT ![t] = Dead(@)]
    /\ UNCHANGED <<accounts, gates, req, cut, raced>>

-----------------------------------------------------------------------------
\* POST /devices/register: account u adds installation j.  An installation
\* with a row is another account's, or barred, or only gets new metadata.
BeginAdd(w, u, j) ==
    /\ At(w, "idle")
    /\ u \in users
    /\ owner[j] = None
    /\ req' = [req EXCEPT ![w] = [Idle EXCEPT !.pc = "allow", !.user = u,
                                              !.dev = j]]
    /\ UNCHANGED <<accounts, gates, token, cut, raced>>

\* Mutant: the account may go one over its limit.
MayAddOneMore(r) == r.count <= r.max

MayAdd(r) == r.count < r.max

\* assertDeviceRegistrationAllowed starts two reads and compares what they
\* found when both have answered, in whichever order that is.
Compare(w, r) ==
    req' = [req EXCEPT ![w] =
              IF r.max = NotRead \/ r.count = NotRead THEN r
              ELSE IF MayAdd(r) THEN [r EXCEPT !.pc = "add"]
              ELSE Idle]

\* devices.max of getSnapshot is the max_devices of the best license that is
\* valid now, and 1 without one or when the account is blocked.  Licenses begin,
\* end and are revoked at any time, so a read may find any limit, whatever the
\* one before it found.
ReadLimit(w) ==
    /\ At(w, "allow")
    /\ req[w].max = NotRead
    /\ \E n \in IF req[w].user \in blocked THEN {1} ELSE 1..MaxLimit :
         Compare(w, [req[w] EXCEPT !.max = n])
    /\ UNCHANGED <<accounts, gates, token, cut, raced>>

CountDevices(w) ==
    /\ At(w, "allow")
    /\ req[w].count = NotRead
    /\ Compare(w, [req[w] EXCEPT !.count = Cardinality(ActiveDevices(req[w].user))])
    /\ raced' = raced \ {w}
    /\ UNCHANGED <<accounts, gates, token, cut>>

\* The other requests that have counted the devices of the same account.
Overtaken(w) ==
    {v \in Workers \ {w} : req[v].count # NotRead /\ req[v].user = req[w].user}

AddDevice(w) ==
    /\ At(w, "add")
    /\ IF owner[req[w].dev] = None
       THEN /\ owner' = [owner EXCEPT ![req[w].dev] = req[w].user]
            /\ raced' = raced \cup Overtaken(w)
       ELSE UNCHANGED <<owner, raced>>
    /\ Finish(w)
    /\ UNCHANGED <<users, trials, gates, token, cut>>

-----------------------------------------------------------------------------
\* No endpoint blocks an account or bars an installation: an operator does,
\* in the database.  revokeDeviceInstallation is kept for that day and ends
\* the sessions of the installation as well.
BlockAccount(u) ==
    /\ u \in users
    /\ Cardinality(blocked) + Cardinality(barred) < MaxShut
    /\ blocked' = blocked \cup {u}
    /\ UNCHANGED <<accounts, barred, token, req, cut, raced>>

BarInstallation(i) ==
    /\ owner[i] # None
    /\ Cardinality(blocked) + Cardinality(barred) < MaxShut
    /\ barred' = barred \cup {i}
    /\ LET reached == {t \in Tokens : Live(t) /\ token[t].dev = i} IN
         /\ token' = [t \in Tokens |->
                        IF t \in reached THEN Dead(token[t]) ELSE token[t]]
         /\ CutAll(reached)
    /\ UNCHANGED <<accounts, blocked, req, raced>>

\* The invocation ends before the request does.
Crash(w) ==
    /\ ~At(w, "idle")
    /\ Finish(w)
    /\ UNCHANGED <<accounts, gates, token, cut, raced>>

Continue(w) ==
    \/ Lookup(w)
    \/ CreateAccount(w)
    \/ \E t \in Tokens : IssueToken(w, t)
    \/ ReplaceToken(w)
    \/ ReadLimit(w)
    \/ CountDevices(w)
    \/ AddDevice(w)

Next ==
    \/ \E w \in Workers :
         \/ \E i \in Installations : BeginRegister(w, i)
         \/ \E t \in Tokens : BeginRefresh(w, t)
         \/ \E u, j \in Installations : BeginAdd(w, u, j)
         \/ Continue(w)
         \/ Crash(w)
    \/ \E t \in Tokens : Logout(t) \/ Expire(t)
    \/ \E i \in Installations :
         LogoutAll(i) \/ RevokeDevice(i) \/ BlockAccount(i) \/ BarInstallation(i)

Spec == Init /\ [][Next]_vars

-----------------------------------------------------------------------------
(* Safety.                                                                 *)

\* Two requests that register the same installation, or one that registers it
\* while an account adds it, leave no account without its device or its trial,
\* and no installation gets a second trial by way of a second account.
AccountsAreWhole ==
    /\ users = trials
    /\ \A u \in users : owner[u] = u
    /\ \A i \in Installations : owner[i] # None => owner[i] \in users

\* A logout, a logout from all devices and the revocation of a device end a
\* line of tokens for good, whatever requests come after or are half way,
\* except when a refresh had already read the token.
EndedForGood ==
    \A t \in Tokens :
        cut[t] = "ended" =>
            /\ token[t].state = "dead"
            /\ \A s \in Tokens : token[s].from = t => ~Live(s)

\* A request that begins after its account was blocked or its installation
\* barred gets no session.
NoSessionOnceShut ==
    \A w \in Workers : req[w].late => ~At(w, "create") /\ ~At(w, "issue")

\* An account that gets another device has then no more than the limit the
\* request has read, however its licenses change meanwhile, except when another
\* request added one between this one's count and its addition.  A limit that
\* falls later takes no device away.
AddsWithinLimit ==
    \A u \in users : ~(ActiveDevices(u)' \subseteq ActiveDevices(u)) =>
      \E w \in Workers :
        /\ At(w, "add") /\ ~At(w, "add")' /\ req[w].user = u
        /\ w \in raced \/ Cardinality(ActiveDevices(u)') <= req[w].max
AddedWithinLimit == [][AddsWithinLimit]_vars
=============================================================================
