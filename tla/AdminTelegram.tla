---------------------------- MODULE AdminTelegram ----------------------------
(***************************************************************************)
(* Which Telegram users administer the bot.  An administrator of the panel *)
(* binds a Telegram user by a link code that the user sends to the bot, or *)
(* by a rebind challenge: the user opens a deep link, is sent a code, and  *)
(* the administrator enters it in the panel.  Users that were bound once   *)
(* are on a deny list.  isTelegramAdmin decides with three queries.        *)
(*                                                                         *)
(* Passwords and what an authorized user then does are left out.           *)
(***************************************************************************)
EXTENDS Integers

CONSTANTS
    Admins,     \* the administrators of the panel
    Users,      \* the Telegram users
    EnvIds,     \* ADMIN_TELEGRAM_IDS
    Codes,      \* bound: the AdminTelegramLinkToken rows
    Challenges, \* bound: the AdminTelegramRebindChallenge rows
    Workers,    \* bound: the requests in progress at one time
    None        \* SQL NULL, "no value"

\* What the constants are taken to be.
AdminTelegramAssumption ==
    /\ EnvIds \subseteq Users
    /\ None \notin Admins \cup Users \cup Codes \cup Challenges

VARIABLES
    identity,  \* AdminTelegramIdentity rows, by their unique adminUserId
    deny,      \* AdminTelegramRevokedId rows
    code,      \* AdminTelegramLinkToken rows
    challenge, \* AdminTelegramRebindChallenge rows
    req,       \* the requests in progress
    proven,    \* history: <<a, u>>: u sent a link code of a to the bot, or a
               \* entered in the panel a code that was sent to u
    stale      \* history: users denied by a request that knew an older row

vars == <<identity, deny, code, challenge, req, proven, stale>>
proofs == <<proven, stale>>

NoIdentity == [user |-> None, active |-> FALSE]
\* A row is closed by usedAt, consumedAt or time, and not read any more.
NoCode == [admin |-> None, state |-> "none"]
ClosedCode == [NoCode EXCEPT !.state = "closed"]
NoChallenge == [admin |-> None, state |-> "none", user |-> None]
ClosedChallenge == [NoChallenge EXCEPT !.state = "closed"]
Idle == [pc |-> "idle", admin |-> None, user |-> None, old |-> None, on |-> None,
         was |-> FALSE, granted |-> FALSE]

Stages == {"idle", "link", "linkTx", "bind", "verify", "verifyTx", "disconnect",
           "count", "identity", "done"}

IdentityRows == [Admins -> [user : Users \cup {None}, active : BOOLEAN]]
DeniedRows == SUBSET Users
CodeRows == [Codes -> [admin : Admins \cup {None}, state : {"none", "open", "closed"}]]
ChallengeRows ==
    [Challenges -> [admin : Admins \cup {None}, user : Users \cup {None},
                    state : {"none", "open", "closed"}]]

TypeOK ==
    /\ identity \in IdentityRows
    /\ deny \in DeniedRows
    /\ code \in CodeRows
    /\ challenge \in ChallengeRows
    /\ req \in [Workers ->
                  [pc : Stages, admin : Admins \cup {None}, user : Users \cup {None},
                   old : Users \cup {None}, on : Codes \cup Challenges \cup {None},
                   was : BOOLEAN, granted : BOOLEAN]]
    /\ proven \subseteq Admins \X Users
    /\ stale \subseteq Users
    /\ \A a, b \in Admins : identity[a].user = identity[b].user =>
           a = b \/ identity[a].user = None

Init ==
    /\ identity = [a \in Admins |-> NoIdentity]
    /\ deny = {}
    /\ code = [k \in Codes |-> NoCode]
    /\ challenge = [c \in Challenges |-> NoChallenge]
    /\ req = [w \in Workers |-> Idle]
    /\ proven = {}
    /\ stale = {}

-----------------------------------------------------------------------------
\* A definition whose comment begins with "Mutant:" is a wrong version of the
\* definition that follows it.  Nothing uses it: it stands for a bug the
\* properties must notice.

At(w, stage) == req[w].pc = stage
ActiveIn(ids, u) == \E a \in Admins : ids[a].active /\ ids[a].user = u

\* Mutant: only active bindings count.
InitializedByActive(ids, denied) == \E a \in Admins : ids[a].active

\* isTelegramAdminManagementInitialized: an identity or a denied id exists.
Initialized(ids, denied) ==
    (\E a \in Admins : ids[a].user # None) \/ denied # {}

\* What isTelegramAdmin would answer if its queries saw one state.
Authority(ids, denied, u) ==
    /\ u \notin denied
    /\ IF (\E a \in Admins : ids[a].user # None) \/ denied # {}
       THEN ActiveIn(ids, u) ELSE u \in EnvIds

\* Whether each check under way has seen a state in which its user was right.
Witness(reqs) ==
    [w \in Workers |->
       IF reqs[w].pc \in {"count", "identity", "done"}
       THEN [reqs[w] EXCEPT !.was = @ \/ Authority(identity', deny', reqs[w].user)]
       ELSE reqs[w]]
Set(w, r) == req' = Witness([req EXCEPT ![w] = r])
Goto(w, stage) == Set(w, [req[w] EXCEPT !.pc = stage])
Finish(w) == Set(w, Idle)

\* The indexes on the Telegram user of identities and of administrators: a row
\* keeps its user when it is revoked.
UserFree(a, u) == \A b \in Admins \ {a} : identity[b].user # u

DenyOld(u, old) == (deny \cup ({old} \ {None, u})) \ {u}

\* The statements both transactions that bind share: deny the old user, bind
\* the new one, take it off the deny list.
Bind(a, u, old) ==
    /\ UserFree(a, u)
    /\ identity' = [identity EXCEPT ![a] = [user |-> u, active |-> TRUE]]
    /\ deny' = DenyOld(u, old)
    /\ stale' = (stale \cup ({old} \ {None, u, identity[a].user})) \ {u}

-----------------------------------------------------------------------------
\* createConnectToken
CreateCode(k, a) ==
    /\ code[k].state = "none"
    /\ code' = [code EXCEPT ![k] = [admin |-> a, state |-> "open"]]
    /\ UNCHANGED <<identity, deny, challenge, req, proofs>>

\* User u sends the code to the bot: tryCompleteLinkFromBot reads it.
SendCode(w, k, u) ==
    /\ At(w, "idle")
    /\ code[k].state = "open"
    /\ UNCHANGED <<identity, deny, code, challenge, proofs>>
    /\ Set(w, [Idle EXCEPT !.pc = "link", !.admin = code[k].admin, !.user = u,
                           !.on = k])

\* The identity the administrator has now.
ReadIdentityForLink(w) ==
    /\ At(w, "link")
    /\ UNCHANGED <<identity, deny, code, challenge, proofs>>
    /\ Set(w, [req[w] EXCEPT !.pc = "linkTx",
                             !.old = identity[req[w].admin].user])

\* The transaction marks the code by its id and binds.
LinkUser(w) ==
    /\ At(w, "linkTx")
    /\ Bind(req[w].admin, req[w].user, req[w].old)
    /\ code' = [code EXCEPT ![req[w].on] = ClosedCode]
    /\ proven' = proven \cup {<<req[w].admin, req[w].user>>}
    /\ Finish(w)
    /\ UNCHANGED challenge

-----------------------------------------------------------------------------
\* startTelegramRebind
StartRebind(c, a) ==
    /\ challenge[c].state = "none"
    /\ challenge' = [challenge EXCEPT ![c] = [admin |-> a, state |-> "open",
                                              user |-> None]]
    /\ UNCHANGED <<identity, deny, code, req, proofs>>

\* User u opens the deep link: tryIssueRebindOtpFromBot reads the challenge,
OpenRebind(w, c, u) ==
    /\ At(w, "idle")
    /\ challenge[c].state = "open"
    /\ UNCHANGED <<identity, deny, code, challenge, proofs>>
    /\ Set(w, [Idle EXCEPT !.pc = "bind", !.user = u, !.on = c])

\* and writes user and code by its id; the code is sent to u.
IssueOtp(w) ==
    /\ At(w, "bind")
    /\ challenge' = [challenge EXCEPT ![req[w].on].user =
                        IF challenge[req[w].on].state = "open"
                        THEN req[w].user ELSE None]
    /\ UNCHANGED <<identity, deny, code, proofs>>
    /\ Finish(w)

\* The administrator enters the code that u was sent: verifyTelegramRebind
\* finds the challenge with it.  Codes are random: only the latest one of the
\* challenge, which was sent to the user it names, is right.
EnterOtp(w, c) ==
    /\ At(w, "idle")
    /\ challenge[c].state = "open"
    /\ challenge[c].user # None
    /\ proven' = proven \cup {<<challenge[c].admin, challenge[c].user>>}
    /\ UNCHANGED <<identity, deny, code, challenge, stale>>
    /\ Set(w, [Idle EXCEPT !.pc = "verify", !.admin = challenge[c].admin,
                           !.user = challenge[c].user, !.on = c])

ReadIdentityForRebind(w) ==
    /\ At(w, "verify")
    /\ UNCHANGED <<identity, deny, code, challenge, proofs>>
    /\ Set(w, [req[w] EXCEPT !.pc = "verifyTx",
                             !.old = identity[req[w].admin].user])

\* Mutant: the user the challenge names by now is bound.
NewUserNow(w) == challenge[req[w].on].user

NewUser(w) == req[w].user

RebindUser(w) ==
    /\ At(w, "verifyTx")
    /\ Bind(req[w].admin, NewUser(w), req[w].old)
    /\ challenge' = [challenge EXCEPT ![req[w].on] = ClosedChallenge]
    /\ Finish(w)
    /\ UNCHANGED <<code, proven>>

-----------------------------------------------------------------------------
\* disconnectTelegram reads the identity,
BeginDisconnect(w, a) ==
    /\ At(w, "idle")
    /\ identity[a].active
    /\ UNCHANGED <<identity, deny, code, challenge, proofs>>
    /\ Set(w, [Idle EXCEPT !.pc = "disconnect", !.admin = a,
                           !.old = identity[a].user])

\* and one transaction revokes the row of the administrator and denies the user
\* that was read.
Disconnect(w) ==
    /\ At(w, "disconnect")
    /\ identity' = [identity EXCEPT ![req[w].admin].active = FALSE]
    /\ deny' = deny \cup {req[w].old}
    /\ stale' = stale \cup ({req[w].old} \ {identity[req[w].admin].user})
    /\ Finish(w)
    /\ UNCHANGED <<code, challenge, proven>>

-----------------------------------------------------------------------------
\* A message or a button of user u that needs authority: isTelegramAdmin.
CheckDenied(w, u) ==
    /\ At(w, "idle")
    /\ IF u \in deny
       THEN UNCHANGED <<identity, deny, req>>
       ELSE /\ UNCHANGED <<identity, deny>>
            /\ Set(w, [Idle EXCEPT !.pc = "count", !.user = u])
    /\ UNCHANGED <<code, challenge, proofs>>

CountRows(w) ==
    /\ At(w, "count")
    /\ UNCHANGED <<identity, deny, code, challenge, proofs>>
    /\ IF Initialized(identity, deny)
       THEN Goto(w, "identity")
       ELSE Set(w, [req[w] EXCEPT !.pc = "done", !.granted = req[w].user \in EnvIds])

FindIdentity(w) ==
    /\ At(w, "identity")
    /\ UNCHANGED <<identity, deny, code, challenge, proofs>>
    /\ Set(w, [req[w] EXCEPT !.pc = "done",
                             !.granted = ActiveIn(identity, req[w].user)])

EndCheck(w) ==
    /\ At(w, "done")
    /\ UNCHANGED <<identity, deny, code, challenge, proofs>>
    /\ Finish(w)

-----------------------------------------------------------------------------
ExpireCode(k) ==
    /\ code[k].state = "open"
    /\ code' = [code EXCEPT ![k] = ClosedCode]
    /\ UNCHANGED <<identity, deny, challenge, req, proofs>>

ExpireRebind(c) ==
    /\ challenge[c].state = "open"
    /\ challenge' = [challenge EXCEPT ![c] = ClosedChallenge]
    /\ UNCHANGED <<identity, deny, code, req, proofs>>

\* The invocation ends before the request does, or a query of it fails.
Crash(w) ==
    /\ ~At(w, "idle")
    /\ UNCHANGED <<identity, deny, code, challenge, proofs>>
    /\ Finish(w)

Ask(w) ==
    \/ \E k \in Codes, u \in Users : SendCode(w, k, u)
    \/ \E c \in Challenges, u \in Users : OpenRebind(w, c, u)
    \/ \E c \in Challenges : EnterOtp(w, c)
    \/ \E a \in Admins : BeginDisconnect(w, a)
    \/ \E u \in Users : CheckDenied(w, u)

Serve(w) ==
    \/ ReadIdentityForLink(w)
    \/ LinkUser(w)
    \/ IssueOtp(w)
    \/ ReadIdentityForRebind(w)
    \/ RebindUser(w)
    \/ Disconnect(w)
    \/ CountRows(w)
    \/ FindIdentity(w)
    \/ EndCheck(w)

Next ==
    \/ \E w \in Workers : Ask(w) \/ Serve(w) \/ Crash(w)
    \/ \E k \in Codes, a \in Admins : CreateCode(k, a)
    \/ \E c \in Challenges, a \in Admins : StartRebind(c, a)
    \/ \E k \in Codes : ExpireCode(k)
    \/ \E c \in Challenges : ExpireRebind(c)

Spec == Init /\ [][Next]_vars

-----------------------------------------------------------------------------
(* Safety.                                                                 *)

\* Whoever is bound sent a link code of that administrator to the bot, or was
\* sent the code the administrator entered: users that open one deep link at
\* the same time are not taken for each other.  And he is not on the deny list,
\* unless a request denied him for an administrator whose binding had changed
\* since it was read.
BoundIsProven ==
    \A a \in Admins : identity[a].active =>
        /\ <<a, identity[a].user>> \in proven
        /\ identity[a].user \notin deny \ stale

\* Three queries, with changes between them, never grant what no single state
\* would have: the ids of the environment are not asked again once anybody was
\* bound, and nobody slips through between the deny list and the bindings.
GrantWasRight == \A w \in Workers : req[w].granted => req[w].was

=============================================================================
