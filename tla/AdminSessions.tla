---------------------------- MODULE AdminSessions ----------------------------
(***************************************************************************)
(* The sessions of one administrator: the panel in several browser tabs,   *)
(* each with its own sessionStorage, and the API that issues, rotates and  *)
(* revokes refresh tokens.                                                 *)
(*                                                                         *)
(* A tab makes one call of the user at a time and has at most one refresh  *)
(* under way, which other requests of the tab (Poll) may have started.     *)
(* Access tokens are signed and have no row: they are good until they are  *)
(* stale, whatever happens to the session.                                 *)
(***************************************************************************)
EXTENDS Integers

CONSTANTS
    Tabs,       \* the tabs in which the panel is open
    Tokens,     \* bound: the AdminRefreshToken rows that may be created
    MaxChanges, \* bound: the times the password is changed
    None        \* nothing stored, nothing sent

\* What the constants are taken to be.
AdminSessionsAssumption ==
    /\ MaxChanges \in Nat
    /\ None \notin Tokens

VARIABLES
    session,  \* AdminRefreshToken rows
    password, \* the number of the current password
    store,    \* the refresh token in each sessionStorage
    access,   \* the access token in each sessionStorage
    refresh,  \* refreshPromise of each tab, with what the API has read for it
    call,     \* the user's call of each tab
    known,    \* history: the password that was entered for a session
    late,     \* history: sessions of a request overtaken by a change of it
    ended,    \* history: sessions the user ended
    lost      \* history: tokens replaced by one that never arrived

vars == <<session, password, store, access, refresh, call, known, late, ended,
          lost>>

Passwords == 0 .. MaxChanges
Kinds == {"login", "logout", "changePassword", "revokeOthers"}

NoRefresh == [pc |-> "idle", old |-> None, new |-> None, pw |-> 0]
NoCall == [pc |-> "idle", kind |-> None, body |-> None, pw |-> 0]

TokenRows == [Tokens -> {"none", "live", "revoked", "expired"}]
Stores == [Tabs -> Tokens \cup {None}]

TypeOK ==
    /\ session \in TokenRows
    /\ password \in Passwords
    /\ store \in Stores
    /\ access \in [Tabs -> {"none", "good", "stale"}]
    /\ refresh \in [Tabs -> [pc : {"idle", "sent", "create", "replace", "answer"},
                             old : Tokens \cup {None}, new : Tokens \cup {None},
                             pw : Passwords]]
    /\ call \in [Tabs -> [pc : {"idle", "waiting", "sent", "verified"},
                          kind : Kinds \cup {None}, body : Tokens \cup {None},
                          pw : Passwords]]
    /\ known \in [Tokens -> Passwords]
    /\ late \subseteq Tokens
    /\ ended \subseteq Tokens
    /\ lost \subseteq Tokens
    /\ \A t \in Tabs : (store[t] = None) = (access[t] = "none")

Init ==
    /\ session = [k \in Tokens |-> "none"]
    /\ password = 0
    /\ store = [t \in Tabs |-> None]
    /\ access = [t \in Tabs |-> "none"]
    /\ refresh = [t \in Tabs |-> NoRefresh]
    /\ call = [t \in Tabs |-> NoCall]
    /\ known = [k \in Tokens |-> 0]
    /\ late = {}
    /\ ended = {}
    /\ lost = {}

-----------------------------------------------------------------------------
\* A definition whose comment begins with "Mutant:" is a wrong version of the
\* definition that follows it.  Nothing uses it: it stands for a bug the
\* properties must notice.

Live(k) == session[k] = "live"

\* tokenStore.setTokens, tokenStore.clear
SetTokens(t, k) ==
    /\ store' = [store EXCEPT ![t] = k]
    /\ access' = [access EXCEPT ![t] = "good"]

Clear(t) ==
    /\ store' = [store EXCEPT ![t] = None]
    /\ access' = [access EXCEPT ![t] = "none"]

\* The end of some sessions at the user's wish.
End(tokens) ==
    /\ session' = [k \in Tokens |-> IF k \in tokens /\ Live(k) THEN "revoked"
                                                               ELSE session[k]]
    /\ ended' = ended \cup {k \in tokens : Live(k)}

\* A row for a session somebody gave password pw for; overtaken: the password
\* has been changed since the request read it.
Create(k, pw, overtaken) ==
    /\ session[k] = "none"
    /\ session' = [session EXCEPT ![k] = "live"]
    /\ known' = [known EXCEPT ![k] = pw]
    /\ late' = IF overtaken THEN late \cup {k} ELSE late

-----------------------------------------------------------------------------
\* POST /admin/auth/login reads the account and compares the password.
Login(t) ==
    /\ call[t] = NoCall
    /\ store[t] = None
    /\ call' = [call EXCEPT ![t] = [NoCall EXCEPT !.pc = "verified",
                                      !.kind = "login", !.pw = password]]
    /\ UNCHANGED <<session, password, store, access, refresh, known, late, ended,
                   lost>>

FinishLogin(t, k) ==
    /\ call[t].pc = "verified"
    /\ call[t].kind = "login"
    /\ Create(k, call[t].pw, call[t].pw # password)
    /\ SetTokens(t, k)
    /\ call' = [call EXCEPT ![t] = NoCall]
    /\ UNCHANGED <<password, refresh, ended, lost>>

-----------------------------------------------------------------------------
\* Mutant: each request that is refused starts a refresh of its own, which
\* overtakes the one under way.
StartAnyRefresh(t) ==
    refresh' = [refresh EXCEPT ![t] = [NoRefresh EXCEPT !.pc = "sent",
                                                        !.old = store[t]]]

\* refreshPromise: a refresh that is under way is shared.
StartRefresh(t) ==
    refresh' = IF refresh[t] = NoRefresh
               THEN [refresh EXCEPT ![t] = [NoRefresh EXCEPT !.pc = "sent",
                                                             !.old = store[t]]]
               ELSE refresh

\* A request of a page is answered with 401.
Poll(t) ==
    /\ access[t] = "stale"
    /\ StartRefresh(t)
    /\ UNCHANGED <<session, password, store, access, call, known, late, ended, lost>>

\* A call that waits for the refresh is sent again, with the body it had.
Resume(t) ==
    call' = IF call[t].pc = "waiting"
            THEN [call EXCEPT ![t].pc = "sent"] ELSE call
GiveUp(t) ==
    call' = IF call[t].pc = "waiting" THEN [call EXCEPT ![t] = NoCall] ELSE call

Refreshable(k) == Live(k)

\* POST /admin/auth/refresh looks the token up.
ReadToken(t) ==
    /\ refresh[t].pc = "sent"
    /\ Refreshable(refresh[t].old)
    /\ refresh' = [refresh EXCEPT ![t].pc = "create", ![t].pw = password]
    /\ UNCHANGED <<session, password, store, access, call, known, late, ended, lost>>

\* An answer that is no success clears the store.  Here it is 401: the token is not
\* live.
RefuseToken(t) ==
    /\ refresh[t].pc = "sent"
    /\ ~Refreshable(refresh[t].old)
    /\ refresh' = [refresh EXCEPT ![t] = NoRefresh]
    /\ Clear(t)
    /\ GiveUp(t)
    /\ UNCHANGED <<session, password, known, late, ended, lost>>

\* issueTokenPair creates the new row whatever has become of the old one.
CreateToken(t, k) ==
    /\ refresh[t].pc = "create"
    /\ Create(k, known[refresh[t].old],
              refresh[t].pw # password \/ refresh[t].old \in late)
    /\ refresh' = [refresh EXCEPT ![t].pc = "replace", ![t].new = k]
    /\ UNCHANGED <<password, store, access, call, ended, lost>>

ReplaceToken(t) ==
    /\ refresh[t].pc = "replace"
    /\ session' = [session EXCEPT ![refresh[t].old] = "revoked"]
    /\ refresh' = [refresh EXCEPT ![t].pc = "answer"]
    /\ UNCHANGED <<password, store, access, call, known, late, ended, lost>>

\* The tab stores the new pair.
AnswerRefresh(t) ==
    /\ refresh[t].pc = "answer"
    /\ SetTokens(t, refresh[t].new)
    /\ refresh' = [refresh EXCEPT ![t] = NoRefresh]
    /\ Resume(t)
    /\ UNCHANGED <<session, password, known, late, ended, lost>>

\* The API has taken the token, or would.
Accepted(t) ==
    \/ refresh[t].pc \in {"create", "replace", "answer"}
    \/ refresh[t].pc = "sent" /\ Refreshable(refresh[t].old)

\* The answer is another one that is no success: 403 for an inactive administrator,
\* 429 of the throttle, 500, 502 or 504, wherever the request has come to.
FailRefresh(t) ==
    /\ Accepted(t)
    /\ refresh' = [refresh EXCEPT ![t] = NoRefresh]
    /\ Clear(t)
    /\ GiveUp(t)
    /\ UNCHANGED <<session, password, known, late, ended, lost>>

\* There is no answer, or it cannot be read: the promise is rejected, the store stays.
LoseRefresh(t) ==
    /\ refresh[t] # NoRefresh
    /\ lost' = IF refresh[t].pc = "answer" THEN lost \cup {refresh[t].old} ELSE lost
    /\ refresh' = [refresh EXCEPT ![t] = NoRefresh]
    /\ GiveUp(t)
    /\ UNCHANGED <<session, password, store, access, known, late, ended>>

-----------------------------------------------------------------------------
\* The user logs out, changes the password or ends the other sessions: the
\* body of the request is made now.
Call(t, kind) ==
    /\ call[t] = NoCall
    /\ kind # "login"
    /\ store[t] # None
    /\ kind = "changePassword" => password < MaxChanges
    /\ LET pc == IF access[t] = "good" THEN "sent" ELSE "waiting"
           body == IF kind = "changePassword" THEN None ELSE store[t]
       IN  call' = [call EXCEPT ![t] = [NoCall EXCEPT !.pc = pc, !.kind = kind,
                                                      !.body = body]]
    /\ IF access[t] = "good" THEN UNCHANGED refresh ELSE StartRefresh(t)
    /\ UNCHANGED <<session, password, store, access, known, late, ended, lost>>

Serves(t, kind) == call[t].pc = "sent" /\ call[t].kind = kind

ServeLogout(t) ==
    /\ Serves(t, "logout")
    /\ End({call[t].body})
    /\ Clear(t)
    /\ call' = [call EXCEPT ![t] = NoCall]
    /\ UNCHANGED <<password, refresh, known, late, lost>>

\* changePassword reads the account and compares the password given.
VerifyPassword(t) ==
    /\ Serves(t, "changePassword")
    /\ password < MaxChanges
    /\ call' = [call EXCEPT ![t].pc = "verified"]
    /\ UNCHANGED <<session, password, store, access, refresh, known, late, ended,
                   lost>>

\* Mutant: the sessions stay.
EndNone == UNCHANGED <<session, ended>>

EndAll == End(Tokens)

\* One transaction writes the password and ends every session.
ChangePassword(t) ==
    /\ call[t].pc = "verified"
    /\ call[t].kind = "changePassword"
    /\ password < MaxChanges
    /\ password' = password + 1
    /\ EndAll
    /\ Clear(t)
    /\ call' = [call EXCEPT ![t] = NoCall]
    /\ UNCHANGED <<refresh, known, late, lost>>

RevokeOthers(t) ==
    /\ Serves(t, "revokeOthers")
    /\ End(Tokens \ {call[t].body})
    /\ call' = [call EXCEPT ![t] = NoCall]
    /\ UNCHANGED <<password, store, access, refresh, known, late, lost>>

\* The API or the connection fails: the tab shows an error, the store stays.
LoseCall(t) ==
    /\ call[t].pc \in {"sent", "verified"}
    /\ call' = [call EXCEPT ![t] = NoCall]
    /\ UNCHANGED <<session, password, store, access, refresh, known, late, ended,
                   lost>>

\* A page that is opened asks for the profile first: whatever the reason for
\* which that fails, the store is cleared.
LoadFails(t) ==
    /\ call[t] = NoCall
    /\ refresh[t] = NoRefresh
    /\ store[t] # None
    /\ Clear(t)
    /\ UNCHANGED <<session, password, refresh, call, known, late, ended, lost>>

-----------------------------------------------------------------------------
AccessExpires(t) ==
    /\ access[t] = "good"
    /\ access' = [access EXCEPT ![t] = "stale"]
    /\ UNCHANGED <<session, password, store, refresh, call, known, late, ended, lost>>

Expire(k) ==
    /\ Live(k)
    /\ session' = [session EXCEPT ![k] = "expired"]
    /\ UNCHANGED <<password, store, access, refresh, call, known, late, ended, lost>>

Refresh(t) ==
    \/ Poll(t)
    \/ ReadToken(t)
    \/ RefuseToken(t)
    \/ FailRefresh(t)
    \/ \E k \in Tokens : CreateToken(t, k)
    \/ ReplaceToken(t)
    \/ AnswerRefresh(t)
    \/ LoseRefresh(t)

UserCall(t) ==
    \/ Login(t)
    \/ \E k \in Tokens : FinishLogin(t, k)
    \/ \E kind \in Kinds : Call(t, kind)
    \/ ServeLogout(t)
    \/ VerifyPassword(t)
    \/ ChangePassword(t)
    \/ RevokeOthers(t)
    \/ LoseCall(t)
    \/ LoadFails(t)

Next ==
    \/ \E t \in Tabs : Refresh(t) \/ UserCall(t) \/ AccessExpires(t)
    \/ \E k \in Tokens : Expire(k)

Spec == Init /\ [][Next]_vars

-----------------------------------------------------------------------------
(* Safety.                                                                 *)

\* After the password is changed, whoever has a session has entered the new
\* one: of the old sessions only those live on whose login or refresh had
\* looked at the account before the change.
PasswordChangeEndsAll ==
    \A k \in Tokens : Live(k) => known[k] = password \/ k \in late

\* The panel drops a session it did not ask to end only when the token it sent
\* was ended by the user, expired, or was replaced by one that never arrived, when
\* the API answered the refresh of a token it takes with an error, or when a page
\* just opened cannot show the profile.  However many requests of a page are refused
\* at once, and whatever the other tabs do, they do not get a token refused.
DropsSessionForReason ==
    \A t \in Tabs : store[t] # None /\ store'[t] = None =>
        \/ call[t].kind \in {"logout", "changePassword"} /\ call'[t] = NoCall
        \/ refresh[t].old \in ended \cup lost
        \/ refresh[t] # NoRefresh /\ session[refresh[t].old] = "expired"
        \/ Accepted(t)
        \/ refresh[t] = NoRefresh /\ call[t] = NoCall
SessionsAreNotDropped == [][DropsSessionForReason]_vars

=============================================================================
