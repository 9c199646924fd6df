------------------------------ MODULE ResetGate ------------------------------
(***************************************************************************)
(* What stands before a reset of data (DataReset): the page of the panel   *)
(* where an owner looks at a preview, types the phrase and the password    *)
(* and confirms, and the service that asks for a preview issued to this    *)
(* administrator for this scope and for the password of resets.            *)
(*                                                                         *)
(* Previews and wrong passwords are kept in the memory of one instance,    *)
(* which a restart empties.  The password is a row of the database.  The   *)
(* page keeps what it shows; answers may arrive when another scope is      *)
(* selected.  The phrase and the password are typed when the reset is      *)
(* confirmed: the page asks for the phrase of the selected scope, and the  *)
(* service asks for the same.  What a preview counts is told by its scope. *)
(***************************************************************************)
EXTENDS Integers, FiniteSets

CONSTANTS
    Tabs,         \* bound: the tabs of the panel
    Admins,       \* bound: the owners who use them
    Previews,     \* bound: the previews that are ever issued
    Scopes,       \* the scopes of a reset
    Passwords,    \* bound: the passwords ever typed
    Savers,       \* bound: the requests that save a password at one time
    MaxAttempts,  \* wrong passwords until the lock (5 in the code)
    None          \* no value

\* What the constants are taken to be.
ResetGateAssumption ==
    /\ MaxAttempts \in Nat \ {0}
    /\ None \notin Passwords \cup Scopes \cup Previews

VARIABLES
    credential,  \* SystemSecurityCredential.DATA_RESET: the password, or None
    preview,     \* previewTokens, by its identifier
    failed,      \* failedAttempts
    tab,         \* what the tabs show and wait for
    req,         \* the reset each tab has sent
    save         \* the passwords that are being saved

vars == <<credential, preview, failed, tab, req, save>>

Shown == [id : Previews, scope : Scopes]
Counter == [count : 0..MaxAttempts, locked : BOOLEAN]
Token == [life : {"none", "here", "gone"}, admin : Admins \cup {None},
          scope : Scopes \cup {None}]

Gone == [life |-> "gone", admin |-> None, scope |-> None]
NoReq == [pc |-> "none", scope |-> None, counted |-> None,
          password |-> None, seen |-> 0, known |-> None]
NoSave == [pc |-> "none", new |-> None]

\* A page with any scope selected.
Fresh == [admin : Admins, scope : Scopes, asked : {None}, shown : {None}]


TypeOK ==
    /\ credential \in Passwords \cup {None}
    /\ preview \in [Previews -> Token]
    /\ failed \in [Admins -> Counter]
    /\ tab \in [Tabs -> [admin : Admins, scope : Scopes,
                         asked : Scopes \cup {None},
                         shown : Shown \cup {None}]]
    /\ req \in [Tabs -> [pc : {"none", "read", "verify", "run"},
                         scope : Scopes \cup {None},
                         counted : Scopes \cup {None},
                         password : Passwords \cup {None}, seen : 0..MaxAttempts,
                         known : Passwords \cup {None}]]
    /\ save \in [Savers -> [pc : {"none", "create", "update"},
                            new : Passwords \cup {None}]]

Zero == [count |-> 0, locked |-> FALSE]

Init ==
    /\ credential \in Passwords \cup {None}
    /\ preview = [i \in Previews |-> [life |-> "none", admin |-> None, scope |-> None]]
    /\ failed = [a \in Admins |-> Zero]
    /\ tab \in [Tabs -> Fresh]
    /\ req = [t \in Tabs |-> NoReq]
    /\ save = [v \in Savers |-> NoSave]

-----------------------------------------------------------------------------
\* A definition whose comment begins with "Mutant:" is a wrong version of the
\* definition that follows it.  Nothing uses it: it stands for a bug the
\* properties must notice.

Asked(t, stage) == req[t].pc = stage
Waits(t) == tab[t].asked # None

\* The answer of a reset arrives, be it done or refused: the preview is forgotten,
\* the one that was used or a later one.
Answer(t) ==
    /\ req' = [req EXCEPT ![t] = NoReq]
    /\ tab' = [tab EXCEPT ![t].shown = None]

-----------------------------------------------------------------------------
(* The page.                                                               *)

\* Another card is pressed: the effect empties what was shown.  A preview that is
\* awaited is still awaited.
SelectScope(t, s) ==
    /\ tab[t].scope # s
    /\ tab' = [tab EXCEPT ![t].scope = s, ![t].shown = None]
    /\ UNCHANGED <<credential, preview, failed, req, save>>

AskPreview(t) ==
    /\ ~Waits(t)
    /\ tab' = [tab EXCEPT ![t].asked = tab[t].scope]
    /\ UNCHANGED <<credential, preview, failed, req, save>>

CanExecute(t) == Asked(t, "none") /\ tab[t].shown # None

-----------------------------------------------------------------------------
(* The service.                                                            *)

\* dryRun keeps the token before anything is counted; the answer is shown when it
\* arrives, under the scope that is selected by then, or it is lost.
IssuePreview(t, i) ==
    /\ Waits(t)
    /\ preview[i].life = "none"
    /\ preview' = [preview EXCEPT ![i] = [life |-> "here", admin |-> tab[t].admin,
                                          scope |-> tab[t].asked]]
    /\ \E shown \in {[id |-> i, scope |-> tab[t].asked], None} :
          tab' = [tab EXCEPT ![t].asked = None, ![t].shown = shown]
    /\ UNCHANGED <<credential, failed, req, save>>

PreviewFails(t) ==
    /\ Waits(t)
    /\ tab' = [tab EXCEPT ![t].asked = None, ![t].shown = None]
    /\ UNCHANGED <<credential, preview, failed, req, save>>

\* Ten minutes are over: the token is refused from now on, like one that is gone.
PreviewExpires(i) ==
    /\ preview[i].life = "here"
    /\ preview' = [preview EXCEPT ![i] = Gone]
    /\ UNCHANGED <<credential, failed, tab, req, save>>

\* Mutant: the scope of the preview is not compared.
FitsAnyScope(token, a, s) == token.life = "here" /\ token.admin = a

\* consumePreviewToken
Fits(token, a, s) == token.life = "here" /\ token.admin = a /\ token.scope = s

Locked(a) == failed[a].locked

\* runExecute, and execute up to the first query: the phrase of the selected scope
\* is typed, a password, and the dialog confirmed.  The token is gone whatever it
\* was.
Confirm(t, p) ==
    LET a == tab[t].admin
        i == tab[t].shown.id IN
    /\ CanExecute(t)
    /\ preview' = [preview EXCEPT ![i] = Gone]
    /\ IF Fits(preview[i], a, tab[t].scope) /\ ~Locked(a)
       THEN /\ req' = [req EXCEPT ![t] =
                 [NoReq EXCEPT !.pc = "read", !.password = p, !.seen = failed[a].count,
                    !.scope = tab[t].scope, !.counted = tab[t].shown.scope]]
            /\ UNCHANGED tab
       ELSE Answer(t)
    /\ UNCHANGED <<credential, failed, save>>

ReadCredential(t) ==
    /\ Asked(t, "read")
    /\ IF credential # None
       THEN /\ req' = [req EXCEPT ![t].pc = "verify", ![t].known = credential]
            /\ UNCHANGED tab
       ELSE Answer(t)
    /\ UNCHANGED <<credential, preview, failed, save>>

\* One more than the count that was read; it matters only up to the lock.
Counted(n) == [count |-> IF n = MaxAttempts THEN n ELSE n + 1,
               locked |-> n + 1 >= MaxAttempts]

VerifyRight(t) ==
    LET a == tab[t].admin IN
    /\ Asked(t, "verify") /\ req[t].password = req[t].known
    /\ failed' = [failed EXCEPT ![a] = Zero]
    /\ req' = [req EXCEPT ![t] = [@ EXCEPT !.pc = "run", !.password = None,
                                           !.known = None, !.seen = 0]]
    /\ UNCHANGED <<credential, preview, tab, save>>

VerifyWrong(t) ==
    LET a == tab[t].admin IN
    /\ Asked(t, "verify") /\ req[t].password # req[t].known
    /\ failed' = [failed EXCEPT ![a] = Counted(req[t].seen)]
    /\ Answer(t)
    /\ UNCHANGED <<credential, preview, save>>

\* DataReset has ended, well or not.
Answered(t) ==
    /\ Asked(t, "run")
    /\ Answer(t)
    /\ UNCHANGED <<credential, preview, failed, save>>

\* Fifteen minutes are over.  The count stays.
LockEnds(a) ==
    /\ failed[a].locked
    /\ failed' = [failed EXCEPT ![a].locked = FALSE]
    /\ UNCHANGED <<credential, preview, tab, req, save>>

SavingEnds(v) == save' = [save EXCEPT ![v] = NoSave]

\* savePassword, and setInitialResetPassword or changeResetPassword up to the write:
\* the page sends what it takes the password to be, a first one or a change.  What
\* it knows of that may be out of date, and the policy may refuse a new password.
\* Then nothing happens.
InitializePassword(v, new) ==
    /\ save[v] = NoSave /\ credential = None
    /\ save' = [save EXCEPT ![v] = [pc |-> "create", new |-> new]]
    /\ UNCHANGED <<credential, preview, failed, tab, req>>

ChangePassword(v, old, new) ==
    /\ save[v] = NoSave /\ credential = old
    /\ save' = [save EXCEPT ![v] = [pc |-> "update", new |-> new]]
    /\ UNCHANGED <<credential, preview, failed, tab, req>>

\* The type of a credential is unique.
CreatePassword(v) ==
    /\ save[v].pc = "create"
    /\ credential' = IF credential = None THEN save[v].new ELSE credential
    /\ SavingEnds(v)
    /\ UNCHANGED <<preview, failed, tab, req>>

\* The row is found by its identifier: another change is overwritten.
UpdatePassword(v) ==
    /\ save[v].pc = "update"
    /\ credential' = save[v].new
    /\ SavingEnds(v)
    /\ UNCHANGED <<preview, failed, tab, req>>

\* The instance is replaced: its memory is lost, and its requests fail.
Restart ==
    /\ preview' = [i \in Previews |->
                     IF preview[i].life = "none" THEN preview[i]
                     ELSE Gone]
    /\ failed' = [a \in Admins |-> Zero]
    /\ req' = [t \in Tabs |-> NoReq]
    /\ tab' = [t \in Tabs |-> IF Asked(t, "none") THEN tab[t]
                              ELSE [tab[t] EXCEPT !.shown = None]]
    /\ save' = [v \in Savers |-> NoSave]
    /\ UNCHANGED credential

Page(t) ==
    \/ \E s \in Scopes : SelectScope(t, s)
    \/ AskPreview(t) \/ PreviewFails(t)

Service(t) ==
    \/ \E i \in Previews : IssuePreview(t, i)
    \/ \E p \in Passwords : Confirm(t, p)
    \/ ReadCredential(t) \/ VerifyRight(t) \/ VerifyWrong(t) \/ Answered(t)

Save(v) ==
    \/ \E new \in Passwords : InitializePassword(v, new)
    \/ \E old, new \in Passwords : ChangePassword(v, old, new)
    \/ CreatePassword(v) \/ UpdatePassword(v)

Next ==
    \/ \E t \in Tabs : Page(t) \/ Service(t)
    \/ \E v \in Savers : Save(v)
    \/ \E i \in Previews : PreviewExpires(i)
    \/ \E a \in Admins : LockEnds(a)
    \/ Restart

Spec == Init /\ [][Next]_vars

-----------------------------------------------------------------------------
(* Safety.                                                                 *)

\* Nobody resets what he has not seen: the counts on the screen where a reset was
\* confirmed were those of its scope, although a preview may arrive, and be shown,
\* after another scope was selected.
ConfirmedIsPreviewed ==
    \A t \in Tabs : Asked(t, "run") => req[t].counted = req[t].scope

=============================================================================
