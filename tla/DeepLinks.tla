------------------------------ MODULE DeepLinks ------------------------------
(***************************************************************************)
(* A Telegram user opens links of the application, site or panel: each is  *)
(* a /start with a payload.  The bot answers nobody without a language: it *)
(* keeps the link in the one TelegramBotSession row of the user and asks,  *)
(* and the handler of the language button takes the link from there.       *)
(* Handlers make a call at a time, the next update is delivered meanwhile, *)
(* and all of them write that row.                                         *)
(*                                                                         *)
(* What a link leads to is in TelegramAccess, LicenseSlots and BotChats.   *)
(***************************************************************************)
EXTENDS Integers

CONSTANTS
    Links,    \* bound: the links the user opens, each once: of authentication, of a
              \* license, of a replacement, ...
    Android,  \* those that only open a screen: buying or support
    Workers,  \* bound: the updates in progress at one time
    None      \* "no link"

DeepLinksAssumption ==
    /\ Android \subseteq Links
    /\ {None, "none", "nav"} \cap Links = {}

VARIABLES
    account,  \* the TelegramAccount row: missing, without a language, with one
    session,  \* the TelegramBotSession row: no row, another flow, or a deferred link
    req,      \* the updates in progress
    opened,   \* history: the links that were opened
    answered, \* history: how often a link was answered, 2 for more
    given,    \* history: the links given up for one of the known reasons
    doubled   \* history: links two handlers have taken from the session at once

vars == <<account, session, req, opened, answered, given, doubled>>

AccountRow == {"none", "new", "ready"}
Sessions == {"none", "nav"} \cup Links
Idle == [pc |-> "idle", link |-> None]
Stages == {"idle", "find", "create", "defer", "answer", "press", "createFirst", "choose",
           "context", "check", "clear", "goHome", "leave"}

TypeOK ==
    /\ account \in AccountRow
    /\ session \in Sessions
    /\ req \in [Workers -> [pc : Stages, link : Links \cup {None}]]
    /\ opened \subseteq Links
    /\ answered \in [Links -> 0..2]
    /\ given \subseteq Links
    /\ doubled \subseteq Links

Init ==
    /\ account \in AccountRow
    /\ session = "none"
    /\ req = [w \in Workers |-> Idle]
    /\ opened = {}
    /\ answered = [l \in Links |-> 0]
    /\ given = {}
    /\ doubled = {}

-----------------------------------------------------------------------------
\* A definition whose comment begins with "Mutant:" is a wrong version of the
\* definition that follows it.  Nothing uses it: it stands for a bug the
\* properties must notice.

At(w, stage) == req[w].pc = stage
Goto(w, stage) == req' = [req EXCEPT ![w].pc = stage]
Finish(w) == req' = [req EXCEPT ![w] = Idle]

\* A handler writes the row: a link that was there is given up.
SetSession(s) == session' = s /\ given' = given \cup ({session} \cap Links)

\* It deletes the row because of what it has read there, the last argument: what
\* has come since is given up too.
Delete(read) ==
    /\ session' = "none"
    /\ given' = IF session = read THEN given ELSE given \cup ({session} \cap Links)

\* A request ends without an answer to its link.
GiveUp(w) == given' = IF session = req[w].link THEN given
                      ELSE given \cup ({req[w].link} \cap Links)

Tables == <<account, session>>
Told == <<opened, answered, given, doubled>>

\* handleStart finds a payload.
OpenLink(w, l) ==
    /\ At(w, "idle") /\ l \notin opened
    /\ opened' = opened \cup {l}
    /\ req' = [req EXCEPT ![w] = [Idle EXCEPT !.pc = "find", !.link = l]]
    /\ UNCHANGED <<Tables, answered, given, doubled>>

\* resolveTelegramUser finds the account, or creates it in a transaction that
\* the unique index ends when another update was faster.  Whether there is a
\* language is known from now on.
FindAccount(w) ==
    /\ At(w, "find")
    /\ Goto(w, CASE account = "none" -> "create"
                 [] account = "new" -> "defer"
                 [] account = "ready" -> "answer")
    /\ UNCHANGED <<Tables, Told>>

CreateAccount(w) ==
    /\ At(w, "create")
    /\ IF account = "none"
       THEN account' = "new" /\ Goto(w, "defer") /\ UNCHANGED given
       ELSE UNCHANGED account /\ Finish(w) /\ GiveUp(w)
    /\ UNCHANGED <<session, opened, answered, doubled>>

\* Mutant: the link is not kept when another flow goes on.
DeferredUnlessBusy(l) == IF session = "nav" THEN session ELSE l

Deferred(l) == l

\* requireLanguageOrPrompt keeps the link and asks for the language.
DeferLink(w) ==
    /\ At(w, "defer")
    /\ SetSession(Deferred(req[w].link))
    /\ Finish(w)
    /\ UNCHANGED <<account, opened, answered, doubled>>

Answer(w) ==
    /\ At(w, "answer")
    /\ answered' = [answered EXCEPT ![req[w].link] = IF @ = 2 THEN 2 ELSE @ + 1]
    /\ Finish(w)
    /\ UNCHANGED <<account, opened, doubled>>

\* The link is answered: by a code,
SendCode(w) ==
    /\ Answer(w)
    /\ req[w].link \notin Android
    /\ UNCHANGED <<session, given>>

\* by a prompt with a button to confirm,
AskToConfirm(w) ==
    /\ Answer(w)
    /\ req[w].link \notin Android
    /\ UNCHANGED <<session, given>>

\* or by a screen that may start a flow of its own.
ShowScreen(w) ==
    /\ Answer(w)
    /\ req[w].link \in Android
    /\ (UNCHANGED <<session, given>> \/ SetSession("nav"))

-----------------------------------------------------------------------------
\* A button of language, of any message that offers it.
PressLanguage(w) ==
    /\ At(w, "idle")
    /\ Goto(w, "press")
    /\ UNCHANGED <<Tables, Told>>

FindPressing(w) ==
    /\ At(w, "press")
    /\ Goto(w, IF account = "none" THEN "createFirst" ELSE "choose")
    /\ UNCHANGED <<Tables, Told>>

CreatePressing(w) ==
    /\ At(w, "createFirst")
    /\ IF account = "none" THEN account' = "new" /\ Goto(w, "choose")
       ELSE UNCHANGED account /\ Finish(w)
    /\ UNCHANGED <<session, Told>>

SetLanguage(w) ==
    /\ At(w, "choose")
    /\ account' = "ready"
    /\ Goto(w, "context")
    /\ UNCHANGED <<session, Told>>

\* resumeDeferredContext reads the link,
ReadContext(w) ==
    /\ At(w, "context")
    /\ IF session \in Links
       THEN /\ req' = [req EXCEPT ![w] = [pc |-> "check", link |-> session]]
            /\ doubled' = IF \E v \in Workers \ {w} : /\ req[v].pc \in {"check", "clear"}
                                                      /\ req[v].link = session
                          THEN doubled \cup {session} ELSE doubled
       ELSE Finish(w) /\ UNCHANGED doubled
    /\ UNCHANGED <<Tables, opened, answered, given>>

Resume(l) == IF l \in Android THEN "answer" ELSE "find"

\* Mutant: the context stays.
FlowStays(s) == FALSE

\* clearDeferredContext: the row is read again,
FlowIsDeferred(s) == s \in Links

CheckContext(w) ==
    /\ At(w, "check")
    /\ Goto(w, IF FlowIsDeferred(session) THEN "clear" ELSE Resume(req[w].link))
    /\ UNCHANGED <<Tables, Told>>

\* and deleted, whatever it holds by now; then the link is opened anew.  A link
\* that came since the first read is lost.
ClearContext(w) ==
    /\ At(w, "clear")
    /\ Delete(req[w].link)
    /\ Goto(w, Resume(req[w].link))
    /\ UNCHANGED <<account, opened, answered, doubled>>

-----------------------------------------------------------------------------
\* Meanwhile: the menus and commands work without a language.  Buying and support
\* write the row, and /stop deletes it;
Navigate ==
    /\ account # "none"
    /\ \E s \in {"nav", "none"} : SetSession(s)
    /\ UNCHANGED <<account, req, opened, answered, doubled>>

\* the main menu ends such a flow, clearTransientNav, and no other;
GoHome(w) ==
    /\ At(w, "idle") /\ account # "none"
    /\ Goto(w, "goHome")
    /\ UNCHANGED <<Tables, Told>>

ReadFlow(w) ==
    /\ At(w, "goHome")
    /\ IF session = "nav" THEN Goto(w, "leave") ELSE Finish(w)
    /\ UNCHANGED <<Tables, Told>>

LeaveFlow(w) ==
    /\ At(w, "leave")
    /\ Delete("nav")
    /\ Finish(w)
    /\ UNCHANGED <<account, opened, answered, doubled>>

\* the row expires;
Expire ==
    /\ session # "none"
    /\ SetSession("none")
    /\ UNCHANGED <<account, req, opened, answered, doubled>>

\* an invocation is ended, and Telegram's second delivery of the update finds it
\* claimed.
Crash(w) ==
    /\ ~At(w, "idle")
    /\ Finish(w)
    /\ GiveUp(w)
    /\ UNCHANGED <<Tables, opened, answered, doubled>>

Next ==
    \/ \E w \in Workers, l \in Links : OpenLink(w, l)
    \/ \E w \in Workers : FindAccount(w) \/ CreateAccount(w) \/ DeferLink(w)
    \/ \E w \in Workers : SendCode(w) \/ AskToConfirm(w) \/ ShowScreen(w)
    \/ \E w \in Workers : PressLanguage(w) \/ FindPressing(w) \/ CreatePressing(w)
    \/ \E w \in Workers : SetLanguage(w) \/ ReadContext(w) \/ CheckContext(w) \/ ClearContext(w)
    \/ \E w \in Workers : GoHome(w) \/ ReadFlow(w) \/ LeaveFlow(w) \/ Crash(w)
    \/ Navigate \/ Expire

Spec == Init /\ [][Next]_vars

-----------------------------------------------------------------------------
\* Safety.

Answered == {l \in Links : answered[l] > 0}
OnItsWay == {req[w].link : w \in Workers} \cup {session}

\* Every link that was opened is answered, on its way, or kept for the language:
\* it is lost only with a crash, to a later flow in the same row, to /stop, to
\* time, or to a handler that had read the row before the link was there.
NoLinkIsForgotten ==
    opened \subseteq Answered \cup given \cup OnItsWay

\* A link is answered once, however often a language is chosen, unless two
\* handlers of the button have taken it at one time.
AnsweredOnce ==
    \A l \in Links : answered[l] > 1 => l \in doubled
=============================================================================
