------------------------------- MODULE MCPanel -------------------------------
(***************************************************************************)
(* The sessions of the panel, the Telegram accounts of administrators, the *)
(* support the bot relays, and the page of resets share no state: the      *)
(* initial state chooses which of the four runs, and the variables of the  *)
(* others stay None.                                                       *)
(***************************************************************************)
EXTENDS TLC

CONSTANTS
    Tabs, Tokens, MaxChanges,
    Admins, Users, EnvIds, Codes, Challenges, Workers,
    MaxIds, MaxPrompts, MaxTexts, MaxAttempts,
    None

VARIABLES
    part,
    session, password, store, access, refresh, call, known, late, ended, lost,
    identity, deny, code, challenge, req, proven, stale,
    asked, answered, active, chat, mapping, prompt, update,
    opened, sent, about, shared, strayed,
    credential, preview, failed, tab, reset, save

S == INSTANCE AdminSessions
T == INSTANCE AdminTelegram

\* Every customer has one conversation, and gives it its name.
Owner == [v \in Codes |-> v]
R == INSTANCE SupportRelay WITH Customers <- Codes, Convs <- Codes

\* One owner, whose user is the one of the environment.  The model values of other
\* parts stand for passwords, previews and scopes as well.
G == INSTANCE ResetGate WITH
       Admins <- EnvIds, Previews <- Workers, Passwords <- Tabs, Scopes <- Codes,
       Savers <- Challenges, req <- reset

ASSUME ResetAssumption == G!ResetGateAssumption
ASSUME SessionsAssumption == S!AdminSessionsAssumption
ASSUME TelegramAssumption == T!AdminTelegramAssumption
ASSUME SupportAssumption == R!SupportRelayAssumption

sessionVars == <<session, password, store, access, refresh, call, known, late,
                 ended, lost>>
telegramVars == <<identity, deny, code, challenge, req, proven, stale>>
supportVars == <<asked, answered, active, chat, mapping, prompt, update, opened,
                 sent, about, shared, strayed>>
resetVars == <<credential, preview, failed, tab, reset, save>>
allVars == <<part, sessionVars, telegramVars, supportVars, resetVars>>

NoSessions ==
    /\ session = None /\ password = None /\ store = None /\ access = None
    /\ refresh = None /\ call = None /\ known = None /\ late = None
    /\ ended = None /\ lost = None
NoTelegram ==
    /\ identity = None /\ deny = None /\ code = None /\ challenge = None
    /\ req = None /\ proven = None /\ stale = None
NoSupport ==
    /\ asked = None /\ answered = None /\ active = None /\ chat = None
    /\ mapping = None /\ prompt = None /\ update = None /\ opened = None
    /\ sent = None /\ about = None /\ shared = None /\ strayed = None

NoReset ==
    /\ credential = None /\ preview = None /\ failed = None /\ tab = None
    /\ reset = None /\ save = None

Init ==
    \/ part = "sessions" /\ S!Init /\ NoTelegram /\ NoSupport /\ NoReset
    \/ part = "telegram" /\ T!Init /\ NoSessions /\ NoSupport /\ NoReset
    \/ part = "support" /\ R!Init /\ NoSessions /\ NoTelegram /\ NoReset
    \/ part = "reset" /\ G!Init /\ NoSessions /\ NoTelegram /\ NoSupport

Next ==
    /\ UNCHANGED part
    /\ \/ /\ part = "sessions" /\ S!Next
          /\ UNCHANGED <<telegramVars, supportVars, resetVars>>
       \/ /\ part = "telegram" /\ T!Next
          /\ UNCHANGED <<sessionVars, supportVars, resetVars>>
       \/ /\ part = "support" /\ R!Next
          /\ UNCHANGED <<sessionVars, telegramVars, resetVars>>
       \/ /\ part = "reset" /\ G!Next
          /\ UNCHANGED <<sessionVars, telegramVars, supportVars>>

Spec == Init /\ [][Next]_allVars

Symmetry == Permutations(Tabs) \cup Permutations(Tokens)
              \cup Permutations(Admins) \cup Permutations(Users \ EnvIds)
              \cup Permutations(Codes) \cup Permutations(Challenges)
              \cup Permutations(Workers)

-----------------------------------------------------------------------------
\* A change of the password ends every older session.
PasswordChangeEndsAll == part = "sessions" => S!PasswordChangeEndsAll

\* The tabs of the panel do not log each other out.
DropsSessionForReason == part = "sessions" => S!DropsSessionForReason
SessionsAreNotDropped == [][DropsSessionForReason]_allVars

\* Whoever is bound to an administrator has proved it.
BoundIsProven == part = "telegram" => T!BoundIsProven

\* The bot grants an administrator's rights only to one who had them.
GrantWasRight == part = "telegram" => T!GrantWasRight

\* An answer goes to the customer who asked.
AnswersReachAsker == part = "support" => R!AnswersReachAsker

\* A prompt sends one text.
OnePromptOneText == part = "support" => R!OnePromptOneText

\* A reset is confirmed on the screen of its own preview.
ConfirmedIsPreviewed == part = "reset" => G!ConfirmedIsPreviewed
=============================================================================
