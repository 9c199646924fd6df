------------------------------- MODULE MCSlots -------------------------------
(***************************************************************************)
(* The slots of a license, and what is said about licenses: the screens of *)
(* the bot, licenses made by hand, and the keys of paid orders.  They share *)
(* no state: the initial state chooses which one runs; the variables of    *)
(* LicenseSlots keep their initial value meanwhile, those of the others    *)
(* stay None.                                                              *)
(***************************************************************************)
EXTENDS LicenseSlots, TLC

CONSTANTS Customers, Phones

VARIABLES
    part,
    held, purchaser, state, device, chat, office, update, asked, gone,
    draft, messages, form, tap, term, issued, lost, twice,
    of, paid, key, later, outbox, noticed, job, told, screens, unsaid

B == INSTANCE BotLicenses WITH Accounts <- Customers, Devices <- Phones, holder <- held
\* The two devices stand for two dialogs and for two orders as well.
I == INSTANCE IssueDialog WITH Dialogs <- Devices
K == INSTANCE KeyNotices WITH Orders <- Devices

ASSUME ScreensAssumption ==
    /\ B!BotLicensesAssumption
    /\ I!IssueDialogAssumption
    /\ K!KeyNoticesAssumption

screenVars == <<held, purchaser, state, device, chat, office, update, asked, gone>>
issueVars == <<draft, messages, form, tap, term, issued, lost, twice>>
keyVars == <<of, paid, key, later, outbox, noticed, job, told, screens, unsaid>>
allVars == <<part, vars, screenVars, issueVars, keyVars>>

NoScreens ==
    /\ held = None /\ purchaser = None /\ state = None /\ device = None
    /\ chat = None /\ office = None /\ update = None /\ asked = None
    /\ gone = None

NoDialog ==
    /\ draft = None /\ messages = None /\ form = None /\ tap = None /\ term = None
    /\ issued = None /\ lost = None /\ twice = None

NoKeys ==
    /\ of = None /\ paid = None /\ key = None /\ later = None /\ outbox = None
    /\ noticed = None /\ job = None /\ told = None /\ screens = None
    /\ unsaid = None

SumInit ==
    /\ Init
    /\ \/ part = "slots" /\ NoScreens /\ NoDialog /\ NoKeys
       \/ part = "screens" /\ B!Init /\ NoDialog /\ NoKeys
       \/ part = "dialog" /\ I!Init /\ NoScreens /\ NoKeys
       \/ part = "keys" /\ K!Init /\ NoScreens /\ NoDialog

SumNext ==
    /\ UNCHANGED part
    /\ \/ part = "slots" /\ Next /\ UNCHANGED <<screenVars, issueVars, keyVars>>
       \/ part = "screens" /\ B!Next /\ UNCHANGED <<vars, issueVars, keyVars>>
       \/ part = "dialog" /\ I!Next /\ UNCHANGED <<vars, screenVars, keyVars>>
       \/ part = "keys" /\ K!Next /\ UNCHANGED <<vars, screenVars, issueVars>>

SumSpec == SumInit /\ [][SumNext]_allVars

Symmetry == Permutations(Devices) \cup Permutations(Accounts)
              \cup Permutations(Tokens) \cup Permutations(Workers)

-----------------------------------------------------------------------------
\* A customer disconnects only a device he was asked about as the holder.
AskedBeforeLost == part = "screens" => B!AskedBeforeLost

\* A choice of duration makes one license.
OncePerDialog == part = "dialog" => I!OncePerDialog

\* A key is announced once, to its customer.
AnnouncedOnce == part = "keys" => K!AnnouncedOnce
=============================================================================
