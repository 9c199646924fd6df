--------------------------- MODULE TelegramAccess ---------------------------
(***************************************************************************)
(* How a Telegram account proves itself to a device and becomes the holder *)
(* of a license: challenges with one-time codes, the recovery grants they  *)
(* yield, links that are confirmed in the bot, and the administrator who   *)
(* assigns or removes a holder.                                            *)
(*                                                                         *)
(* One device and one license: challenges, links and grants of another     *)
(* device are refused before they touch a row.  Requests take one action   *)
(* per database call they await.  Codes are numbered in the order in which *)
(* they are issued for a challenge; that two random codes are equal is     *)
(* left out.                                                               *)
(***************************************************************************)
EXTENDS Integers, FiniteSets

CONSTANTS
    Accounts,    \* the Telegram accounts
    Challenges,  \* bound: the TelegramAuthChallenge rows that may be created
    Links,       \* bound: the TelegramLicenseLinkChallenge rows
    Grants,      \* bound: the TelegramRecoveryGrant rows
    Workers,     \* bound: the requests in progress at one time
    MaxAttempts, \* MAX_OTP_ATTEMPTS
    MaxCodes,    \* bound: the codes issued for one challenge
    None         \* SQL NULL, "no value"

ASSUME AccessAssumption ==
    /\ MaxAttempts \in Nat \ {0}
    /\ MaxCodes \in Nat \ {0}
    /\ None \notin Accounts \cup Challenges \cup Links \cup Grants

VARIABLES
    holder,    \* License.holderTelegramAccountId
    purchaser, \* License.purchaserTelegramAccountId, None when issued by hand
    usable,    \* the license is neither revoked nor expired
    active,    \* the device has an active LicenseActivation of it
    challenge, \* TelegramAuthChallenge rows
    link,      \* TelegramLicenseLinkChallenge rows
    grant,     \* TelegramRecoveryGrant rows
    req,       \* the requests in progress
    sent,      \* history: the account each code was made for
    wrong,     \* history: wrong codes answered since the last code was made
    overlap,   \* history: challenges of which two codes were judged at once
    linkedBy,  \* history: the accounts that confirmed a link in the bot
    assigned   \* history: an administrator assigned a holder

vars == <<holder, purchaser, usable, active, challenge, link, grant, req, sent,
          wrong, overlap, linkedBy, assigned>>
license == <<holder, purchaser, usable, active>>
guesses == <<wrong, overlap>>
claims == <<linkedBy, assigned>>

Codes == 1 .. MaxCodes

\* consumedAt is set when the challenge is verified or locked.
NoChallenge == [state |-> "none", purpose |-> None, acct |-> None, code |-> 0,
                attempts |-> 0]
Purposes == {"LINK_ACCOUNT", "RECOVERY"}
ChallengeRows ==
    [state : {"none", "open", "verified", "locked", "expired"},
     purpose : Purposes \cup {None}, acct : Accounts \cup {None},
     code : 0 .. MaxCodes, attempts : 0 .. MaxAttempts]

NoGrant == [of |-> None, acct |-> None, code |-> 0]
GrantRows == [of : Challenges \cup {None}, acct : Accounts \cup {None},
              code : 0 .. MaxCodes]

Stages == {"idle", "bind", "wrong", "lock", "right", "judge", "write"}
Idle == [pc |-> "idle", on |-> None, acct |-> None, n |-> 0]
Requests == [pc : Stages, on : Challenges \cup Links \cup {None},
             acct : Accounts \cup {None}, n : 0 .. MaxAttempts + MaxCodes]

LinkRows == [Links -> {"none", "open", "used", "expired"}]

TypeOK ==
    /\ holder \in Accounts \cup {None}
    /\ purchaser \in Accounts \cup {None}
    /\ usable \in BOOLEAN
    /\ active \in BOOLEAN
    /\ challenge \in [Challenges -> ChallengeRows]
    /\ link \in LinkRows
    /\ grant \in [Grants -> GrantRows]
    /\ req \in [Workers -> Requests]
    /\ sent \in [Challenges -> [Codes -> Accounts \cup {None}]]
    /\ wrong \in [Challenges -> 0 .. MaxAttempts + 1]
    /\ overlap \subseteq Challenges
    /\ linkedBy \subseteq Accounts
    /\ assigned \in BOOLEAN

\* A purchased license is held by its purchaser, one issued by hand by nobody.
Init ==
    /\ purchaser \in Accounts \cup {None}
    /\ holder = purchaser
    /\ usable = TRUE
    /\ active = TRUE
    /\ challenge = [c \in Challenges |-> NoChallenge]
    /\ link = [k \in Links |-> "none"]
    /\ grant = [g \in Grants |-> NoGrant]
    /\ req = [w \in Workers |-> Idle]
    /\ sent = [c \in Challenges |-> [n \in Codes |-> None]]
    /\ wrong = [c \in Challenges |-> 0]
    /\ overlap = {}
    /\ linkedBy = {}
    /\ assigned = FALSE

-----------------------------------------------------------------------------
\* A definition whose comment begins with "Mutant:" is a wrong version of the
\* definition that follows it.  Nothing uses it: it stands for a bug the
\* properties must notice.

At(w, stage) == req[w].pc = stage
Begin(w, stage, on, a, n) ==
    req' = [req EXCEPT ![w] = [pc |-> stage, on |-> on, acct |-> a, n |-> n]]
Goto(w, stage) == req' = [req EXCEPT ![w].pc = stage]
Finish(w) == req' = [req EXCEPT ![w] = Idle]

Linkable == active /\ usable

-----------------------------------------------------------------------------
\* POST /auth/telegram/challenge: linking an account asks for an active
\* license on the device.
CreateChallenge(c, purpose) ==
    /\ challenge[c].state = "none"
    /\ purpose = "LINK_ACCOUNT" => Linkable
    /\ challenge' = [challenge EXCEPT ![c] =
                       [NoChallenge EXCEPT !.state = "open", !.purpose = purpose]]
    /\ UNCHANGED <<license, link, grant, req, sent, guesses, claims>>

\* Account a opens the deep link: bindTelegramAndIssueOtp reads the challenge.
OpenChallenge(w, c, a) ==
    /\ At(w, "idle")
    /\ challenge[c].state = "open"
    /\ challenge[c].acct \in {None, a}
    /\ Begin(w, "bind", c, a, 0)
    /\ UNCHANGED <<license, challenge, link, grant, sent, guesses, claims>>

Unsent(c) == {n \in Codes : sent[c][n] = None}

\* The update writes by id: the challenge may be bound to another account, or
\* be consumed, by now.  The code is then sent to the account.
IssueCode(w) ==
    /\ At(w, "bind")
    /\ LET c == req[w].on IN
       \E n \in Unsent(c) :
         /\ \A k \in Unsent(c) : n <= k
         /\ challenge' = [challenge EXCEPT ![c] =
                            [@ EXCEPT !.acct = req[w].acct, !.code = n,
                                      !.attempts = 0]]
         /\ sent' = [sent EXCEPT ![c][n] = req[w].acct]
         /\ wrong' = [wrong EXCEPT ![c] = 0]
    /\ Finish(w)
    /\ UNCHANGED <<license, link, grant, overlap, claims>>

\* Mutant: the number of attempts is not looked at.
MayTryAgain(c) == challenge[c].state = "open" /\ challenge[c].code # 0

MayTry(c) ==
    /\ challenge[c].state = "open"
    /\ challenge[c].code # 0
    /\ challenge[c].attempts < MaxAttempts

Judging(c) == \E w \in Workers : req[w].pc \in {"wrong", "right"} /\ req[w].on = c
MarkOverlap(c) == overlap' = IF Judging(c) THEN overlap \cup {c} ELSE overlap

\* POST /auth/telegram/verify reads the challenge and judges the code by it.
EnterWrongCode(w, c) ==
    /\ At(w, "idle")
    /\ MayTry(c)
    /\ Begin(w, "wrong", c, None, challenge[c].attempts + 1)
    /\ MarkOverlap(c)
    /\ UNCHANGED <<license, challenge, link, grant, sent, wrong, claims>>

EnterCode(w, c) ==
    /\ At(w, "idle")
    /\ MayTry(c)
    /\ Begin(w, "right", c, challenge[c].acct, challenge[c].code)
    /\ MarkOverlap(c)
    /\ UNCHANGED <<license, challenge, link, grant, sent, wrong, claims>>

\* The client is answered, so that the guess counts, after the update.
CountAttempt(w) ==
    /\ At(w, "wrong")
    /\ LET c == req[w].on IN
         /\ challenge' = [challenge EXCEPT ![c].attempts = req[w].n]
         /\ wrong' = [wrong EXCEPT ![c] = IF @ > MaxAttempts THEN @ ELSE @ + 1]
    /\ IF req[w].n >= MaxAttempts THEN Goto(w, "lock") ELSE Finish(w)
    /\ UNCHANGED <<license, link, grant, sent, overlap, claims>>

LockChallenge(w) ==
    /\ At(w, "lock")
    /\ challenge' = [challenge EXCEPT ![req[w].on].state =
                       IF @ = "verified" THEN @ ELSE "locked"]
    /\ Finish(w)
    /\ UNCHANGED <<license, link, grant, sent, guesses, claims>>

\* Mutant: the grant names the account the challenge is bound to by now.
GrantAccountNow(w) == challenge[req[w].on].acct

GrantAccount(w) == req[w].acct

\* Mutant: a challenge of any purpose links the license.
LinksLicense(c) == TRUE

LinksHolder(c) == challenge[c].purpose = "LINK_ACCOUNT"

\* One transaction consumes the challenge and creates the grant; a challenge
\* made for it then links the license.
GiveGrant(w, g) ==
    /\ At(w, "right")
    /\ grant[g] = NoGrant
    /\ LET c == req[w].on IN
         /\ challenge' = [challenge EXCEPT ![c] =
                            [@ EXCEPT !.state = "verified", !.code = 0]]
         /\ grant' = [grant EXCEPT ![g] = [of |-> c, acct |-> GrantAccount(w),
                                           code |-> req[w].n]]
         /\ IF LinksHolder(c)
            THEN Begin(w, "judge", c, req[w].acct, 0)
            ELSE Finish(w)
    /\ UNCHANGED <<license, link, sent, guesses, claims>>

-----------------------------------------------------------------------------
\* POST /licenses/telegram-link: a deep link the holder-to-be opens.
CreateLink(k) ==
    /\ link[k] = "none"
    /\ Linkable
    /\ link' = [link EXCEPT ![k] = "open"]
    /\ UNCHANGED <<license, challenge, grant, req, sent, guesses, claims>>

\* Account a confirms in the bot: confirmLink loads the link.
ConfirmLink(w, k, a) ==
    /\ At(w, "idle")
    /\ link[k] = "open"
    /\ Begin(w, "judge", k, a, 0)
    /\ UNCHANGED <<license, challenge, link, grant, sent, guesses, claims>>

FreeFor(a) == holder = None /\ purchaser \in {None, a}

Uses(k) == link' = IF k \in Links THEN [link EXCEPT ![k] = "used"] ELSE link

\* The license is read and judged; the account may hold it already.
JudgeLink(w) ==
    /\ At(w, "judge")
    /\ LET a == req[w].acct IN
         \/ Linkable /\ holder = a /\ Uses(req[w].on) /\ Finish(w)
         \/ Linkable /\ FreeFor(a) /\ Goto(w, "write") /\ UNCHANGED link
         \/ ~(Linkable /\ (holder = a \/ FreeFor(a))) /\ Finish(w) /\ UNCHANGED link
    /\ UNCHANGED <<license, challenge, grant, sent, guesses, claims>>

\* The transaction writes the holder by the id of the license.
WriteHolder(w) ==
    /\ At(w, "write")
    /\ holder' = req[w].acct
    /\ Uses(req[w].on)
    /\ linkedBy' = IF req[w].on \in Links
                   THEN linkedBy \cup {req[w].acct} ELSE linkedBy
    /\ Finish(w)
    /\ UNCHANGED <<purchaser, usable, active, challenge, grant, sent, guesses,
                   assigned>>

-----------------------------------------------------------------------------
\* An administrator unlinks or assigns the holder.
UnlinkHolder ==
    /\ holder # None
    /\ holder' = None
    /\ UNCHANGED <<purchaser, usable, active, challenge, link, grant, req, sent,
                   guesses, claims>>

AssignHolder(a) ==
    /\ holder' = a
    /\ assigned' = TRUE
    /\ UNCHANGED <<purchaser, usable, active, challenge, link, grant, req, sent,
                   guesses, linkedBy>>

\* The rest of the ledger: see LicenseSlots.
ChangeSlot ==
    /\ active' = ~active
    /\ UNCHANGED <<holder, purchaser, usable, challenge, link, grant, req, sent,
                   guesses, claims>>

EndLicense ==
    /\ usable
    /\ usable' = FALSE
    /\ UNCHANGED <<holder, purchaser, active, challenge, link, grant, req, sent,
                   guesses, claims>>

ExpireChallenge(c) ==
    /\ challenge[c].state = "open"
    /\ challenge' = [challenge EXCEPT ![c].state = "expired"]
    /\ UNCHANGED <<license, link, grant, req, sent, guesses, claims>>

ExpireLink(k) ==
    /\ link[k] = "open"
    /\ link' = [link EXCEPT ![k] = "expired"]
    /\ UNCHANGED <<license, challenge, grant, req, sent, guesses, claims>>

\* The invocation ends before the request does.
Crash(w) ==
    /\ ~At(w, "idle")
    /\ Finish(w)
    /\ UNCHANGED <<license, challenge, link, grant, sent, guesses, claims>>

Serve(w) ==
    \/ IssueCode(w)
    \/ CountAttempt(w)
    \/ LockChallenge(w)
    \/ \E g \in Grants : GiveGrant(w, g)
    \/ JudgeLink(w)
    \/ WriteHolder(w)

Ask(w) ==
    \/ \E c \in Challenges, a \in Accounts : OpenChallenge(w, c, a)
    \/ \E c \in Challenges : EnterWrongCode(w, c) \/ EnterCode(w, c)
    \/ \E k \in Links, a \in Accounts : ConfirmLink(w, k, a)

Next ==
    \/ \E w \in Workers : Ask(w) \/ Serve(w) \/ Crash(w)
    \/ \E c \in Challenges, p \in Purposes : CreateChallenge(c, p)
    \/ \E k \in Links : CreateLink(k) \/ ExpireLink(k)
    \/ \E c \in Challenges : ExpireChallenge(c)
    \/ \E a \in Accounts : AssignHolder(a)
    \/ UnlinkHolder
    \/ ChangeSlot
    \/ EndLicense

Spec == Init /\ [][Next]_vars

-----------------------------------------------------------------------------
(* Safety.                                                                 *)

\* A grant names the account that was sent the code it was given for, however
\* many accounts open the same deep link at the same time.
GrantProvesAccount ==
    \A g \in Grants : grant[g] # NoGrant =>
        sent[grant[g].of][grant[g].code] = grant[g].acct

\* Without an administrator, a purchased license has no holder but its
\* purchaser, and whoever holds another confirmed a link of a device that had
\* it, or entered there a code sent to link it: no order of links, codes and
\* removals of the holder hands a license to anybody else.
HolderIsProven ==
    holder # None /\ ~assigned =>
        /\ purchaser # None => holder = purchaser
        /\ \/ holder = purchaser
           \/ holder \in linkedBy
           \/ \E g \in Grants : /\ grant[g].acct = holder
                                /\ challenge[grant[g].of].purpose = "LINK_ACCOUNT"

\* A code stands at most MaxAttempts wrong guesses, and none is taken after
\* them, unless two codes were judged at the same time: neither a crash before
\* the challenge is locked nor a second code gives more.
GuessesAreBounded ==
    \A c \in Challenges \ overlap : wrong[c] <= MaxAttempts

=============================================================================
