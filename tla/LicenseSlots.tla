---------------------------- MODULE LicenseSlots ----------------------------
(***************************************************************************)
(* The device slots of one license: activation by key, recovery and        *)
(* replacement by the Telegram account that holds the license, disconnect  *)
(* and revocation.                                                         *)
(*                                                                         *)
(* Rows of other licenses play no part: every statement but the one of     *)
(* ClearDevice addresses the license by its id.  Requests run in separate  *)
(* invocations and take one action per database call they await.  A        *)
(* transaction that locks the license row with SELECT ... FOR UPDATE is    *)
(* one action from the lock to its commit; what it has read before the     *)
(* lock is an action of its own, as no lock protects it.                   *)
(***************************************************************************)
EXTENDS Integers, FiniteSets

CONSTANTS
    Devices,    \* bound: the installations that may ask for a slot
    Accounts,   \* the Telegram accounts that may hold the license
    Tokens,     \* bound: the replacement challenges that may be created
    Workers,    \* bound: the requests in progress at one time
    MaxDevices, \* PlanFeature max_devices
    None        \* SQL NULL, "no value"

ASSUME SlotsAssumption ==
    /\ MaxDevices \in Nat \ {0}
    /\ IsFiniteSet(Devices)
    /\ None \notin Devices \cup Accounts \cup Tokens

VARIABLES
    status,     \* License.status
    revoked,    \* License.revokedAt is set
    expired,    \* License.expiresAt has passed
    holder,     \* License.holderTelegramAccountId
    slot,       \* LicenseActivation rows by device: none, active, revoked
    challenge,  \* DeviceReplacementChallenge rows by token
    cooling,    \* a LicenseEvent of the last 24 hours starts the cooldown
    req,        \* the requests in progress
    today,      \* history: device replacements of the last 24 hours, 2 if more
    missed      \* history: a replacement with no free slot freed none either

vars == <<status, revoked, expired, holder, slot, challenge, cooling, req,
          today, missed>>
ledger == <<slot, today, missed>>
license == <<status, revoked, expired, holder>>

SlotStates == {"none", "active", "revoked"}
ChallengeStates == {"none", "open", "used", "expired"}
NoChallenge == [state |-> "none", new |-> None, old |-> None]
Challenges == [state : ChallengeStates, new : Devices \cup {None},
               old : Devices \cup {None}]

\* Where a request is: the call it makes next.
Stages == {"idle", "activate", "assert", "recover", "prepare", "challenge",
           "held", "cooldown", "replace", "find", "disconnect"}
Begun(stage, d, old, a, t) ==
    [pc |-> stage, dev |-> d, old |-> old, acct |-> a, token |-> t]
Idle == Begun("idle", None, None, None, None)
Requests == [pc : Stages, dev : Devices \cup {None}, old : Devices \cup {None},
             acct : Accounts \cup {None}, token : Tokens \cup {None}]

TypeOK ==
    /\ status \in {"ACTIVE", "REVOKED"}
    /\ revoked \in BOOLEAN
    /\ expired \in BOOLEAN
    /\ holder \in Accounts \cup {None}
    /\ slot \in [Devices -> SlotStates]
    /\ challenge \in [Tokens -> Challenges]
    /\ cooling \in BOOLEAN
    /\ req \in [Workers -> Requests]
    /\ today \in 0 .. 2
    /\ missed \in BOOLEAN

\* LicenseIssuanceService creates the license ACTIVE; a purchased license is
\* held by the purchaser, one created by an administrator by nobody.
Init ==
    /\ status = "ACTIVE"
    /\ revoked = FALSE
    /\ expired = FALSE
    /\ holder \in Accounts \cup {None}
    /\ slot = [d \in Devices |-> "none"]
    /\ challenge = [t \in Tokens |-> NoChallenge]
    /\ cooling = FALSE
    /\ req = [w \in Workers |-> Idle]
    /\ today = 0
    /\ missed = FALSE

-----------------------------------------------------------------------------
\* A definition whose comment begins with "Mutant:" is a wrong version of the
\* definition that follows it.  Nothing uses it: it stands for a bug the
\* properties must notice.

Active == {d \in Devices : slot[d] = "active"}

\* Mutant: the limit is off by one.
NoFreeSlotOffByOne == Cardinality(Active) > MaxDevices

NoFreeSlot == Cardinality(Active) >= MaxDevices
Usable == status # "REVOKED" /\ ~revoked

At(w, stage) == req[w].pc = stage
Goto(w, stage) == req' = [req EXCEPT ![w].pc = stage]
Finish(w) == req' = [req EXCEPT ![w] = Idle]

-----------------------------------------------------------------------------
\* POST /licenses/activate.  The transaction reads the license, then locks its
\* row; what it has read is what it judges the license by.
ReadByKey(w, d) ==
    /\ At(w, "idle")
    /\ Usable
    /\ req' = [req EXCEPT ![w] = Begun("activate", d, None, None, None)]
    /\ UNCHANGED <<license, ledger, challenge, cooling>>

\* Mutant: a row that was disconnected is taken for a free one.
MayActivateAgain(d) == ~expired /\ slot[d] # "active" /\ ~NoFreeSlot

\* A device that was disconnected does not come back with the key.
MayActivate(d) == ~expired /\ slot[d] = "none" /\ ~NoFreeSlot

ActivateByKey(w) ==
    /\ At(w, "activate")
    /\ MayActivate(req[w].dev)
    /\ slot' = [slot EXCEPT ![req[w].dev] = "active"]
    /\ status' = "ACTIVE"
    /\ Finish(w)
    /\ UNCHANGED <<revoked, expired, holder, challenge, cooling, today, missed>>

\* Already active, disconnected, expired, or DEVICE_REPLACEMENT_REQUIRED.
RefuseKey(w) ==
    /\ At(w, "activate")
    /\ ~MayActivate(req[w].dev)
    /\ Finish(w)
    /\ UNCHANGED <<license, ledger, challenge, cooling>>

\* Activation with a recovery grant of account a, which must hold the license.
BeginRecover(w, d, a) ==
    /\ At(w, "idle")
    /\ holder = a
    /\ req' = [req EXCEPT ![w] = Begun("assert", d, None, a, None)]
    /\ UNCHANGED <<license, ledger, challenge, cooling>>

ReadForRecovery(w) ==
    /\ At(w, "assert")
    /\ \/ Usable /\ ~expired /\ Goto(w, "recover")
       \/ ~(Usable /\ ~expired) /\ Finish(w)
    /\ UNCHANGED <<license, ledger, challenge, cooling>>

RecoverSlot(w) ==
    /\ At(w, "recover")
    /\ slot[req[w].dev] # "active" /\ ~NoFreeSlot
    /\ slot' = [slot EXCEPT ![req[w].dev] = "active"]
    /\ status' = "ACTIVE"
    /\ Finish(w)
    /\ UNCHANGED <<revoked, expired, holder, challenge, cooling, today, missed>>

RefuseRecovery(w) ==
    /\ At(w, "recover")
    /\ slot[req[w].dev] = "active" \/ NoFreeSlot
    /\ Finish(w)
    /\ UNCHANGED <<license, ledger, challenge, cooling>>

-----------------------------------------------------------------------------
\* A device that finds no free slot asks for a replacement challenge.  It names
\* the oldest active device as the one to replace; creation times are not
\* modelled, any active device may be the oldest.
PrepareChallenge(w, d) ==
    /\ At(w, "idle")
    /\ Usable
    /\ d \notin Active
    /\ NoFreeSlot
    /\ \E old \in Active :
         req' = [req EXCEPT ![w] = Begun("prepare", d, old, None, None)]
    /\ UNCHANGED <<license, ledger, challenge, cooling>>

CreateChallenge(w) ==
    /\ At(w, "challenge")
    /\ \E t \in Tokens :
         /\ challenge[t] = NoChallenge
         /\ challenge' = [challenge EXCEPT ![t] =
                            [state |-> "open", new |-> req[w].dev,
                             old |-> req[w].old]]
    /\ Finish(w)
    /\ UNCHANGED <<license, ledger, cooling>>

\* The holder confirms in the bot: the token is looked up ...
LoadChallenge(w, t, a) ==
    /\ At(w, "idle")
    /\ challenge[t].state = "open"
    /\ req' = [req EXCEPT ![w] =
                 Begun("held", challenge[t].new, challenge[t].old, a, t)]
    /\ UNCHANGED <<license, ledger, challenge, cooling>>

\* ... or a device with a recovery grant of account a names the device to
\* replace, one it was shown in a list.
BeginGrantReplacement(w, d, old, a) ==
    /\ At(w, "idle")
    /\ slot[old] # "none"
    /\ holder = a
    /\ req' = [req EXCEPT ![w] = Begun("held", d, old, a, None)]
    /\ UNCHANGED <<license, ledger, challenge, cooling>>

\* executeReplacement reads the license: account a must hold it.
CheckHolder(w) ==
    /\ At(w, "held")
    /\ IF holder = req[w].acct THEN Goto(w, "cooldown") ELSE Finish(w)
    /\ UNCHANGED <<license, ledger, challenge, cooling>>

\* Both paths look for a recent event, outside of any transaction.
CheckCooldown(w) ==
    /\ \/ At(w, "prepare") /\ ~cooling /\ Goto(w, "challenge")
       \/ At(w, "cooldown") /\ ~cooling /\ Goto(w, "replace")
       \/ (At(w, "prepare") \/ At(w, "cooldown")) /\ cooling /\ Finish(w)
    /\ UNCHANGED <<license, ledger, challenge, cooling>>

\* Mutant: whoever has a slot gives way, named or not.
SwapAny(d, old) ==
    slot' = [x \in Devices |->
               IF x = d THEN "active"
               ELSE IF slot[x] = "active" /\ NoFreeSlot THEN "revoked" ELSE slot[x]]

\* The old device gives way only if there is no free slot, and if it still has
\* its own: the statement that disconnects it may match no row.
Swap(d, old) ==
    slot' = [x \in Devices |->
               IF x = d THEN "active"
               ELSE IF x = old /\ slot[x] = "active" /\ NoFreeSlot
                    THEN "revoked" ELSE slot[x]]

\* Under the lock.  Neither revocation nor expiry is looked at.
ReplaceDevice(w) ==
    /\ At(w, "replace")
    /\ slot[req[w].dev] # "active"
    /\ Swap(req[w].dev, req[w].old)
    /\ missed' = (missed \/ (NoFreeSlot /\ slot[req[w].old] # "active"))
    /\ status' = "ACTIVE"
    /\ IF req[w].token = None
       THEN UNCHANGED <<challenge, cooling>>
       ELSE /\ challenge' = [challenge EXCEPT ![req[w].token].state = "used"]
            /\ cooling' = TRUE
    /\ today' = IF today = 2 THEN 2 ELSE today + 1
    /\ Finish(w)
    /\ UNCHANGED <<revoked, expired, holder>>

RefuseReplacement(w) ==
    /\ At(w, "replace")
    /\ slot[req[w].dev] = "active"
    /\ Finish(w)
    /\ UNCHANGED <<license, ledger, challenge, cooling>>

-----------------------------------------------------------------------------
\* The holder disconnects a device in the bot, or an administrator does.
BeginDisconnect(w, d, a) ==
    /\ At(w, "idle")
    /\ a = None \/ holder = a
    /\ req' = [req EXCEPT ![w] = Begun("find", d, None, a, None)]
    /\ UNCHANGED <<license, ledger, challenge, cooling>>

FindSlot(w) ==
    /\ At(w, "find")
    /\ IF req[w].dev \in Active THEN Goto(w, "disconnect") ELSE Finish(w)
    /\ UNCHANGED <<license, ledger, challenge, cooling>>

\* The row is addressed by its id: it may be revoked already, or active again.
\* A disconnect by the holder starts the cooldown.
Disconnect(w) ==
    /\ At(w, "disconnect")
    /\ slot' = [slot EXCEPT ![req[w].dev] = "revoked"]
    /\ cooling' = (cooling \/ req[w].acct # None)
    /\ Finish(w)
    /\ UNCHANGED <<license, challenge, today, missed>>

\* POST /devices/revoke gives back the slots of the caller's own device.
ClearDevice(d) ==
    /\ d \in Active
    /\ slot' = [slot EXCEPT ![d] = "revoked"]
    /\ UNCHANGED <<license, challenge, cooling, req, today, missed>>

RevokeLicense ==
    /\ status # "REVOKED"
    /\ status' = "REVOKED"
    /\ revoked' = TRUE
    /\ UNCHANGED <<expired, holder, ledger, challenge, cooling, req>>

\* The holder is linked, unlinked or assigned; by whom and under which checks
\* does not matter here.
ChangeHolder(a) ==
    /\ holder' = a
    /\ UNCHANGED <<status, revoked, expired, ledger, challenge, cooling, req>>

-----------------------------------------------------------------------------
\* The passage of time.
LicenseExpires ==
    /\ expired' = TRUE
    /\ UNCHANGED <<status, revoked, holder, ledger, challenge, cooling, req>>

ChallengeExpires(t) ==
    /\ challenge[t].state = "open"
    /\ challenge' = [challenge EXCEPT ![t].state = "expired"]
    /\ UNCHANGED <<license, ledger, cooling, req>>

\* No request lasts, and no challenge is valid for, a day.
DayPasses ==
    /\ \A w \in Workers : At(w, "idle")
    /\ \A t \in Tokens : challenge[t].state # "open"
    /\ cooling' = FALSE
    /\ today' = 0
    /\ UNCHANGED <<license, slot, challenge, req, missed>>

\* A request may stop between two calls.
Crash(w) ==
    /\ ~At(w, "idle")
    /\ Finish(w)
    /\ UNCHANGED <<license, ledger, challenge, cooling>>

-----------------------------------------------------------------------------
Begin(w) ==
    \/ \E d \in Devices : ReadByKey(w, d) \/ PrepareChallenge(w, d)
    \/ \E d \in Devices, a \in Accounts : BeginRecover(w, d, a)
    \/ \E t \in Tokens, a \in Accounts : LoadChallenge(w, t, a)
    \/ \E d, old \in Devices, a \in Accounts : BeginGrantReplacement(w, d, old, a)
    \/ \E d \in Devices, a \in Accounts \cup {None} : BeginDisconnect(w, d, a)

Continue(w) ==
    \/ ActivateByKey(w) \/ RefuseKey(w)
    \/ ReadForRecovery(w) \/ RecoverSlot(w) \/ RefuseRecovery(w)
    \/ CreateChallenge(w) \/ CheckHolder(w) \/ CheckCooldown(w)
    \/ ReplaceDevice(w) \/ RefuseReplacement(w)
    \/ FindSlot(w) \/ Disconnect(w)

Next ==
    \/ \E w \in Workers : Begin(w) \/ Continue(w) \/ Crash(w)
    \/ \E d \in Devices : ClearDevice(d)
    \/ RevokeLicense
    \/ \E a \in Accounts \cup {None} : ChangeHolder(a)
    \/ LicenseExpires
    \/ \E t \in Tokens : ChallengeExpires(t)
    \/ DayPasses

Spec == Init /\ [][Next]_vars

-----------------------------------------------------------------------------
\* Safety.

\* The plan's limit holds under concurrent activations and recoveries of any
\* devices, unless a replacement has disconnected no device although there was
\* no free slot.
LimitUnlessMissed == ~missed => Cardinality(Active) <= MaxDevices

\* A device that lost its slot gets it back only by a request that was checked
\* against the holder ("no silent slot").
ReconnectsOnRequest ==
    \A d \in Devices :
        slot[d] = "revoked" /\ slot'[d] = "active" =>
            \E w \in Workers : /\ req[w].pc \in {"recover", "replace"}
                               /\ req[w].dev = d
                               /\ req[w].acct \in Accounts
OnlyHolderReconnects == [][ReconnectsOnRequest]_vars

\* A device gives up its slot to another only if there is no free one, and only
\* if the request named it ("no silent eviction").
EvictsOnRequest ==
    \A d, e \in Devices :
        slot[d] = "active" /\ slot'[d] # "active" /\ e \in Active' \ Active =>
            /\ NoFreeSlot
            /\ \E w \in Workers : At(w, "replace") /\ req[w].old = d
                                    /\ req[w].dev = e
NoSilentEviction == [][EvictsOnRequest]_vars

-----------------------------------------------------------------------------
\* What the repository says of the slots and the code does not do.

\* device-replacement.service.ts: "at most one holder-initiated replacement per
\* license per 24h".
OneReplacementADay == today <= 1
=============================================================================
