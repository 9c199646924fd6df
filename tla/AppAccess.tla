----------------------------- MODULE AppAccess -----------------------------
(***************************************************************************)
(* What the app may do: the server's answer to GET /me/entitlements, and   *)
(* what the page of devices in the panel says of the same device.          *)
(*                                                                         *)
(* One account, its devices and the licenses they use, which the account   *)
(* has bought or another has.  How a slot is granted, freed and moved is   *)
(* the module LicenseSlots; here a slot becomes live and ends, and a key   *)
(* that was checked is used later.  A snapshot reads the account with its  *)
(* licenses and devices, chooses a license and looks for the slot of the   *)
(* device in another query.  The panel has rules of its own for the same   *)
(* rows, and compares them with what the app reports of itself, which can  *)
(* be anything.                                                            *)
(*                                                                         *)
(* No code gives a license another status than ACTIVE or REVOKED, nor bars *)
(* a device or suspends an account: a device that is barred and an account *)
(* that is not ACTIVE, whom every answer denies access, are left out.      *)
(* Time is what the dates are compared with.                               *)
(***************************************************************************)
EXTENDS Naturals

CONSTANTS
    Licenses,   \* bound: the licenses there can be
    Devices,    \* bound: the installations of the account
    Snapshots,  \* bound: the snapshots taken at one time
    Ranks,      \* the priorities of the plans, numbers
    MaxTime,    \* bound: the times there are
    None

AppAccessAssumption ==
    /\ Ranks \subseteq Nat
    /\ MaxTime \in Nat
    /\ None \notin Licenses \cup Devices \cup (Devices \X Licenses)

VARIABLES
    license,    \* the table License
    slot,       \* the devices a license has live activations for
    claim,      \* the device that is to get a slot, and the license, which was
                \* checked; bound: one at a time
    trial,      \* when the trial of the account ends
    now,        \* the time
    snap,       \* the snapshots in progress
    held,       \* history: the device had access at some time of the snapshot
    late,       \* history: the licenses that gave a slot after they had ended
    best        \* history: the license was the best of all at all times of the
                \* snapshot, and the device had a slot of it

accessVars == <<license, slot, claim, trial, now, snap, held, late, best>>
rows == <<license, slot, claim, trial>>

Times == 0 .. MaxTime
NoLicense == [status |-> "none", revoked |-> FALSE, rank |-> 0, until |-> 0,
              owned |-> FALSE]
LicenseRows == [status : {"none", "ACTIVE", "REVOKED"}, revoked : BOOLEAN,
                rank : Ranks \cup {0}, until : 0 .. MaxTime + 1, owned : BOOLEAN]

NoSnap == [pc |-> "idle", dev |-> None, lic |-> None, source |-> "NONE",
           access |-> FALSE]
Snaps == [pc : {"idle", "look", "slot", "answer"}, dev : Devices \cup {None},
          lic : Licenses \cup {None}, source : {"NONE", "LICENSE", "TRIAL"},
          access : BOOLEAN]

SlotRows == [Licenses -> SUBSET Devices]

AccessTypeOK ==
    /\ license \in [Licenses -> LicenseRows]
    /\ slot \in SlotRows
    /\ claim \in (Devices \X Licenses) \cup {None}
    /\ trial \in Times
    /\ now \in Times
    /\ snap \in [Snapshots -> Snaps]
    /\ held \subseteq Snapshots /\ late \subseteq Licenses
    /\ best \subseteq Snapshots \X Licenses

\* A trial begins with the account; it may have ended before the first request.
AccessInit ==
    /\ license = [l \in Licenses |-> NoLicense]
    /\ slot = [l \in Licenses |-> {}]
    /\ claim = None
    /\ trial \in Times
    /\ now = 0
    /\ snap = [w \in Snapshots |-> NoSnap]
    /\ held = {} /\ late = {} /\ best = {}

-----------------------------------------------------------------------------
\* A definition whose comment begins with "Mutant:" is a wrong version of the
\* definition that follows it.  Nothing uses it: it stands for a bug the
\* properties must notice.

\* The rules of the server.

Exists(l) == license[l].status # "none"
Valid(l) == /\ license[l].status = "ACTIVE" /\ ~license[l].revoked
            /\ license[l].until > now
OnDevice(d) == {l \in Licenses : d \in slot[l]}
OnTrial == trial > now

\* The licenses the account has bought and those its devices use.
Candidates == {l \in Licenses : license[l].owned}
                \cup {l \in Licenses : slot[l] # {}}

\* The higher plan is better, and of one plan the license that ends later.
NoBetter(k, l) ==
    \/ license[k].rank < license[l].rank
    \/ license[k].rank = license[l].rank /\ license[k].until <= license[l].until

Best == {l \in Candidates : Valid(l) /\ \A k \in Candidates :
                                          Valid(k) => NoBetter(k, l)}

\* Mutant: an account's license serves all devices of the account.
AccountHasSlot(l, d) == TRUE

\* The slot of the device itself, not of another device of the account.
HasSlot(l, d) == d \in slot[l]

-----------------------------------------------------------------------------
\* Licenses, slots and the rest of the rows.

Issue(l, rank, until, owned) ==
    /\ ~Exists(l)
    /\ until > now
    /\ license' = [license EXCEPT ![l] = [NoLicense EXCEPT
                     !.status = "ACTIVE", !.rank = rank, !.until = until,
                     !.owned = owned]]
    /\ UNCHANGED <<slot, claim, trial, now, snap>>

\* revoke of the panel or the bot: the slots stay.
Revoke(l) ==
    /\ Exists(l) /\ license[l].status # "REVOKED"
    /\ license' = [license EXCEPT ![l].status = "REVOKED", ![l].revoked = TRUE]
    /\ UNCHANGED <<slot, claim, trial, now, snap>>

\* By its key, by a recovery or a replacement a device is given a slot of a
\* license that was checked some time ago; a key also makes it ACTIVE, whatever
\* it is by now.
CheckLicense(d, l) ==
    /\ claim = None
    /\ Valid(l) /\ d \notin slot[l]
    /\ claim' = <<d, l>>
    /\ UNCHANGED <<license, slot, trial, now, snap>>

GiveSlot(d, l) ==
    /\ claim = <<d, l>>
    /\ claim' = None
    /\ slot' = [slot EXCEPT ![l] = @ \cup {d}]
    /\ license' \in {license, [license EXCEPT ![l].status = "ACTIVE"]}
    /\ UNCHANGED <<trial, now, snap>>

RefuseSlot ==
    /\ claim # None
    /\ claim' = None
    /\ UNCHANGED <<license, slot, trial, now, snap>>

\* A disconnection, a replacement, a device that clears its slots.
EndSlot(l, d) ==
    /\ d \in slot[l]
    /\ slot' = [slot EXCEPT ![l] = @ \ {d}]
    /\ UNCHANGED <<license, claim, trial, now, snap>>

TimePasses ==
    /\ now < MaxTime
    /\ now' = now + 1
    /\ UNCHANGED <<rows, snap>>

-----------------------------------------------------------------------------
\* getSnapshot.
At(w, pc) == snap[w].pc = pc
Goto(w, r) == snap' = [snap EXCEPT ![w] = r]
Answers(w, source, access) ==
    Goto(w, [snap[w] EXCEPT !.pc = "answer", !.source = source,
                            !.access = access])

Ask(w, d) ==
    /\ At(w, "idle")
    /\ Goto(w, [NoSnap EXCEPT !.pc = "look", !.dev = d])
    /\ UNCHANGED <<rows, now>>

\* The account with all that belongs to it.  Of two licenses that are equally
\* good either is taken.
Look(w) ==
    /\ At(w, "look")
    /\ \/ \E l \in Best : Goto(w, [snap[w] EXCEPT !.pc = "slot", !.lic = l])
       \/ Best = {} /\ OnTrial /\ Answers(w, "TRIAL", TRUE)
       \/ Best = {} /\ ~OnTrial /\ Answers(w, "NONE", FALSE)
    /\ UNCHANGED <<rows, now>>

LookForSlot(w) ==
    /\ At(w, "slot")
    /\ Answers(w, "LICENSE", HasSlot(snap[w].lic, snap[w].dev))
    /\ UNCHANGED <<rows, now>>

Finish(w) ==
    /\ At(w, "answer")
    /\ Goto(w, NoSnap)
    /\ UNCHANGED <<rows, now>>

-----------------------------------------------------------------------------
UsesValid(d) == \E l \in OnDevice(d) : Valid(l)
UsesBest(l, d) ==
    /\ l \in OnDevice(d) /\ Valid(l)
    /\ \A k \in Candidates \ {l} : Valid(k) =>
         \/ license[k].rank < license[l].rank
         \/ license[k].rank = license[l].rank /\ license[k].until < license[l].until

Watch ==
    /\ held' = {w \in Snapshots : /\ ~At(w, "idle")'
                                  /\ \/ w \in held
                                     \/ (UsesValid(snap[w].dev) \/ OnTrial)'}
    /\ late' = late \cup {l \in Licenses : ~Valid(l) /\ slot'[l] # slot[l]
                                           /\ claim' # claim}
    /\ best' = {x \in Snapshots \X Licenses :
                   /\ ~At(x[1], "idle")'
                   /\ At(x[1], "idle") \/ x \in best
                   /\ UsesBest(x[2], snap[x[1]].dev)'}

AccessStep ==
    \/ \E l \in Licenses :
         \/ \E rank \in Ranks, until \in 1 .. MaxTime + 1, owned \in BOOLEAN :
              Issue(l, rank, until, owned)
         \/ Revoke(l)
         \/ \E d \in Devices :
              CheckLicense(d, l) \/ GiveSlot(d, l) \/ EndSlot(l, d)
    \/ \E w \in Snapshots : \/ \E d \in Devices : Ask(w, d)
                            \/ Look(w) \/ LookForSlot(w) \/ Finish(w)
    \/ RefuseSlot \/ TimePasses

AccessNext == AccessStep /\ Watch
AccessSpec == AccessInit /\ [][AccessNext]_accessVars

-----------------------------------------------------------------------------
\* The rules of the panel: the status of a license counts, not its dates, and a
\* license of the account serves all its devices.

\* Mutant: the licenses of the account are looked at, not those of the device.
ActiveOfAccount(d) ==
    \E l \in Licenses : license[l].status = "ACTIVE" /\ license[l].owned

HasActive(d) ==
    \E l \in Licenses : /\ license[l].status = "ACTIVE"
                        /\ l \in OnDevice(d) \/ license[l].owned

Bucket(d) == IF HasActive(d) THEN "LICENSED"
             ELSE IF OnTrial THEN "TRIAL" ELSE "TRIAL_EXPIRED"

\* The list shows an active license if there is one, else one of the account.
RevokedShown(d) ==
    ~HasActive(d) /\ \E l \in Licenses : license[l].owned /\ Exists(l)

\* The statistics look at any one slot of the device, and only without one at
\* the licenses of the account.
RevokedCounted(d) ==
    \/ \E l \in OnDevice(d) : license[l].status = "REVOKED"
    \/ /\ OnDevice(d) = {}
       /\ \E l \in Licenses : license[l].owned /\ license[l].status = "REVOKED"

\* A device that claims to have access is to be reviewed.
Review(d, revoked) ==
    Bucket(d) = "TRIAL_EXPIRED" \/ revoked

-----------------------------------------------------------------------------
(* Safety.                                                                 *)

\* The app is told that it has access only if it had: its device had a slot of a
\* license that was valid at one and the same time, or the trial was running,
\* at some time of the request, however keys, slots and licenses changed
\* between the two queries.  The exception is a license that ended while its
\* key was being used.  And a device that has a slot of the best license of its
\* account as long as the request takes is not told that it has none.
AccessIsRight ==
    \A w \in Snapshots : At(w, "answer") =>
        /\ snap[w].access => w \in held \/ snap[w].lic \in late
        /\ ~snap[w].access => \A l \in Licenses : <<w, l>> \notin best

\* What one look at all the rows would grant.
Granted(d) == (\E l \in Best : HasSlot(l, d)) \/ (Best = {} /\ OnTrial)

\* The panel, by its own rules, shows every device that has access as one that
\* has.  It suspects one of these only beside a license that was revoked, and
\* of those that have no access but claim to it misses only the ones for which
\* a license has the status ACTIVE, or a trial runs and another device of the
\* account has a license.  Its list and its statistics differ only beside a
\* license that was revoked.
PanelAgrees ==
    \A d \in Devices :
        /\ Granted(d) => Bucket(d) \in {"LICENSED", "TRIAL"}
        /\ Granted(d) /\ Review(d, RevokedShown(d)) =>
             \E l \in Licenses : license[l].owned /\ license[l].status = "REVOKED"
        /\ ~Granted(d) /\ ~Review(d, RevokedShown(d)) =>
             HasActive(d) \/ (OnTrial /\ Best # {})
        /\ Review(d, RevokedShown(d)) # Review(d, RevokedCounted(d)) =>
             \E l \in Licenses : /\ license[l].status = "REVOKED"
                                 /\ l \in OnDevice(d) \/ license[l].owned
=============================================================================
