---------------------------- MODULE BotLicenses ----------------------------
(***************************************************************************)
(* Licenses in the bot: a customer looks at a license and disconnects a    *)
(* device, an administrator looks at it and revokes it.  Every screen has  *)
(* the buttons of the next one, a button names the license and the device, *)
(* and stays in the chat for good: it may be pressed long after the screen *)
(* was true, twice, or after the license changed hands.                    *)
(*                                                                         *)
(* One license stands for all: the screens of two have nothing in common   *)
(* but the list.  What keys, recovery and replacement do to the slots is   *)
(* in LicenseSlots; here the slots just change.                            *)
(***************************************************************************)
EXTENDS FiniteSets

CONSTANTS
    Accounts,  \* the Telegram accounts of customers
    Devices,
    Workers,   \* bound: the updates in progress at one time
    None       \* nobody, or no device

BotLicensesAssumption == None \notin Accounts \cup Devices

VARIABLES
    holder,    \* License.holderTelegramAccountId
    purchaser, \* who bought it: License.userId and purchaserTelegramAccountId
    state,     \* License.status: active, revoked, or another
    device,    \* the activation of each device: none, active or revoked
    chat,      \* the buttons in the chat of each customer
    office,    \* the buttons in the chat of the administrators
    update,    \* the updates in progress
    asked,     \* history: <<account, device>>: asked while the account held the license
    gone       \* history: who disconnected the device last, None for not the bot

vars == <<holder, purchaser, state, device, chat, office, update, asked, gone>>
rows == <<holder, purchaser, state, device, gone>>

Idle == [pc |-> "idle", who |-> None, dev |-> None]

\* The buttons a customer may find, and those of an administrator.
Button(kind, d) == [kind |-> kind, dev |-> d]
Buttons ==
    [kind : {"detail", "devices"}, dev : {None}]
        \cup [kind : {"device", "confirm", "disconnect"}, dev : Devices]
AdminButtons == {"detail", "confirm", "revoke"}

TypeOK ==
    /\ holder \in Accounts \cup {None} /\ purchaser \in Accounts \cup {None}
    /\ state \in {"active", "revoked", "other"}
    /\ device \in [Devices -> {"none", "active", "revoked"}]
    /\ chat \in [Accounts -> SUBSET Buttons]
    /\ office \subseteq AdminButtons
    /\ update \in [Workers -> [pc : {"idle", "find", "disconnect", "revoke", "activate"},
                               who : Accounts \cup {None}, dev : Devices \cup {None}]]
    /\ asked \subseteq Accounts \X Devices
    /\ gone \in [Devices -> Accounts \cup {None}]

Init ==
    /\ holder \in Accounts \cup {None} /\ purchaser \in {holder, None}
    /\ state \in {"active", "other"}
    /\ device \in [Devices -> {"none", "active"}]
    /\ chat = [a \in Accounts |-> {}]
    /\ office = {}
    /\ update = [w \in Workers |-> Idle]
    /\ asked = {}
    /\ gone = [d \in Devices |-> None]

-----------------------------------------------------------------------------
\* A definition whose comment begins with "Mutant:" is a wrong version of the
\* definition that follows it.  Nothing uses it: it stands for a bug the
\* properties must notice.

At(w, stage) == update[w].pc = stage
Goto(w, stage) == update' = [update EXCEPT ![w].pc = stage]
Serve(w, stage, a, d) == update' = [update EXCEPT ![w] = [pc |-> stage, who |-> a, dev |-> d]]
Finish(w) == update' = [update EXCEPT ![w] = Idle]

Has(a, kind, d) == Button(kind, d) \in chat[a]
Active == {d \in Devices : device[d] = "active"}

\* A screen is sent: nothing changes but the chat.
Show(a, buttons) ==
    /\ chat' = [chat EXCEPT ![a] = @ \cup buttons]
    /\ UNCHANGED <<rows, office, update>>

-----------------------------------------------------------------------------
(* The screens of a customer.                                              *)

Owns(a) == a \in {holder, purchaser}

\* The list has the licenses of the account, a button for each on the page.
ListButtons == {Button("detail", None)}

ShowMyLicenses(a) ==
    /\ Owns(a)
    /\ Show(a, ListButtons)
    /\ UNCHANGED asked

\* A purchaser who is not the holder sees no devices.
ShowLicenseDetail(a) ==
    /\ Has(a, "detail", None) /\ Owns(a)
    /\ Show(a, IF holder = a THEN {Button("devices", None)} ELSE {})
    /\ UNCHANGED asked

ShowLicenseDevices(a) ==
    /\ Has(a, "devices", None) /\ holder = a
    /\ Show(a, {Button("device", d) : d \in Active})
    /\ UNCHANGED asked

ShowDevice(a, d) ==
    /\ Has(a, "device", d) /\ holder = a /\ d \in Active
    /\ Show(a, {Button("confirm", d)})
    /\ UNCHANGED asked

\* Mutant: whoever may look at the license may be asked.
OwnerMayBeAsked(a, d) == Owns(a) /\ device[d] # "none"

\* A device that is disconnected already may be asked about once more.
MayBeAsked(a, d) == holder = a /\ device[d] # "none"

ShowDisconnectConfirm(a, d) ==
    /\ Has(a, "confirm", d) /\ MayBeAsked(a, d)
    /\ Show(a, {Button("disconnect", d)})
    /\ asked' = IF holder = a THEN asked \cup {<<a, d>>} ELSE asked

\* "Yes": revokeDeviceAsHolder compares the holder,
PressDisconnect(w, a, d) ==
    /\ At(w, "idle")
    /\ Has(a, "disconnect", d) /\ holder = a
    /\ Serve(w, "find", a, d)
    /\ UNCHANGED <<rows, chat, office, asked>>

\* finds the activation, counts what is in use, and revokes the row it found.
\* The customer is told the number before, less one.
FindDevice(w) ==
    /\ At(w, "find")
    /\ IF update[w].dev \in Active THEN Goto(w, "disconnect") ELSE Finish(w)
    /\ UNCHANGED <<rows, chat, office, asked>>

Disconnect(w) ==
    LET d == update[w].dev IN
    /\ At(w, "disconnect")
    /\ device' = [device EXCEPT ![d] = "revoked"]
    /\ gone' = [gone EXCEPT ![d] = update[w].who]
    /\ Finish(w)
    /\ UNCHANGED <<holder, purchaser, state, chat, office, asked>>

-----------------------------------------------------------------------------
(* The screens of an administrator.                                        *)

ShowInOffice(buttons) ==
    /\ office' = office \cup buttons
    /\ UNCHANGED <<rows, chat, update, asked>>

ShowList == ShowInOffice({"detail"})

ShowDetail ==
    /\ "detail" \in office
    /\ ShowInOffice(IF state = "active" THEN {"confirm"} ELSE {})

\* The devices are shown without buttons.
ShowDevices == "detail" \in office /\ ShowInOffice({})

ShowRevokeConfirm ==
    /\ "confirm" \in office /\ state = "active"
    /\ ShowInOffice({"revoke"})

PressRevoke(w) ==
    /\ At(w, "idle")
    /\ "revoke" \in office /\ state = "active"
    /\ Goto(w, "revoke")
    /\ UNCHANGED <<rows, chat, office, asked>>

\* The transaction revokes what is active; the panel would leave it.
RevokeLicense(w) ==
    /\ At(w, "revoke")
    /\ state' = "revoked"
    /\ device' = [d \in Devices |-> IF d \in Active THEN "revoked" ELSE device[d]]
    /\ gone' = [d \in Devices |-> IF d \in Active THEN None ELSE gone[d]]
    /\ Finish(w)
    /\ UNCHANGED <<holder, purchaser, chat, office, asked>>

-----------------------------------------------------------------------------
\* Elsewhere: the license changes hands by a link or in the panel, a key is
\* activated, which judges the license before it writes, and the device or an
\* administrator gives a slot back.
ChangeHolder ==
    /\ \E a \in Accounts \cup {None} : holder' = a
    /\ UNCHANGED <<purchaser, state, device, chat, office, update, asked, gone>>

BeginActivate(w, d) ==
    /\ At(w, "idle") /\ state # "revoked"
    /\ Serve(w, "activate", None, d)
    /\ UNCHANGED <<rows, chat, office, asked>>

Activate(w) ==
    LET d == update[w].dev IN
    /\ At(w, "activate")
    /\ device' = [device EXCEPT ![d] = "active"]
    /\ gone' = [gone EXCEPT ![d] = None]
    /\ state' = "active"
    /\ Finish(w)
    /\ UNCHANGED <<holder, purchaser, chat, office, asked>>

GiveBack(d) ==
    /\ d \in Active
    /\ device' = [device EXCEPT ![d] = "revoked"]
    /\ gone' = [gone EXCEPT ![d] = None]
    /\ UNCHANGED <<holder, purchaser, state, chat, office, update, asked>>

Crash(w) ==
    /\ ~At(w, "idle")
    /\ Finish(w)
    /\ UNCHANGED <<rows, chat, office, asked>>

Next ==
    \/ \E a \in Accounts :
          \/ ShowMyLicenses(a) \/ ShowLicenseDetail(a) \/ ShowLicenseDevices(a)
          \/ \E d \in Devices : ShowDevice(a, d) \/ ShowDisconnectConfirm(a, d)
    \/ \E w \in Workers, a \in Accounts, d \in Devices : PressDisconnect(w, a, d)
    \/ ShowList \/ ShowDetail \/ ShowDevices \/ ShowRevokeConfirm
    \/ \E w \in Workers : FindDevice(w) \/ Disconnect(w) \/ PressRevoke(w) \/ RevokeLicense(w)
    \/ \E w \in Workers : Activate(w) \/ Crash(w) \/ \E d \in Devices : BeginActivate(w, d)
    \/ ChangeHolder \/ \E d \in Devices : GiveBack(d)

Spec == Init /\ [][Next]_vars

-----------------------------------------------------------------------------
\* Safety.

\* A device loses its slot to a customer only after the bot has asked this
\* customer about this device, at a time the customer held the license: a screen
\* seen as the purchaser, or before the license changed hands, is not enough.
AskedBeforeLost ==
    \A d \in Devices : gone[d] # None => <<gone[d], d>> \in asked

=============================================================================
