# A formal model of the Ruznamo backend

This directory holds TLA+ models of the Ruznamo backend, its Telegram bot and
its admin panel, the TLC configurations that check them on small instances, and
proofs that the TLA+ proof system checks for every instance.  Paths below are
relative to the repository.

The backend is a NestJS application over PostgreSQL (Prisma), deployed as
serverless functions.  It sells licenses for a mobile application through a
Telegram bot, activates them on devices, and serves an admin panel.  Many
invocations run at the same time, and but for the previews of a data reset and
the count of its wrong passwords nothing that matters is kept in the memory of a
function between requests: what interacts is the rows of the database.
Transactions run at READ COMMITTED unless the code asks for more.  So the
difficult question everywhere is what another request does between two calls of
this one.  The bot adds one of its own: all dialogs of a chat keep their place in
one row, `TelegramBotSession`, Telegram delivers the next update without waiting
for the last one, and the buttons of old messages stay.

## 1. Inventory

| Part | State | Operations | What is hard |
|---|---|---|---|
| Orders and receipts (`src/payments/order.service.ts`, `src/telegram/telegram-update.processor.ts`) | `Order`, `Receipt`, `TelegramProcessedUpdate` | choose plan and method, cancel, send receipt | each dialog step is a request of its own that reads, then writes by id |
| Payment approval (`src/payments/payment-approval.service.ts`) | `Order`, `Receipt`, `NotificationOutbox` | approve, reject, from panel and bot | two administrators at once; two transactions for one approval; crash between them |
| License issuance (`src/licenses/license-issuance.service.ts`) | `License` | issue for an order, issue by hand | a unique index decides races; a dialog whose last button names nothing |
| Key delivery (`src/payments/telegram-license-delivery.service.ts`) | `NotificationOutbox` | announce the key, "My key" | one attempt |
| Activation, recovery, replacement (`src/licenses/`) | `LicenseActivation`, `License.status`, challenges | activate, recover, replace, disconnect | the license is judged before its lock; minutes pass between the choice of the old device and the swap |
| License holder, Telegram authentication (`src/auth/telegram-auth.service.ts`, `src/licenses/telegram-license-link.service.ts`) | holder, challenges, codes, grants, links | start, enter a code, link, assign | attempt counter, single use, last writer wins |
| Mobile sessions, devices (`src/auth/auth.service.ts`, `src/devices/`) | `RefreshToken`, `DeviceInstallation`, `TrialGrant` | register, refresh, logout, add a device | the old token is revoked after the new one exists |
| Admin sessions (`src/admin/auth/`, `admin-panel/src/api/client.ts`) | `AdminRefreshToken`, `AdminUser`, the panel's token store | login, refresh, logout, change password | several tabs, calls repeated after a refresh |
| Admin Telegram identity (`src/admin/telegram/`) | identities, deny list, link codes, rebind challenges | connect, rebind, disconnect, the bot's check | three queries that belong together |
| Releases and updates (`src/admin/releases/`, `src/app-update/`, `admin-panel/src/pages/UpdatesPage.tsx`) | `AppRelease`, files, the page's pending upload | upload, finalize, publish, archive, purge, check, download | one release is published, it has its file, a phone gets what was signed |
| Privacy policy (`src/privacy/`) | revisions | draft, publish | two tabs |
| Data reset (`src/admin/data-reset/`) | a lock row, previews in memory | preview, execute | table after table while customers go on; a lock that a crash does not release |
| Bot dialogs, support relay (`src/telegram/`) | `TelegramBotSession`, conversations, relay mappings | purchase, support, wizards, deep links, answers | one session row per user, updates in parallel |
| Entitlements (`src/entitlements/`) | none of its own | what a device may use | choice among licenses in several queries; the panel has other rules |
| Plans and prices (`src/admin/plans/`) | `Plan`, `PlanPrice` | edit, order | a page that is out of date |
| Configuration, storage, analytics, audit, health, scripts | | | single rows, queries, external services |

What each must get right: a payment yields one license and its key reaches the
customer's record; a license occupies no more devices than its plan allows, and
nobody but its holder moves it from one device to another; whoever is taken for
an account has proved to be it; a session that was ended stays ended; one
release and one policy are published, and what is published can be downloaded;
a reset deletes what it says and nothing else; an answer reaches the one who
asked.  `PROJECT.json` lists the hazards of this code line by line, with the
properties that are aimed at them.

## 2. Modules

| Module | What it is | Proofs |
|---|---|---|
| `Payments` | orders, receipts, approval, rejection, issue and delivery | `PaymentsProofs` |
| `LicenseLedger` | the abstract specification of it: paid, issued, kept, sent | |
| `PlanSales` | prices and availability, and orders made under them | `PaymentsProofs` |
| `LicenseSlots` | the device slots of one license | `SlotsProofs` |
| `BotLicenses`, `IssueDialog`, `KeyNotices` | the screens of licenses in the bot; licenses made by hand; who is told of a key | `SlotsProofs` |
| `Releases` | the life of the Android releases and their files | `ReleasesProofs` |
| `AppUpdates` | `Releases` with the page that uploads and the phone that downloads | `ReleasesProofs` |
| `Sessions` | registration, refresh tokens, logout, additional devices | `SessionsProofs` |
| `TelegramAccess` | challenges, codes, grants, links, the holder of a license | `TelegramAccessProofs` |
| `DeepLinks` | links that wait for a language | `TelegramAccessProofs` |
| `DataReset` | the three resets, statement by statement, with the requests beside them | `DataResetProofs` |
| `ResetGate` | previews, phrase and password before a reset | `PanelProofs` |
| `AdminDialogs` | the rejection wizard and the payment method wizard | `DataResetProofs` |
| `BotChats` | a customer buys, sends receipts and writes to support | `BotChatsProofs` |
| `SupportRelay` | copies to administrators, answers by reply and by prompt | `PanelProofs` |
| `AdminSessions` | the panel's sessions in several tabs | `PanelProofs` |
| `AdminTelegram` | which Telegram users administer the bot | `PanelProofs` |
| `AppAccess` | entitlement snapshots, and what the panel says of a device | `SessionsProofs` |
| `PrivacyPolicy` | revisions of the policy | `SessionsProofs` |

`MCx` modules instantiate them for TLC.  Some put several modules side by side
(`MCShop`, `MCSlots`, `MCTelegramAccess`, `MCOffice`, `MCPanel`, `MCAccess`): a
variable `part` is chosen by the initial state and says which of them runs, and
the variables of the others keep a fixed value.  The parts share no state, so
that nothing is composed there and the run checks each of them alone: a property
of a part is stated as `part = "..." => ...` or holds trivially in the states of
the other.  `AppUpdates` is composed with `Releases` in earnest: it EXTENDS it,
and the actions of the page begin and answer the requests of the backend.

### How the code becomes actions

A request occupies a worker `w` of `Workers`; `req[w].pc` names the database
call it makes next and the other fields hold what it has read.  One action is
one awaited call.  A transaction is one action when none of its statements
depends on something another transaction can change under it: a transaction
that starts with `SELECT ... FOR UPDATE`, one that inserts under a unique index,
or one that only writes by id.  A read that precedes the lock, even inside the
same transaction, is an action of its own, because under READ COMMITTED nothing
keeps it true.  `DataReset` goes further and makes each statement of the deleting
transaction an action.  `Crash(w)` ends a request between two calls: the platform
may kill an invocation, and a thrown error does the same.  Several instances of
the backend differ in nothing from several requests of one.  A button of the bot
may be pressed whenever a message with it can be in the chat.

Texts, dates and audit records are left out.  Time appears as events that may
happen at any moment: `LicenseExpires`, `ChallengeExpires`, `DayPasses`,
`ExpireSession`, ...; in `AppAccess` it is a clock, because dates are compared.

Variables marked "history" are not in the code.  No guard reads them; they say
what has happened, so that a property may except the races that the code is
known to lose (`raced`, `overlap`, `missed`, `late`, ...) and nothing else.

Definitions whose comment starts with `Mutant:` are wrong versions of the
definition after them.  No specification uses them; replacing the right one by
the wrong one must make the named property fail, which shows that the property
looks at the code it is about.

### Payments, LicenseLedger, PlanSales

| Action | Code |
|---|---|
| `StartPayment`, `ReusePending`, `NoPendingFound`, `CreateOrder`, `ResetOrder` | `startPaymentFlow`: cancel stale orders, find or create, clear the method |
| `ChooseMethod`, `ReadCurrentOrder`, `AttachMethod` | the payment method button |
| `CancelOrder` | `cancelPendingOrder`, one guarded statement |
| `UploadReceipt`, `LookupAwaiting`, `SubmitReceipt` | claim the update, find the order, store the receipt |
| `BeginApprove`, `CheckIssued`, `CreateLicense`, `CompleteOrder`, `DeliverKey` | `approve`, `issueLicense`, the completing transaction, the message |
| `BeginReject`, `RejectOrder` | `reject` |

A unique violation aborts a PostgreSQL transaction, so the query that
`issueLicense` makes in its `catch` fails too: the loser of a race ends with an
error.  That is how `CreateLicense` models it.

- `CompletedHasKey`: an order is completed with a license whose key is kept.
- `ImplementsLedger`: with paid = orders with a receipt, issued = `License`,
  kept = `NotificationOutbox`, sent = messages, every step is a step of
  `LicenseLedger` or changes none of them.  It implies `OneLicensePerOrder`,
  `LicenseNeedsReceipt` and `KeptKeysAreIssued`, which are proved by name.
- `IssuedKeyIsKept` (liveness): a license's key is kept, under `FairSpec`: weak
  fairness of each request's next call, and no `Crash`.  An awaited call returns,
  so a request that is not killed runs to its end; that customers or
  administrators ever do anything is not assumed.  With `Crash` it does not hold,
  a weakness of the code and not of the model.
- `OfferIsKept` (`PlanSales`): the amount of an order was the price of its offer
  while the request that created it ran, and the plan was for sale in that time; a
  customer is told another amount than the order has only when the price has
  changed since he asked for the order or found it again.  Left out by name
  (`crossed`): without payment methods `startOrderFlow` takes the customer's newest
  pending order for the one it has made, and with two updates at one time that may
  be the other's.

### LicenseSlots, BotLicenses, IssueDialog, KeyNotices

`LicenseSlots` is one license, the devices that want it, and the requests about
it.  Four paths give a slot: `ActivateByKey`, `RecoverSlot`, and `ReplaceDevice`
for a challenge or a grant.  Three take one: `ReplaceDevice`, `Disconnect`,
`ClearDevice`.  `ChangeHolder` may give the license to anybody or nobody at any
time, which covers every way the holder is changed, with or without its checks;
who may change it is in `TelegramAccess`.

- `LimitUnlessMissed`: the plan's limit is kept as long as no replacement found
  the license full and its old device already out (`missed`).  The transaction
  counts, disconnects what may be no row, and connects; that is the only hole.
- `OnlyHolderReconnects`: a device that was disconnected returns only by a
  recovery or a replacement for an account, never by the key alone.
- `NoSilentEviction`: a device makes room for another only without a free slot
  and for a request that named both.
- `AskedBeforeLost` (`BotLicenses`): a customer disconnects only a device the bot
  asked him about while he held the license, whatever old buttons he presses.
- `OncePerDialog` (`IssueDialog`): a choice of duration makes one license.
- `AnnouncedOnce` (`KeyNotices`): a key is announced once and to its customer.

### Releases, AppUpdates

| Action | Code |
|---|---|
| `PutApk` | the upload that `createUploadAuthorization` allows, which may overwrite |
| `ReadApk`, `RefuseApk`, `CompareWithLatest`, `LookupVersion`, `DeleteReplaced`, `DiscardUpload`, `UpsertRelease` | `finalizeUpload` |
| `ReadForPublish`, `CheckVersion`, `CheckFile`, `Publish`, `SyncLegacyAppVersion` | `publish` |
| `ReadForArchive`, `Archive` | `archive` |
| `ReadForDelete`, `DeleteFile`, `DropDraft` | `deleteDraft` |
| `ReadForPurge`, `DeleteFile`, `MarkPurged` | `purgeFile` |
| `BeginUpload`, `ResumeUpload`, `Uploaded`, `UploadFails`, `Reload`, `BeginOnRelease` | `UpdatesPage.tsx` |
| `BeginFinalize`, `Serve`, `Answer`, `Break` | the backend's requests, and what the page makes of their answers |
| `CheckUpdate`, `AskDownload`, `ForgetUpdate` | `app-update.service.ts`, as a phone uses it |

The only protected step is the transaction of `Publish`; all other writes
address a row by its id, or by its version code, after an unprotected read.  An
inspection is a free choice, as it depends on the configured package and
certificate too.

- `WithdrawnByNewer`: no sequence of calls withdraws the published release or
  goes back to an older one; only requests that overlap may.
- `ServedIsSigned`: the link a phone is given is to the file whose hash its
  manifest named, unless a late upsert made the release a draft again.
- `PendingKept`: an upload that waits to be finalized is not forgotten by errors,
  lost answers or reloads.
- `FileStays`: the file of the published release is deleted only by a
  finalization that is repeated, or by a request that saw the release before it
  was published.

### Sessions

`BeginRegister`, `Lookup`, `CreateAccount` are `register`; `BeginRefresh`,
`IssueToken`, `ReplaceToken` are `refresh`, in the order of the code: the new
token first, then the end of the old one.  `Logout`, `LogoutAll`, `RevokeDevice`
end tokens with one statement each; `BeginAdd`, `ReadLimit`, `CountDevices`,
`AddDevice` add a device to an account.  `assertDeviceRegistrationAllowed` starts
the two reads together and compares when both have answered, in either order.  The
limit is that of the best license that is valid when it is read, and 1 without one;
licenses begin, end and are revoked at any time (`LicenseSlots`, `AppAccess`), so
that here a read may find any limit up to `MaxLimit`, and only 1 of a blocked
account.

- `EndedForGood`: a logout or a revocation ends a line of tokens for good, except
  for a refresh that had already read the token.
- `AddedWithinLimit` (action property): an account that gets another device has
  then no more than the limit its request has read, unless another request added
  one between this one's count and its addition (`raced`).  A limit that falls
  later takes no device away: an account may well have more devices than its
  license of today allows, without any race.

### TelegramAccess, DeepLinks

One device and one license.  `CreateChallenge` to `GiveGrant` are
`telegram-auth.service.ts`: several accounts may open one deep link, and each
asks for a code.  `CreateLink`, `ConfirmLink`, `JudgeLink`, `WriteHolder` are the
link in the bot, `AssignHolder`, `UnlinkHolder` the panel.

- `GrantProvesAccount`: a grant names the account that was sent the code it was
  given for.
- `HolderIsProven`: without an administrator, a purchased license has no holder
  but its purchaser, and another holder has confirmed a link or entered a code.
- `GuessesAreBounded`: a code stands at most `MAX_OTP_ATTEMPTS` wrong guesses,
  unless two were judged at one time.
- `NoLinkIsForgotten`, `AnsweredOnce` (`DeepLinks`): a link that waits for a
  language is answered, and once.

### BotChats, SupportRelay

`BotChats` is the customer: a session row, conversations, orders, and every
handler that reads one and writes another.  `SupportRelay` is what becomes of a
text: a row, a copy to every administrator, a mapping for each copy, and answers
by a reply (`ReplyTo` to `SendAnswer`) or by a prompt (`OpenPrompt`, `SendText`
to `ClearSession`).

- `OneOpenConversation`, `OnePendingOrder`: one of each, unless two handlers had
  looked before either created it.
- `LeftForGood`: what a customer writes after he closed a conversation, with no
  other update in progress, is not put there.
- `AnswersReachAsker`, `OnePromptOneText` (`SupportRelay`).

### DataReset, ResetGate, AdminDialogs

`DataReset` selects and deletes users, orders and licenses statement by
statement, while customers register, order and are given licenses; references
behave as the schema says (Restrict, SetNull), rows a transaction has deleted
make others wait, and a failed statement undoes it.  The three tables stand for
all that are emptied.  `ResetGate` is the page and the service before it.

- `ResetIsComplete`: a reset that reports success has left no row it found.
- `CleanupSparesCustomers`: the cleanup of tests deletes nothing of a customer's.
- `ExclusiveUnlessRaced`: resets exclude each other, unless two had read the lock
  before either wrote it.
- `ConfirmedIsPreviewed` (`ResetGate`): the counts on the screen where a reset was
  confirmed were those of its scope.
- `RejectionStands`, `ToldIsOnRecord`, `OneMethodPerWizard` (`AdminDialogs`): a
  rejection stands and keeps its reason, the customer is told that one, and a
  wizard makes one payment method, however the administrator goes back and forth.

In `AdminDialogs` the orders are not the wizard's alone.  `submitReceipt`
(`ReadForReceipt`, `SubmitReceipt`), `approve` (`ReadForApproval`, `IssueLicense`,
`CompleteOrder`) and `reject` (`ReadOrder`, `RejectOrder`) each read the order and
in a later call write it by its id, whatever it is by then; only the cancellation
is one guarded statement.  The two properties of rejections except the orders that
were rejected while such a request had still to write (`raced`): it undoes the
rejection, and the order may then be rejected again for another reason.

### AdminSessions, AdminTelegram, AppAccess, PrivacyPolicy

- `PasswordChangeEndsAll`: after a change of the password, of the old sessions
  only those live whose login or refresh had looked at the account before.
- `SessionsAreNotDropped`: the panel drops a session it did not ask to end only
  for one of the named reasons; requests refused at once do not log each other
  out (`client.ts`, one `refreshPromise` for all).  Among the reasons is every
  answer to a refresh that is no success: `RefuseToken` is the 401 for a token that
  is not live, `FailRefresh` any other (403, 429, 5xx) for one the API takes.
  Without an answer (`LoseRefresh`) the store stays.
- `BoundIsProven`: whoever is bound to an administrator sent a link code to the
  bot or was sent the code that was entered, and is not on the deny list.
- `GrantWasRight`: the three queries of `isTelegramAdmin` never grant what no
  single state would have.
- `AccessIsRight`: the app is told that it has access only if it had at some time
  of the request, and not refused when it had the best license all along.
- `PanelAgrees`: the panel, by rules of its own, shows the same, with the
  exceptions it names.
- `ServedIsWhole`: one policy is served, in both languages.

## 3. Runs

| Run | Bounds | Shows |
|---|---|---|
| `payments` | 1 customer, 2 offers, 2 orders, 2 receipts, 2 keys, 2 requests; or 1 plan of 2 periods, 2 amounts, 2 tabs, 2 updates, 3 calls in progress, 1 order | `CompletedHasKey`, `ImplementsLedger`; `OfferIsKept` |
| `payments_live` | 1 order, 2 requests, no crash | `IssuedKeyIsKept` |
| `payments_completed` | 1 order | violation: a rejection overtakes an approval and a completed order becomes REJECTED |
| `slots` | 2 devices, 1 slot, 1 account, 1 challenge, 2 requests; or 2 customers and 1 device; or 2 dialogs; or 2 orders | the properties of `LicenseSlots`; `AskedBeforeLost`; `OncePerDialog`; `AnnouncedOnce` |
| `slots_cooldown` | 2 devices | violation: two replacements within a day |
| `updates` | 2 releases, 2 uploads, 2 versions, 2 requests, 1 phone | the four properties of releases and updates |
| `sessions` | 3 installations, 2 tokens, 2 requests, limits 1 and 2, 1 block | `EndedForGood`, `AddedWithinLimit` |
| `telegram_access` | 2 accounts, 1 challenge, 2 codes, 2 attempts, 1 link, 2 grants, 2 requests; or 3 links | the properties of `TelegramAccess` and `DeepLinks` |
| `office` | 2 users, one a test user, 1 order, 1 license, 2 resets; or 1 order, 1 preset reason, 2 methods, 1 wizard, 2 updates | the properties of `DataReset` and `AdminDialogs` |
| `bot_chats` | 2 conversations, 2 orders, 2 offers, 2 updates | the properties of `BotChats` |
| `panel` | 2 tabs, 3 tokens, 1 change; or 2 administrators, 2 Telegram users, 2 codes, 1 challenge, 2 requests; or 2 customers, 2 administrators, 1 text each; or 2 tabs, 2 scopes, 2 previews, 1 owner | `AdminSessions`, `AdminTelegram`, `SupportRelay`, `ResetGate` |
| `access` | 2 licenses, 2 devices, 1 snapshot, 2 ranks, 2 times; or 3 revisions, 2 tabs | `AccessIsRight`, `PanelAgrees`; `ServedIsWhole` |

Two requests are enough for every race between a check and the write it guards,
and two of each row let two requests have the same or each its own.  With one
slot and two devices a license is full after one activation, and both devices can
be on either side of a replacement.  Two releases are one to publish and one to
give way; with two uploads a draft may get a new file or be finalized from the
same one again.  Three installations and limits of one and two let two requests
add the last device at one time, under different limits too.  Two attempts are the least with which a guess is
neither the first nor the last.  One test user and one customer are all that a
cleanup tells apart.  Two updates and a change of a price (`MaxBusy` 3) meet in one
order; that one update takes the order of another needs two, and is covered by the
proof of `OfferIsKept` only.  What the bounds leave out, a third request or a third row, the
theorems cover.

`updates` has a VIEW that hides `legacy`: the variable is written and never read,
and no property of that run mentions it, so that states that differ in it have
the same future.  `office` has one that hides, of an order that is `raced`, the reason
on record and the reasons told: an order stays `raced` for ever, both properties
except it, and no action reads either.  Symmetry is used only in runs without liveness, over sets whose
elements no definition tells apart; where one set of model values stands for two
parameters of a sum (`Tabs` and `Admins` in `MCPanel`, `Devices`, `Dialogs` and
`Orders` in `MCSlots`), both are symmetric.

The two runs that expect a violation are explained under "findings" in
`PROJECT.json`: each quotes what the repository says.

## 4. Proofs

For every value of the constants, under the assumptions the modules name: NULL is
no id, the ids of different tables differ, limits and bounds on numbers are
positive, the devices or installations that are counted are finitely many, every
conversation has its customer, the ranks of plans are numbers, the policy text of
the code is in both languages.  Each
proof module states the inductive invariant `IInv` of its component, shows that
the initial states satisfy it and every action keeps it, and takes the theorems
from it.  Where a run puts several modules side by side its proof module does so
for each of them: `PanelProofs` (`SessionsIInv`, `TelegramIInv`, `SupportIInv`
with `OneText`, `ResetIInv`), `DataResetProofs` (`IInv`, `RejectIInv`,
`WizardIInv`), `TelegramAccessProofs` (`IInv`, `LinkIInv`), `SlotsProofs` (`IInv`,
`KeyIInv`, `DialogIInv`, `ScreensIInv`), `SessionsProofs` (`IInv`, `AccessIInv`,
`PolicyIInv`) and `PaymentsProofs`.

| Module | Theorems | What the invariant adds to the property |
|---|---|---|
| `PaymentsProofs` | types, `OneLicensePerOrder`, `LicenseNeedsReceipt`, `CompletedHasKey`, `ReviewHasPendingReceipt`, `KeptKeysAreIssued`, `ImplementsLedger`; `OfferIsKept` | what each request has in hand by its stage: a fresh order not yet in the table, a receipt for the order it approves, a license of its own that is not yet kept; what an update has read, and will tell or charge, has been a price since it began, and once it has an order the order has had that price |
| `SlotsProofs` | types, `LimitUnlessMissed`, `OnlyHolderReconnects`, `NoSilentEviction` | what a request carries; that a challenge names two devices; then arithmetic on the size of a finite set |
| | `AnnouncedOnce` | one approval has issued the key of an order and not yet told it, and while it has, nobody was told |
| | `OncePerDialog` | one handler makes the license of a dialog, and until it has ended the dialog no other reads it |
| | `AskedBeforeLost` | whoever can still disconnect a device, by a button in his chat or by an update in progress, was asked about it |
| `ReleasesProofs` | types, `OnePublished`, `WithdrawnByNewer`, `HistoryKept`; `AppSpec => Spec`, `ServedIsSigned`, `PendingKept`, `FileStays` | what of a request's checks lasts: a row keeps its version code, a deleted one does not come back; and for the updates, which upload a flow and a finalization name, and that a release a phone was told of keeps its file |
| `SessionsProofs` | types, `AccountsAreWhole`, `EndedForGood`, `NoSessionOnceShut`, `AddedWithinLimit` | that tokens belong to an installation of their account, as does the one they replaced; that nobody is about to continue an ended one; that whoever has counted has counted every device of the account, unless an addition overtook the count |
| | `AccessIsRight`, `PanelAgrees` | a device that has access now is known to have had it during each of its requests; of a license that is chosen, that its slot was valid then or was given too late, and that no other was better all along |
| | `ServedIsWhole` | who publishes a draft has found it whole and nobody has edited it since; who saves one has found it a draft |
| `TelegramAccessProofs` | types, `GrantProvesAccount`, `HolderIsProven`, `GuessesAreBounded` | that a code in force was sent to the account the challenge is bound to; what a request remembers; that attempts on record are no fewer than those made |
| | `NoLinkIsForgotten`, `AnsweredOnce` | a link is in the hands of one handler or in the session, and in neither once it is answered; one that was not opened is nowhere |
| `BotChatsProofs` | types, `OneOpenConversation`, `OnePendingOrder`, `LeftForGood` | that whoever creates a conversation or an order does so alone and while there is none, and that nobody is on the way to a conversation that was left |
| `DataResetProofs` | types, `ResetIsComplete`, `CleanupSparesCustomers`, `ExclusiveUnlessRaced` | that what a reset found is dying or gone, table after table; that users die with their orders; that whoever takes a set lock has been overtaken |
| | `RejectionStands`, `ToldIsOnRecord`, `OneMethodPerWizard` | who is about to write an order that is rejected makes it an excepted one; who is about to announce a rejection finds its reason on record; a run of the wizard has one handler that saves, which has made no method yet, and while it saves and after there is a method the session is marked done |
| `PanelProofs` | `PasswordChangeEndsAll`, `SessionsAreNotDropped` | that a token is stored, sent or issued in one tab only; that what a tab holds is live, or ended, expired or replaced for a reason; the password under which a refresh looked its token up |
| | `BoundIsProven`, `GrantWasRight` | what a request took from a code, a challenge or an identity was good when it took it, or the race is on record; a check that finds its user bound has seen him right |
| | `AnswersReachAsker`, `OnePromptOneText` | a mapping names the conversation of the text it is for; a prompt that one update uses alone has one user, who has not sent yet |
| | `ConfirmedIsPreviewed` | a preview that is shown was issued for the scope that is shown |

Most properties are not inductive as they stand.  That an order is completed with
a key rests on what the request in its last stage carries, and that on what it
checked before; that a phone is sent the file it was told of rests on every way a
release may lose its object.

`AppImplementsReleases` shows that the page, the backend and the app together do
only what `Releases` describes, so that `OnePublished`, `WithdrawnByNewer` and
`HistoryKept` hold of them too.  The page may finalize only what it names, put an
object only under an unused name, and answer only requests that have ended; the
proof needs to know that a flow that uploads has no request yet.

Three properties are proved and belong to no run: `AccountsAreWhole` (however
many requests register or add one installation, each account has its device and
one trial), `NoSessionOnceShut` (a request that begins once its account is
blocked gets no session), and `AppImplementsReleases`.

Model-checked only:

- liveness (`IssuedKeyIsKept`): fairness is out of the prover's reach;
- what a violation shows: that the two statements of the repository do not hold.

## 5. What the models showed of the code

Observed while modelling; those without a run are left to the reader of the
lines.  Most are small, and some may be meant.

- Payments: a key whose delivery fails is kept but never sent again.  A receipt
  that arrives when its order is no longer pending is dropped.  A pending order
  that is found again keeps its old amount while the summary shows the new price,
  also when another update has made it since the price was read.  Without payment
  methods two durations pressed at one time may tell the amount of one order with
  the instructions of the other;
  whether the plan is for sale is not asked when the order is made.  A stale page
  of plans overwrites the price of the other period that another administrator
  set.
- Licenses: a replacement whose old device has lost its slot may exceed the
  limit.  A key that was checked before a revocation makes the license ACTIVE
  again, with `revokedAt` set, and a device may be connected.  The panel's revoke
  leaves activations, the bot's revokes them.  Nothing sets EXPIRED, so that the
  panel counts an expired license as LICENSED.  A better license shuts out the
  devices that have a slot of the lesser one.  An old "create" button issues a
  license for a month after its dialog is gone.
- Releases: finalizing the upload of the published release again deletes its
  file: `finalizeUpload` deletes what is not newer, and it is not newer than
  itself.
- Payments: a receipt or an approval that had read the order before a rejection
  overwrites it: the order is under review or completed although the customer was
  told that it is rejected, and may be rejected again for another reason.
- Devices: two requests may each count the devices before the other adds one, and
  both add the last.  The limit is asked only when a device is added: devices stay
  when the license ends and the limit falls to 1.
- Panel: any error of the API in answer to a refresh, a 502 or a 429 as much as a
  401, clears the store and logs the tab out although its token lives.
- Sessions: a refresh that overtakes a logout lives on.
  `revokeOtherSessions` repeated with the old token ends the session it was to
  keep.  A failing profile request on page load logs the tab out.
- Codes: wrong codes that are judged at one time count as one, both for the
  one-time codes and for the password of resets, whose counter is kept per
  instance.
- Bot: a cancelled order can be rejected by an old button; a confirmation of one
  reason pressed after another was chosen rejects with the latter.  "Cancel" in
  the support prompt does not end it, and its end may delete a newer prompt.  An
  answer by reply is not put on record.  A crash between the close of a
  conversation and the write of the session leaves the session in it.  A link
  opened while the language handler is between its read and its delete is lost;
  two taps answer it twice.  A stale cancellation says cancelled and cancels
  nothing.
- Privacy: the button publishes what the database holds, not the editor's text,
  and an edit between check and transaction may publish an incomplete policy.
- Data reset: the preview of a cleanup counts 0 for receipts, support, recovery
  and refresh tokens although they are deleted.  A preview of an old scope may be
  shown under a new one; the service refuses it.

## 6. Not modelled, and why

- The texts of a draft release and the overview of the releases; profile,
  telemetry and metadata columns; roles and permissions: no property depends on
  them, and a check that depends on one is taken to succeed or is a free choice.
- Configuration of the app and payment details: single rows, read and written.
- Analytics, dashboards, audit and health: queries and write-only records.
- Parsing of APKs and certificates, and what Vercel Blob and Telegram do inside:
  the models keep that their calls fail and that a stored object may be missing.
- Access tokens of the app: they have no row and live 15 minutes.
- PostgreSQL aborting one of two transactions that wait for each other: it has no
  effect and its request fails, like `Crash`.
- Which administrators a bot message is sent to when there are many chats, menus
  and wording.
- A payment method that the wizard creates while the answer of the database is
  lost: the wizard takes it for a failure, opens again, and may create a second.
- A refresh of the panel that the API goes on with after the panel got no answer or
  an error for it: in the model it ends there, at whichever call it had come to.
- `awaitingReceipt` in `AdminDialogs`: a pending order may always get a receipt
  there.  `BotChats` models it.
- Scripts: run by hand, outside of the running system.

Next: abstract specifications for the parts that have only invariants, first of
the sessions and of the license slots, and proofs that these parts implement them.
