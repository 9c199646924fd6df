--------------------------- MODULE PrivacyPolicy ---------------------------
(***************************************************************************)
(* The privacy policy: revisions that administrators draft and publish on  *)
(* the page PrivacyPage, and the one the app is served.                    *)
(*                                                                         *)
(* A tab of the panel has a button that saves what its editor holds and    *)
(* one that publishes the draft it knows.  Neither disables the other, so  *)
(* a tab may wait for both.  The editor can be typed in at any time: it    *)
(* holds any text when a button is pressed.  The handlers read a revision  *)
(* and write it in separate calls; only the publication itself is one      *)
(* transaction, which a lock makes wait for others.                        *)
(*                                                                         *)
(* The two languages of a text are one value here, and the panel always    *)
(* sends both.  Which of two drafts was edited last is not kept: either is *)
(* found.                                                                  *)
(***************************************************************************)
EXTENDS Naturals

CONSTANTS
    Policies,   \* bound: the revisions there can be
    Texts,      \* what an editor may hold
    Whole,      \* the texts that have both languages
    Default,    \* the text of the code, one of Whole
    Tabs,       \* bound: the tabs of the panel
    MaxRevision,\* bound: the revision numbers
    None

PrivacyPolicyAssumption ==
    /\ Whole \subseteq Texts
    /\ Default \in Whole
    /\ None \notin Policies

VARIABLES
    policy,     \* the table PrivacyPolicyRevision
    page,       \* the draft a tab knows
    save,       \* the request of a tab that saves
    publish,    \* the request of a tab that publishes
    raced       \* history: the drafts that were read to be saved or published
                \* and changed by another request before they were

policyVars == <<policy, page, save, publish, raced>>

NoPolicy == [status |-> "none", revision |-> 0, text |-> Default]
Statuses == {"none", "DRAFT", "PUBLISHED", "ARCHIVED"}
PolicyRows == [status : Statuses, revision : 0 .. MaxRevision, text : Texts]

\* seen is history: the status the revision had when the request read it.
NoSave == [pc |-> "idle", id |-> None, seen |-> "none", next |-> 0]
Saves == [pc : {"idle", "look", "edit", "number", "create"},
          id : Policies \cup {None}, seen : Statuses, next : 0 .. MaxRevision + 1]

NoPublish == [pc |-> "idle", id |-> None, seen |-> "none"]
Publishes == [pc : {"idle", "look", "publish"},
              id : Policies \cup {None}, seen : Statuses]

PageRows == [Tabs -> Policies \cup {None}]

PolicyTypeOK ==
    /\ policy \in [Policies -> PolicyRows]
    /\ \A p, q \in Policies :
          policy[p].revision = policy[q].revision => p = q \/ policy[p] = NoPolicy
    /\ page \in PageRows
    /\ save \in [Tabs -> Saves]
    /\ publish \in [Tabs -> Publishes]
    /\ raced \subseteq Policies

\* ensureInitialPublished: the first instance that starts publishes the text of
\* the code, and the unique revision refuses that of a second one.
PolicyInit ==
    /\ \E r \in Policies :
         policy = [p \in Policies |->
                     IF p = r THEN [status |-> "PUBLISHED", revision |-> 1,
                                    text |-> Default]
                              ELSE NoPolicy]
    /\ page = [t \in Tabs |-> None]
    /\ save = [t \in Tabs |-> NoSave]
    /\ publish = [t \in Tabs |-> NoPublish]
    /\ raced = {}

-----------------------------------------------------------------------------
\* A definition whose comment begins with "Mutant:" is a wrong version of the
\* definition that follows it.  Nothing uses it: it stands for a bug the
\* properties must notice.

Of(status) == {p \in Policies : policy[p].status = status}
Numbers == {policy[p].revision : p \in Policies}

\* The page that is loaded knows the draft, if there is one.  It is loaded when
\* it is opened and when a button has done its work, by a request of its own.
LoadPage(t) ==
    /\ \/ \E d \in Of("DRAFT") : page' = [page EXCEPT ![t] = d]
       \/ Of("DRAFT") = {} /\ page' = [page EXCEPT ![t] = None]
    /\ UNCHANGED <<policy, save, publish, raced>>

-----------------------------------------------------------------------------
\* saveDraft.
SaveTo(t, r) == save' = [save EXCEPT ![t] = r]

BeginSave(t) ==
    /\ save[t].pc = "idle"
    /\ SaveTo(t, [NoSave EXCEPT !.pc = "look", !.id = page[t]])
    /\ UNCHANGED <<policy, page, publish, raced>>

\* Only a draft can be edited.
MayEdit(p) == policy[p].status = "DRAFT"

\* The request has read revision p, which it is to edit.
ToEdit(t, p) == SaveTo(t, [save[t] EXCEPT !.pc = "edit", !.id = p,
                                          !.seen = policy[p].status])

\* The draft the tab names, or else any there is, or else a new one.
LookToSave(t) ==
    LET s == save[t] IN
    /\ s.pc = "look"
    /\ \/ s.id # None /\ MayEdit(s.id) /\ ToEdit(t, s.id)
       \/ s.id # None /\ ~MayEdit(s.id) /\ SaveTo(t, NoSave)
       \/ s.id = None /\ \E d \in Of("DRAFT") : ToEdit(t, d)
       \/ /\ s.id = None /\ Of("DRAFT") = {}
          /\ SaveTo(t, [s EXCEPT !.pc = "number"])
    /\ UNCHANGED <<policy, page, publish, raced>>

\* Somebody has seen p as a draft, and means to publish what he saw.
BeingPublished(p) ==
    \E t \in Tabs : publish[t].pc = "publish" /\ publish[t].id = p

\* The tab is told which draft it has saved, unless the answer is lost.
Told(t, d) ==
    /\ SaveTo(t, NoSave)
    /\ page' = [page EXCEPT ![t] = d] \/ UNCHANGED page

\* The text is the one the button was pressed with, which nothing has looked at.
EditDraft(t, x) ==
    LET s == save[t] IN
    /\ s.pc = "edit"
    /\ policy' = [policy EXCEPT ![s.id].text = x]
    /\ raced' = IF policy[s.id].status # s.seen \/ BeingPublished(s.id)
                THEN raced \cup {s.id} ELSE raced
    /\ Told(t, s.id)
    /\ UNCHANGED publish

NumberDraft(t) ==
    /\ save[t].pc = "number"
    /\ \E n \in Numbers :
         /\ \A m \in Numbers : m <= n
         /\ SaveTo(t, [save[t] EXCEPT !.pc = "create", !.next = n + 1])
    /\ UNCHANGED <<policy, page, publish, raced>>

\* The revision is unique: of two drafts with one number the second is refused.
NumberFree(n) == n \notin Numbers

CreateDraft(t, x) ==
    LET s == save[t] IN
    /\ s.pc = "create"
    /\ s.next <= MaxRevision
    /\ \/ /\ NumberFree(s.next)
          /\ \E p \in Of("none") :
               /\ policy' = [policy EXCEPT ![p] = [status |-> "DRAFT",
                                                   revision |-> s.next,
                                                   text |-> x]]
               /\ Told(t, p)
       \/ ~NumberFree(s.next) /\ SaveTo(t, NoSave) /\ UNCHANGED <<policy, page>>
    /\ UNCHANGED <<publish, raced>>

\* The request stops between two calls.
SaveBreaks(t) ==
    /\ save[t].pc # "idle"
    /\ SaveTo(t, NoSave)
    /\ UNCHANGED <<policy, page, publish, raced>>

-----------------------------------------------------------------------------
\* publish.
PublishTo(t, r) == publish' = [publish EXCEPT ![t] = r]

\* The button asks for both languages, but of what the editor holds.
BeginPublish(t) ==
    /\ publish[t].pc = "idle"
    /\ page[t] # None
    /\ PublishTo(t, [NoPublish EXCEPT !.pc = "look", !.id = page[t]])
    /\ UNCHANGED <<policy, page, save, raced>>

\* Mutant: the handler trusts the page for the languages.
PublishesAny(p) == policy[p].status = "DRAFT"

\* A draft with both languages.
MayPublish(p) == policy[p].status = "DRAFT" /\ policy[p].text \in Whole

LookToPublish(t) ==
    LET r == publish[t] IN
    /\ r.pc = "look"
    /\ \/ /\ MayPublish(r.id)
          /\ PublishTo(t, [r EXCEPT !.pc = "publish",
                                    !.seen = policy[r.id].status])
       \/ ~MayPublish(r.id) /\ PublishTo(t, NoPublish)
    /\ UNCHANGED <<policy, page, save, raced>>

\* One transaction, which looks at no status any more.  One that had to wait
\* for another, or read what another has written, is refused: PublishBreaks.
Publish(t) ==
    LET d == publish[t].id
        seen == publish[t].seen IN
    /\ publish[t].pc = "publish"
    /\ policy' = [p \in Policies |->
                    IF p = d THEN [policy[p] EXCEPT !.status = "PUBLISHED"]
                    ELSE IF p \in Of("PUBLISHED")
                    THEN [policy[p] EXCEPT !.status = "ARCHIVED"]
                    ELSE policy[p]]
    /\ raced' = IF policy[d].status # seen THEN raced \cup {d} ELSE raced
    /\ PublishTo(t, NoPublish)
    /\ UNCHANGED <<page, save>>

PublishBreaks(t) ==
    /\ publish[t].pc # "idle"
    /\ PublishTo(t, NoPublish)
    /\ UNCHANGED <<policy, page, save, raced>>

-----------------------------------------------------------------------------
PolicyNext ==
    \E t \in Tabs :
        \/ LoadPage(t)
        \/ BeginSave(t) \/ LookToSave(t) \/ NumberDraft(t) \/ SaveBreaks(t)
        \/ \E x \in Texts : EditDraft(t, x) \/ CreateDraft(t, x)
        \/ BeginPublish(t) \/ LookToPublish(t) \/ Publish(t) \/ PublishBreaks(t)

PolicySpec == PolicyInit /\ [][PolicyNext]_policyVars

-----------------------------------------------------------------------------
(* Safety.                                                                 *)

\* The app is served one policy in both languages, whatever tabs save and
\* publish at a time, unless the draft was edited while it was published.
ServedIsWhole ==
    /\ \E p \in Policies : Of("PUBLISHED") = {p}
    /\ \A p \in Of("PUBLISHED") \ raced : policy[p].text \in Whole

=============================================================================
