---------------------------- MODULE IssueDialog ----------------------------
(***************************************************************************)
(* Licenses that an administrator makes by hand.  In the bot it is a       *)
(* dialog: a plan, a duration, "create".  The choices are kept in the one  *)
(* TelegramBotSession row of the administrator, the buttons carry one      *)
(* choice each, and the last button none: what it creates is what the row  *)
(* holds when the handler reads it, and a license for a month when it      *)
(* holds nothing.  In the panel it is a form, sent as a whole.             *)
(*                                                                         *)
(* There is one plan in the dialog, which is the default too, so that the  *)
(* plan is left out.                                                       *)
(***************************************************************************)
EXTENDS FiniteSets, Integers

CONSTANTS
    Dialogs,  \* bound: the choices of a duration, and the forms sent
    Workers,  \* bound: the updates in progress at one time
    None      \* no dialog: the defaults

Periods == {"MONTHLY", "YEARLY"}

IssueDialogAssumption == None \notin Dialogs \cup Periods

VARIABLES
    draft,    \* the session row: none, of another flow, or a step of this dialog
    messages, \* the durations that some confirmation in the chat names
    form,     \* the form of the panel: open, sent, answered, or failed
    tap,      \* the updates in progress
    term,     \* history: the duration chosen in each dialog
    issued,   \* history: how many licenses were issued of each dialog, 2 for more
    lost,     \* history: dialogs in which a call failed or an invocation was ended
    twice     \* history: dialogs whose "create" was handled twice at a time

vars == <<draft, messages, form, tap, term, issued, lost, twice>>

Outside == {"none", "other"}
Steps == Outside \cup {"plan", "duration", "confirm"}
Draft(step, d) == [step |-> step, of |-> d]
Idle == [pc |-> "idle", of |-> None]
Fresh == {d \in Dialogs : term[d] = None}
Sources == Dialogs \cup {None}

TypeOK ==
    /\ draft \in [step : Steps, of : Dialogs \cup {None}]
    /\ messages \subseteq Periods
    /\ form \in [pc : {"closed", "open", "sent", "issued", "done", "failed"}, of : Sources]
    /\ tap \in [Workers -> [pc : {"idle", "period", "issue", "flow", "clear", "tell"},
                            of : Sources]]
    /\ term \in [Dialogs -> Periods \cup {None}]
    /\ issued \in [Dialogs -> 0..2]
    /\ lost \subseteq Dialogs /\ twice \subseteq Dialogs

Init ==
    /\ draft = Draft("none", None)
    /\ messages = {}
    /\ form = [pc |-> "closed", of |-> None]
    /\ tap = [w \in Workers |-> Idle]
    /\ term = [d \in Dialogs |-> None]
    /\ issued = [d \in Dialogs |-> 0]
    /\ lost = {} /\ twice = {}

-----------------------------------------------------------------------------
\* A definition whose comment begins with "Mutant:" is a wrong version of the
\* definition that follows it.  Nothing uses it: it stands for a bug the
\* properties must notice.

At(w, stage) == tap[w].pc = stage
Goto(w, stage) == tap' = [tap EXCEPT ![w].pc = stage]
Finish(w) == tap' = [tap EXCEPT ![w] = Idle]
Counted(d) == [x \in Dialogs |-> IF x = d /\ issued[x] < 2 THEN issued[x] + 1 ELSE issued[x]]

\* The row is written as a whole.
WriteDraft(s) ==
    /\ draft' = s
    /\ UNCHANGED <<messages, form, tap, term, issued, lost, twice>>

\* "Create a license", and the button of the plan, of any message that has it.
OpenDialog == WriteDraft(Draft("plan", None))

PickPlan == WriteDraft(Draft("duration", None))

\* The handler of a duration reads the row, for the plan, and writes it,
PickPeriod(w, p) ==
    /\ At(w, "idle")
    /\ \E d \in Fresh :
          /\ draft' = Draft("confirm", d)
          /\ term' = [term EXCEPT ![d] = p]
          /\ tap' = [tap EXCEPT ![w] = [pc |-> "period", of |-> d]]
    /\ UNCHANGED <<messages, form, issued, lost, twice>>

\* and asks for a confirmation.
AskConfirm(w) ==
    /\ At(w, "period")
    /\ messages' = messages \cup {term[tap[w].of]}
    /\ Finish(w)
    /\ UNCHANGED <<draft, form, term, issued, lost, twice>>

\* "Create": the row is read.  Another flow, an earlier step, or no row at all:
\* the defaults.
Source == IF draft.step = "confirm" THEN draft.of ELSE None

Beside(w, d) == \E v \in Workers \ {w} : tap[v].pc \in {"issue", "flow", "clear"} /\ tap[v].of = d

PressCreate(w) ==
    /\ At(w, "idle") /\ messages # {}
    /\ tap' = [tap EXCEPT ![w] = [pc |-> "issue", of |-> Source]]
    /\ twice' = twice \cup {d \in {Source} \ {None} : Beside(w, d)}
    /\ UNCHANGED <<draft, messages, form, term, issued, lost>>

\* issueLicense without an order inserts a license whatever was issued before.
IssueLicense(w) ==
    /\ At(w, "issue")
    /\ issued' = Counted(tap[w].of)
    /\ Goto(w, "flow")
    /\ UNCHANGED <<draft, messages, form, term, lost, twice>>

\* Mutant: the dialog is not ended.
StaysOpen(step) == FALSE

FlowIsOpen(step) == step \notin Outside

\* clearFlow reads the row and deletes it.
CheckFlow(w) ==
    /\ At(w, "flow")
    /\ Goto(w, IF FlowIsOpen(draft.step) THEN "clear" ELSE "tell")
    /\ UNCHANGED <<draft, messages, form, term, issued, lost, twice>>

ClearFlow(w) ==
    /\ At(w, "clear")
    /\ draft' = Draft("none", None)
    /\ Goto(w, "tell")
    /\ UNCHANGED <<messages, form, term, issued, lost, twice>>

\* The key is told once and kept nowhere.
TellKey(w) ==
    /\ At(w, "tell")
    /\ Finish(w)
    /\ UNCHANGED <<draft, messages, form, term, issued, lost, twice>>

\* Another dialog takes the row, /stop deletes it, or it expires.
LeaveDialog == \E s \in Outside : draft.step # s /\ WriteDraft(Draft(s, None))

Crash(w) ==
    /\ ~At(w, "idle")
    /\ Finish(w)
    /\ lost' = lost \cup ({tap[w].of} \ {None})
    /\ UNCHANGED <<draft, messages, form, term, issued, twice>>

-----------------------------------------------------------------------------
(* The form of the panel.                                                  *)

OpenForm ==
    /\ form.pc \in {"closed", "done"}
    /\ form' = [pc |-> "open", of |-> None]
    /\ UNCHANGED <<draft, messages, tap, term, issued, lost, twice>>

\* The button is disabled while the answer is awaited.  After a failure the form
\* may be sent again.
SubmitForm(p) ==
    /\ form.pc \in {"open", "failed"}
    /\ \E d \in Fresh :
          /\ form' = [pc |-> "sent", of |-> d]
          /\ term' = [term EXCEPT ![d] = p]
    /\ UNCHANGED <<draft, messages, tap, issued, lost, twice>>

\* createManual
CreateManual ==
    /\ form.pc = "sent"
    /\ issued' = Counted(form.of)
    /\ form' = [form EXCEPT !.pc = "issued"]
    /\ UNCHANGED <<draft, messages, tap, term, lost, twice>>

ShowKey ==
    /\ form.pc = "issued"
    /\ form' = [form EXCEPT !.pc = "done"]
    /\ UNCHANGED <<draft, messages, tap, term, issued, lost, twice>>

\* The call fails before or after the license is made.
FailForm ==
    /\ form.pc \in {"sent", "issued"}
    /\ form' = [form EXCEPT !.pc = "failed"]
    /\ lost' = lost \cup {form.of}
    /\ UNCHANGED <<draft, messages, tap, term, issued, twice>>

Next ==
    \/ OpenDialog \/ PickPlan \/ LeaveDialog
    \/ \E w \in Workers, p \in Periods : PickPeriod(w, p)
    \/ \E w \in Workers : AskConfirm(w) \/ PressCreate(w) \/ IssueLicense(w)
    \/ \E w \in Workers : CheckFlow(w) \/ ClearFlow(w) \/ TellKey(w) \/ Crash(w)
    \/ OpenForm \/ CreateManual \/ ShowKey \/ FailForm
    \/ \E p \in Periods : SubmitForm(p)

Spec == Init /\ [][Next]_vars

-----------------------------------------------------------------------------
\* Safety.

\* A choice of duration makes one license, however often "create" is pressed,
\* unless two presses were handled at the same time or an invocation was ended:
\* a later press finds the dialog ended, and makes a license for a month.
OncePerDialog ==
    \A d \in Dialogs : issued[d] > 1 => d \in twice \cup lost
=============================================================================
