----------------------------- MODULE SupportRelay -----------------------------
(***************************************************************************)
(* How customers and administrators write to each other through the bot.   *)
(* A text of a customer is put on record in a conversation and sent to     *)
(* every administrator; each copy is mapped to its customer, so that an    *)
(* administrator answers by replying to it.  Or the administrator opens a  *)
(* conversation, presses "reply", and the next text goes to its customer.  *)
(* Administrators come and go, calls fail and requests are killed.         *)
(*                                                                         *)
(* How a customer's session leads to a conversation, and who closes it, is *)
(* in BotChats: nothing here asks whether a conversation is still open.    *)
(* A photo or document takes the same steps as a text.                     *)
(***************************************************************************)
EXTENDS Integers, Sequences, FiniteSets

CONSTANTS
    Customers, Admins,
    Convs,      \* bound: the SupportConversation rows
    Owner,      \* the customer of each, which never changes
    MaxIds,     \* bound: the copies the bot sends to one administrator
    MaxPrompts, \* bound: the times an administrator presses "reply"
    MaxTexts,   \* bound: the texts of one conversation, and of a prompt but one
    Workers,    \* bound: the updates in progress at one time
    None        \* "no value"

\* What the constants are taken to be.
SupportRelayAssumption ==
    /\ MaxIds \in Nat /\ MaxPrompts \in Nat
    /\ Owner \in [Convs -> Customers]
    /\ None \notin Customers \cup Convs

VARIABLES
    asked,    \* SupportMessage rows USER_TO_ADMIN, counted by conversation
    answered, \* SupportMessage rows ADMIN_TO_USER, counted by conversation
    active,   \* the administrators the bot knows at this time
    chat,     \* whose text each message in an administrator's chat is a copy of
    mapping,  \* SupportRelayMapping rows, by chat and message id
    prompt,   \* the open prompt of each administrator: a TelegramBotSession row
    update,   \* the updates in progress
    opened,   \* history: the prompts opened so far
    sent,     \* history: texts that reached the customer of a prompt, by prompt
    about,    \* history: the conversation of each prompt
    shared,   \* history: prompts whose request did not end alone and well
    strayed   \* history: an answer reached somebody who did not ask

vars == <<asked, answered, active, chat, mapping, prompt, update,
          opened, sent, about, shared, strayed>>
history == <<opened, sent, about, shared, strayed>>

NoPrompt == [conv |-> None, id |-> 0]
Idle == [pc |-> "idle", who |-> None, conv |-> None, on |-> None,
         to |-> {}, id |-> 0]
Stages == {"idle", "append", "list", "send", "map", "replied", "answer", "text",
           "prompted", "deliver", "record", "clear", "clearing"}

MessageRows == [Convs -> Nat]
MappingRows == [Admins \X (1..MaxIds) -> Customers \cup {None}]
PromptRows == [Admins -> [conv : Convs \cup {None}, id : 0..MaxPrompts]]
Updates == [pc : Stages, who : Customers \cup Admins \cup {None},
            conv : Convs \cup {None}, on : Customers \cup Admins \cup {None},
            to : SUBSET Admins, id : 0..(MaxIds + MaxPrompts)]

TypeOK ==
    /\ asked \in MessageRows
    /\ answered \in MessageRows
    /\ active \subseteq Admins
    /\ \A a \in Admins : Len(chat[a]) <= MaxIds
    /\ mapping \in MappingRows
    /\ prompt \in PromptRows
    /\ \A w \in Workers : update[w] \in Updates
    /\ opened \in 0..MaxPrompts
    /\ shared \subseteq 1..MaxPrompts
    /\ strayed \in BOOLEAN

Init ==
    /\ asked = [v \in Convs |-> 0]
    /\ answered = [v \in Convs |-> 0]
    /\ active \in SUBSET Admins
    /\ chat = [a \in Admins |-> <<>>]
    /\ mapping = [k \in Admins \X (1..MaxIds) |-> None]
    /\ prompt = [a \in Admins |-> NoPrompt]
    /\ update = [w \in Workers |-> Idle]
    /\ opened = 0
    /\ sent = [p \in 1..MaxPrompts |-> 0]
    /\ about = [p \in 1..MaxPrompts |-> None]
    /\ shared = {}
    /\ strayed = FALSE

-----------------------------------------------------------------------------
\* A definition whose comment begins with "Mutant:" is a wrong version of the
\* definition that follows it.  Nothing uses it: it stands for a bug the
\* properties must notice.

At(w, stage) == update[w].pc = stage
Set(w, r) == update' = [update EXCEPT ![w] = r]
Goto(w, stage) == Set(w, [update[w] EXCEPT !.pc = stage])
Finish(w) == Set(w, Idle)

-----------------------------------------------------------------------------
\* A text of a customer in the support mode.
WriteText(w, v) ==
    /\ At(w, "idle")
    /\ asked[v] < MaxTexts
    /\ Set(w, [Idle EXCEPT !.pc = "append", !.who = Owner[v], !.conv = v])
    /\ UNCHANGED <<asked, answered, active, chat, mapping, prompt, history>>

AppendRow(v) == [asked EXCEPT ![v] = @ + 1]

\* appendUserMessage puts it on record, whatever the status of the conversation.
AppendUserMessage(w) ==
    /\ At(w, "append")
    /\ asked[update[w].conv] < MaxTexts
    /\ asked' = AppendRow(update[w].conv)
    /\ Set(w, [update[w] EXCEPT !.pc = "list", !.conv = None])
    /\ UNCHANGED <<answered, active, chat, mapping, prompt, history>>

\* listActiveAdminTelegramIds
ListAdmins(w) ==
    /\ At(w, "list")
    /\ IF active = {}
       THEN Finish(w)
       ELSE Set(w, [update[w] EXCEPT !.pc = "send", !.to = active])
    /\ UNCHANGED <<asked, answered, active, chat, mapping, prompt, history>>

\* The next administrator, or the end of the loop.
DoneWith(w, a) ==
    IF update[w].to = {a} THEN Finish(w)
    ELSE Set(w, [Idle EXCEPT !.pc = "send", !.who = update[w].who,
                             !.to = update[w].to \ {a}])

\* A copy is sent to one administrator; its id counts the messages of the chat.
SendCopy(w, a) ==
    /\ At(w, "send") /\ a \in update[w].to
    /\ Len(chat[a]) < MaxIds
    /\ chat' = [chat EXCEPT ![a] = Append(@, update[w].who)]
    /\ Set(w, [update[w] EXCEPT !.pc = "map", !.on = a, !.id = Len(chat[a]) + 1])
    /\ UNCHANGED <<asked, answered, active, mapping, prompt, history>>

\* The call fails: the error is logged.
CopyFails(w, a) ==
    /\ At(w, "send") /\ a \in update[w].to
    /\ DoneWith(w, a)
    /\ UNCHANGED <<asked, answered, active, chat, mapping, prompt, history>>

\* storeMapping; its error is logged too.
StoreMapping(w) ==
    /\ At(w, "map")
    /\ \/ mapping' = [mapping EXCEPT ![<<update[w].on, update[w].id>>] = update[w].who]
       \/ UNCHANGED mapping
    /\ DoneWith(w, update[w].on)
    /\ UNCHANGED <<asked, answered, active, chat, prompt, history>>

-----------------------------------------------------------------------------
\* An administrator replies to message n of the chat: handleMessage asks whether
\* the sender is one.
ReplyTo(w, a, n) ==
    /\ At(w, "idle")
    /\ a \in active
    /\ n \in 1..Len(chat[a])
    /\ Set(w, [Idle EXCEPT !.pc = "replied", !.who = a, !.id = n])
    /\ UNCHANGED <<asked, answered, active, chat, mapping, prompt, history>>

\* Mutant: the message is looked up by its id, which counts in every chat.
MappedById(a, n) == {mapping[<<b, n>>] : b \in Admins} \ {None}

Mapped(a, n) == {mapping[<<a, n>>]} \ {None}

\* deliverAdminReply: who is not in the list by now goes on as the sender of a
\* plain text; a message without mapping is answered "unknown target".
FindMapping(w) ==
    LET a == update[w].who IN
    /\ At(w, "replied")
    /\ IF a \notin active THEN Goto(w, "text")
       ELSE IF Mapped(a, update[w].id) = {} THEN Finish(w)
       ELSE \E c \in Mapped(a, update[w].id) :
              Set(w, [update[w] EXCEPT !.pc = "answer", !.on = c])
    /\ UNCHANGED <<asked, answered, active, chat, mapping, prompt, history>>

\* The answer is sent; it is not put on record.
SendAnswer(w) ==
    /\ At(w, "answer")
    /\ strayed' = (strayed \/ chat[update[w].who][update[w].id] # update[w].on)
    /\ Finish(w)
    /\ UNCHANGED <<asked, answered, active, chat, mapping, prompt, opened, sent,
                   about, shared>>

-----------------------------------------------------------------------------
\* The button "reply" of a conversation opens a prompt: the session row of the
\* administrator names the conversation and its customer.
OpenPrompt(a, v) ==
    /\ a \in active
    /\ opened < MaxPrompts
    /\ opened' = opened + 1
    /\ prompt' = [prompt EXCEPT ![a] = [conv |-> v, id |-> opened']]
    /\ about' = [about EXCEPT ![opened'] = v]
    /\ UNCHANGED <<asked, answered, active, chat, mapping, update, sent, shared, strayed>>

\* The session row expires, or another dialog takes it.
LosePrompt(a) ==
    /\ prompt[a] # NoPrompt
    /\ prompt' = [prompt EXCEPT ![a] = NoPrompt]
    /\ UNCHANGED <<asked, answered, active, chat, mapping, update, history>>

\* A text of an administrator that replies to nothing.
SendText(w, a) ==
    /\ At(w, "idle")
    /\ a \in active
    /\ prompt[a].conv # None
    /\ Set(w, [Idle EXCEPT !.pc = "text", !.who = a])
    /\ UNCHANGED <<asked, answered, active, chat, mapping, prompt, history>>

UsesPrompt(w) == update[w].pc \in {"prompted", "deliver", "record", "clear", "clearing"}
Using(p) == {w \in Workers : UsesPrompt(w) /\ update[w].id = p}

\* handleMessage asks again whether the sender is an administrator, and
\* handleAdminTextMessage reads the session.
ReadPrompt(w) ==
    LET a == update[w].who  p == prompt[a].id IN
    /\ At(w, "text")
    /\ IF a \in active /\ prompt[a].conv # None
       THEN /\ Set(w, [Idle EXCEPT !.pc = "prompted", !.who = a, !.id = p,
                                   !.conv = prompt[a].conv,
                                   !.on = Owner[prompt[a].conv]])
            /\ shared' = IF Using(p) # {} THEN shared \cup {p} ELSE shared
       ELSE Finish(w) /\ UNCHANGED shared
    /\ UNCHANGED <<asked, answered, active, chat, mapping, prompt, opened, sent,
                   about, strayed>>

\* deliverConversationReply asks a third time,
ListForPrompt(w) ==
    /\ At(w, "prompted")
    /\ Goto(w, IF update[w].who \in active THEN "deliver" ELSE "clear")
    /\ UNCHANGED <<asked, answered, active, chat, mapping, prompt, history>>

\* sends the text to the customer,
SendPrompted(w) ==
    /\ At(w, "deliver")
    /\ sent[update[w].id] <= MaxTexts
    /\ sent' = [sent EXCEPT ![update[w].id] = @ + 1]
    /\ strayed' = (strayed \/ Owner[about[update[w].id]] # update[w].on)
    /\ Goto(w, "record")
    /\ UNCHANGED <<asked, answered, active, chat, mapping, prompt, opened, about,
                   shared>>

\* and puts it on record in the conversation.
AppendAdminMessage(w) ==
    /\ At(w, "record")
    /\ answered' = [answered EXCEPT ![update[w].conv] = @ + 1]
    /\ Goto(w, "clear")
    /\ UNCHANGED <<asked, active, chat, mapping, prompt, history>>

\* Mutant: the prompt stays.
ClearsNever(a) == FALSE

Clears(a) == prompt[a].conv # None

\* clearFlow reads the session again,
ReadFlow(w) ==
    /\ At(w, "clear")
    /\ IF Clears(update[w].who) THEN Goto(w, "clearing") ELSE Finish(w)
    /\ UNCHANGED <<asked, answered, active, chat, mapping, prompt, history>>

\* and deletes the row, whatever it holds by now.
ClearSession(w) ==
    /\ At(w, "clearing")
    /\ prompt' = [prompt EXCEPT ![update[w].who] = NoPrompt]
    /\ Finish(w)
    /\ UNCHANGED <<asked, answered, active, chat, mapping, history>>

-----------------------------------------------------------------------------
\* A call outside of a try fails, or the invocation ends: the update is over.
Crash(w) ==
    /\ update[w].pc # "idle"
    /\ Finish(w)
    /\ shared' = IF UsesPrompt(w) THEN shared \cup {update[w].id} ELSE shared
    /\ UNCHANGED <<asked, answered, active, chat, mapping, prompt, opened, sent,
                   about, strayed>>

\* Administrators are bound and disconnected.
ChangeAdmin(a) ==
    /\ active' = IF a \in active THEN active \ {a} ELSE active \cup {a}
    /\ UNCHANGED <<asked, answered, chat, mapping, prompt, update, history>>

Next ==
    \/ \E w \in Workers, v \in Convs : WriteText(w, v)
    \/ \E w \in Workers : AppendUserMessage(w)
    \/ \E w \in Workers, a \in Admins : SendCopy(w, a) \/ CopyFails(w, a) \/ SendText(w, a)
    \/ \E w \in Workers, a \in Admins, n \in 1..MaxIds : ReplyTo(w, a, n)
    \/ \E w \in Workers : ListAdmins(w) \/ StoreMapping(w) \/ FindMapping(w) \/ SendAnswer(w)
    \/ \E w \in Workers : ReadPrompt(w) \/ ListForPrompt(w) \/ SendPrompted(w)
    \/ \E w \in Workers : AppendAdminMessage(w) \/ ReadFlow(w) \/ ClearSession(w) \/ Crash(w)
    \/ \E a \in Admins, v \in Convs : OpenPrompt(a, v)
    \/ \E a \in Admins : LosePrompt(a) \/ ChangeAdmin(a)

Spec == Init /\ [][Next]_vars

-----------------------------------------------------------------------------
\* Safety.

\* An answer reaches the customer whose text the administrator replied to, or
\* whose conversation was opened for the prompt, whichever administrator
\* answers and whatever was sent or opened since.
AnswersReachAsker == ~strayed

\* One press of "reply" sends one text: a second one reaches the customer only
\* if both were under way at one time, or the request of the first one failed.
OnePromptOneText == \A p \in 1..MaxPrompts : sent[p] > 1 => p \in shared
=============================================================================
