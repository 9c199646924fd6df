-------------------------- MODULE MCTelegramAccess --------------------------
(***************************************************************************)
(* What the links of the application prove, and how the bot keeps them     *)
(* until a language is chosen, share no state: the initial state chooses   *)
(* which of the two runs, and the variables of the other keep an initial   *)
(* value.                                                                  *)
(***************************************************************************)
EXTENDS TelegramAccess, TLC

VARIABLES part, account, session, update, opened, answered, given, doubled

\* The links of accounts open a prompt, and those of Links a screen.
D == INSTANCE DeepLinks WITH Links <- Accounts \cup Links, Android <- Links, req <- update

ASSUME LinksAssumption == D!DeepLinksAssumption

linkVars == <<account, session, update, opened, answered, given, doubled>>
allVars == <<part, vars, linkVars>>

BothInit ==
    /\ Init /\ D!Init
    /\ \/ part = "access" /\ account = "none"
       \/ part = "links"

BothNext ==
    /\ UNCHANGED part
    /\ \/ part = "access" /\ Next /\ UNCHANGED linkVars
       \/ part = "links" /\ D!Next /\ UNCHANGED vars

Both == BothInit /\ [][BothNext]_allVars

Symmetry == Permutations(Accounts) \cup Permutations(Challenges)
                \cup Permutations(Grants) \cup Permutations(Workers)

-----------------------------------------------------------------------------
\* A link is lost only for a reason.
NoLinkIsForgotten == D!NoLinkIsForgotten

\* A link is answered once.
AnsweredOnce == D!AnsweredOnce
=============================================================================
