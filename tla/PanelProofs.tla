----------------------------- MODULE PanelProofs -----------------------------
(***************************************************************************)
(* The four parts of MCPanel, for any number of tabs, administrators,      *)
(* Telegram users, customers, previews and concurrent requests.  Each has  *)
(* an inductive invariant of its own; the parts share no variable.         *)
(***************************************************************************)
EXTENDS MCPanel, Integers, Sequences, TLAPS

-----------------------------------------------------------------------------
\* The page of resets.

\* A preview that a tab shows was issued, and for the scope that is shown, for as
\* long as it is good.
ShowsIssued(t) ==
    tab[t].shown # None =>
        /\ tab[t].shown.id \in Workers
        /\ preview[tab[t].shown.id].life # "none"
        /\ preview[tab[t].shown.id].life = "here" =>
             preview[tab[t].shown.id].scope = tab[t].shown.scope

\* A reset was counted for its scope from the time it was confirmed.
CountedRight(t) == reset[t].pc # "none" => reset[t].counted = reset[t].scope

TabRows == [admin : EnvIds, scope : Codes, asked : Codes \cup {None},
            shown : G!Shown \cup {None}]
RowsSeeing(Counts) ==
    [pc : {"none", "read", "verify", "run"}, scope : Codes \cup {None},
     counted : Codes \cup {None}, password : Tabs \cup {None},
     seen : Counts, known : Tabs \cup {None}]
ResetRows == RowsSeeing(0 .. MaxAttempts)

ResetIInv ==
    /\ G!TypeOK
    /\ \A t \in Tabs : ShowsIssued(t) /\ CountedRight(t)

\* The two ways a reset goes on.
LEMMA RowGoesOn ==
    ASSUME NEW Counts, NEW r \in RowsSeeing(Counts), NEW k \in Tabs \cup {None},
           NEW n \in Counts, NEW c \in {"none", "read", "verify", "run"}
    PROVE  /\ [r EXCEPT !.pc = c, !.known = k] \in RowsSeeing(Counts)
           /\ [r EXCEPT !.pc = c, !.password = None, !.known = k, !.seen = n]
                \in RowsSeeing(Counts)
BY DEF RowsSeeing

LEMMA ResetTypes ==
    G!TypeOK <=> /\ credential \in Tabs \cup {None}
                 /\ preview \in [Workers -> G!Token]
                 /\ failed \in [EnvIds -> G!Counter]
                 /\ tab \in [Tabs -> TabRows]
                 /\ reset \in [Tabs -> ResetRows]
                 /\ save \in [Challenges -> [pc : {"none", "create", "update"},
                                            new : Tabs \cup {None}]]
BY DEF G!TypeOK, TabRows, ResetRows, RowsSeeing

\* The same of the next state.
LEMMA ResetTypesNext ==
    ASSUME credential' \in Tabs \cup {None},
           preview' \in [Workers -> G!Token],
           failed' \in [EnvIds -> G!Counter],
           tab' \in [Tabs -> TabRows],
           reset' \in [Tabs -> ResetRows],
           save' \in [Challenges -> [pc : {"none", "create", "update"},
                                     new : Tabs \cup {None}]]
    PROVE  G!TypeOK'
BY DEF G!TypeOK, TabRows, ResetRows, RowsSeeing

LEMMA ResetFirst == G!Init => ResetIInv
<1> SUFFICES ASSUME G!Init PROVE ResetIInv
  OBVIOUS
<1>1. G!TypeOK
  BY ResetAssumption
     DEF G!ResetGateAssumption, G!Init, G!TypeOK, G!Fresh, G!Token, G!Counter, G!Zero,
         G!NoReq, G!NoSave
<1>2. \A t \in Tabs : ShowsIssued(t) /\ CountedRight(t)
  BY DEF G!Init, ShowsIssued, CountedRight, G!Fresh, G!NoReq
<1> QED
  BY <1>1, <1>2 DEF ResetIInv

\* Steps that show nothing new and confirm nothing.
LEMMA QuietStep ==
    ASSUME ResetIInv,
           \A t \in Tabs : tab'[t].shown \in {tab[t].shown, None},
           \A t \in Tabs : \/ reset'[t].pc = "none"
                           \/ /\ reset[t].pc # "none"
                              /\ reset'[t].counted = reset[t].counted
                              /\ reset'[t].scope = reset[t].scope,
           \A i \in Workers : preview'[i] = preview[i] \/ preview'[i].life = "gone"
    PROVE  \A t \in Tabs : ShowsIssued(t)' /\ CountedRight(t)'
<1>1. ASSUME NEW t \in Tabs
      PROVE  CountedRight(t)'
  BY DEF ResetIInv, CountedRight
<1>2. ASSUME NEW t \in Tabs
      PROVE  ShowsIssued(t)'
  BY DEF ResetIInv, ShowsIssued
<1> QED
  BY <1>1, <1>2

LEMMA GateValues ==
    /\ G!Zero \in G!Counter /\ G!Gone \in G!Token /\ G!Gone.life = "gone"
    /\ G!NoReq \in ResetRows /\ G!NoReq.pc = "none"
    /\ \A n \in 0 .. MaxAttempts : G!Counted(n) \in G!Counter
<1>1. MaxAttempts \in Nat \ {0}
  BY ResetAssumption DEF G!ResetGateAssumption
<1>2. G!Zero \in G!Counter
  BY <1>1 DEF G!Zero, G!Counter
<1>3. G!Gone \in G!Token /\ G!Gone.life = "gone"
  BY DEF G!Gone, G!Token
<1>4. G!NoReq \in ResetRows /\ G!NoReq.pc = "none"
  BY <1>1 DEF G!NoReq, ResetRows, RowsSeeing
<1>5. ASSUME NEW n \in 0 .. MaxAttempts
      PROVE  G!Counted(n) \in G!Counter
  BY <1>1, <1>5 DEF G!Counted, G!Counter
<1> QED
  BY <1>2, <1>3, <1>4, <1>5

\* The answer of a reset, done or refused.
LEMMA AnswerKeeps ==
    ASSUME ResetIInv, NEW t \in Tabs, G!Answer(t)
    PROVE  /\ tab' \in [Tabs -> TabRows] /\ reset' \in [Tabs -> ResetRows]
           /\ \A x \in Tabs : /\ tab'[x].shown \in {tab[x].shown, None}
                              /\ reset'[x] = reset[x] \/ reset'[x].pc = "none"
<1>t. tab \in [Tabs -> TabRows] /\ reset \in [Tabs -> ResetRows]
  BY ResetTypes DEF ResetIInv
<1>1. tab' = [tab EXCEPT ![t].shown = None]
  BY DEF G!Answer
<1>2. reset' = [reset EXCEPT ![t] = G!NoReq]
  BY DEF G!Answer
<1>3. tab' \in [Tabs -> TabRows] /\ \A x \in Tabs : tab'[x].shown \in {tab[x].shown, None}
  BY <1>t, <1>1 DEF TabRows
<1>4. reset' \in [Tabs -> ResetRows]
  BY <1>t, <1>2, GateValues
<1>5. \A x \in Tabs : reset'[x] = reset[x] \/ reset'[x].pc = "none"
  BY <1>t, <1>2, GateValues
<1> QED
  BY <1>3, <1>4, <1>5

LEMMA ConfirmKeeps ==
    ASSUME ResetIInv, NEW t \in Tabs, NEW p \in Tabs, G!Confirm(t, p)
    PROVE  ResetIInv'
<1>t. /\ tab \in [Tabs -> TabRows] /\ reset \in [Tabs -> ResetRows]
      /\ preview \in [Workers -> G!Token] /\ failed \in [EnvIds -> G!Counter]
  BY ResetTypes DEF ResetIInv
<1> DEFINE i == tab[t].shown.id
<1>1. /\ tab[t].shown # None /\ i \in Workers
      /\ tab[t].admin \in EnvIds /\ tab[t].scope \in Codes
      /\ tab[t].shown.scope \in Codes
  BY <1>t DEF G!Confirm, G!CanExecute, TabRows, G!Shown
<1>2. /\ preview' = [preview EXCEPT ![i] = G!Gone]
      /\ UNCHANGED <<credential, failed, save>>
  BY DEF G!Confirm
<1>3. /\ preview' \in [Workers -> G!Token]
      /\ \A x \in Workers : preview'[x] = preview[x] \/ preview'[x].life = "gone"
  BY <1>t, <1>1, <1>2, GateValues
<1>4. CASE G!Answer(t)
  <2>1. G!TypeOK'
    BY <1>2, <1>3, <1>4, AnswerKeeps, ResetTypes, ResetTypesNext DEF ResetIInv
  <2>2. \A x \in Tabs : ShowsIssued(x)' /\ CountedRight(x)'
    BY <1>3, <1>4, AnswerKeeps, QuietStep
  <2> QED
    BY <2>1, <2>2 DEF ResetIInv
<1>5. CASE ~G!Answer(t)
  <2> DEFINE x == [G!NoReq EXCEPT !.pc = "read", !.password = p,
                     !.seen = failed[tab[t].admin].count,
                     !.scope = tab[t].scope, !.counted = tab[t].shown.scope]
  <2>1. /\ reset' = [reset EXCEPT ![t] = x] /\ UNCHANGED tab
        /\ G!Fits(preview[i], tab[t].admin, tab[t].scope)
    BY <1>5 DEF G!Confirm
  <2>2. failed[tab[t].admin].count \in 0 .. MaxAttempts
    BY <1>t, <1>1 DEF G!Counter
  <2>3. x \in ResetRows /\ x.scope = tab[t].scope /\ x.counted = tab[t].shown.scope
    BY <1>1, <2>2 DEF G!NoReq, ResetRows, RowsSeeing
  <2>4. x.scope = x.counted
    BY <1>1, <2>1, <2>3 DEF ResetIInv, ShowsIssued, G!Fits
  <2> HIDE DEF x
  <2>5. G!TypeOK'
    <3>1. reset' \in [Tabs -> ResetRows]
      BY <1>t, <2>1, <2>3
    <3> QED
      BY <1>t, <1>2, <1>3, <2>1, <3>1, ResetTypes, ResetTypesNext DEF ResetIInv
  <2>6. \A y \in Tabs : CountedRight(y)'
    BY <1>t, <2>1, <2>4 DEF ResetIInv, CountedRight
  <2>7. \A y \in Tabs : ShowsIssued(y)'
    BY <1>3, <2>1 DEF ResetIInv, ShowsIssued
  <2> QED
    BY <2>5, <2>6, <2>7 DEF ResetIInv
<1> QED
  BY <1>4, <1>5

\* Every step of the page, the service, the saving of passwords and of time.
LEMMA ResetStep ==
    ASSUME ResetIInv, G!Next
    PROVE  ResetIInv'
<1>t. /\ credential \in Tabs \cup {None} /\ preview \in [Workers -> G!Token]
      /\ failed \in [EnvIds -> G!Counter] /\ tab \in [Tabs -> TabRows]
      /\ reset \in [Tabs -> ResetRows]
      /\ save \in [Challenges -> [pc : {"none", "create", "update"},
                                  new : Tabs \cup {None}]]
  BY ResetTypes DEF ResetIInv
<1>0. \A i \in Workers : preview[i] = preview[i]
  OBVIOUS
<1>1. ASSUME NEW t \in Tabs, NEW s \in Codes, G!SelectScope(t, s)
      PROVE  ResetIInv'
  <2>1. /\ tab' = [tab EXCEPT ![t].scope = s, ![t].shown = None]
        /\ UNCHANGED <<credential, preview, failed, reset, save>>
    BY <1>1 DEF G!SelectScope
  <2>2. /\ tab' \in [Tabs -> TabRows]
        /\ \A x \in Tabs : tab'[x].shown \in {tab[x].shown, None}
    BY <1>t, <2>1 DEF TabRows
  <2>3. \A x \in Tabs : ShowsIssued(x)' /\ CountedRight(x)'
    BY <2>1, <2>2, QuietStep
  <2> QED
    BY <1>t, <2>1, <2>2, <2>3, ResetTypesNext DEF ResetIInv
<1>2. ASSUME NEW t \in Tabs, G!AskPreview(t)
      PROVE  ResetIInv'
  <2>1. /\ tab' = [tab EXCEPT ![t].asked = tab[t].scope]
        /\ UNCHANGED <<credential, preview, failed, reset, save>>
    BY <1>2 DEF G!AskPreview
  <2>2. /\ tab' \in [Tabs -> TabRows]
        /\ \A x \in Tabs : tab'[x].shown \in {tab[x].shown, None}
    BY <1>t, <2>1 DEF TabRows
  <2>3. \A x \in Tabs : ShowsIssued(x)' /\ CountedRight(x)'
    BY <2>1, <2>2, QuietStep
  <2> QED
    BY <1>t, <2>1, <2>2, <2>3, ResetTypesNext DEF ResetIInv
<1>3. ASSUME NEW t \in Tabs, G!PreviewFails(t)
      PROVE  ResetIInv'
  <2>1. /\ tab' = [tab EXCEPT ![t].asked = None, ![t].shown = None]
        /\ UNCHANGED <<credential, preview, failed, reset, save>>
    BY <1>3 DEF G!PreviewFails
  <2>2. /\ tab' \in [Tabs -> TabRows]
        /\ \A x \in Tabs : tab'[x].shown \in {tab[x].shown, None}
    BY <1>t, <2>1 DEF TabRows
  <2>3. \A x \in Tabs : ShowsIssued(x)' /\ CountedRight(x)'
    BY <2>1, <2>2, QuietStep
  <2> QED
    BY <1>t, <2>1, <2>2, <2>3, ResetTypesNext DEF ResetIInv
<1>4. ASSUME NEW t \in Tabs, NEW i \in Workers, G!IssuePreview(t, i)
      PROVE  ResetIInv'
  <2> DEFINE token == [life |-> "here", admin |-> tab[t].admin, scope |-> tab[t].asked]
  <2>1. /\ tab[t].asked \in Codes /\ preview[i].life = "none"
        /\ preview' = [preview EXCEPT ![i] = token]
        /\ UNCHANGED <<credential, failed, reset, save>>
    BY <1>4, <1>t DEF G!IssuePreview, G!Waits, TabRows
  <2>2. PICK shown \in {[id |-> i, scope |-> tab[t].asked], None} :
           tab' = [tab EXCEPT ![t].asked = None, ![t].shown = shown]
    BY <1>4 DEF G!IssuePreview
  <2>3. token \in G!Token /\ token.life = "here" /\ token.scope = tab[t].asked
    BY <1>t, <2>1 DEF G!Token, TabRows
  <2>4. shown \in G!Shown \cup {None}
    BY <2>1, <2>2 DEF G!Shown
  <2> HIDE DEF token
  <2>5. preview' \in [Workers -> G!Token] /\ preview'[i] = token
        /\ \A x \in Workers \ {i} : preview'[x] = preview[x]
    BY <1>t, <2>1, <2>3
  <2>6. tab' \in [Tabs -> TabRows]
    BY <1>t, <2>2, <2>4 DEF TabRows
  <2>7. tab'[t].shown = shown /\ \A x \in Tabs \ {t} : tab'[x] = tab[x]
    BY <1>t, <2>2 DEF TabRows
  <2>8. \A x \in Tabs : ShowsIssued(x)'
    <3>1. ShowsIssued(t)'
      BY <2>2, <2>3, <2>5, <2>7 DEF ShowsIssued
    <3>2. ASSUME NEW x \in Tabs \ {t}, tab[x].shown # None
          PROVE  tab[x].shown.id # i /\ tab[x].shown.id \in Workers
      BY <2>1, <3>2 DEF ResetIInv, ShowsIssued
    <3>3. ASSUME NEW x \in Tabs \ {t}
          PROVE  ShowsIssued(x)'
      BY <2>5, <2>7, <3>2 DEF ResetIInv, ShowsIssued
    <3> QED
      BY <3>1, <3>3
  <2>9. \A x \in Tabs : CountedRight(x)'
    BY <2>1 DEF ResetIInv, CountedRight
  <2> QED
    BY <1>t, <2>1, <2>5, <2>6, <2>8, <2>9, ResetTypesNext DEF ResetIInv
<1>5. ASSUME NEW i \in Workers, G!PreviewExpires(i)
      PROVE  ResetIInv'
  <2>1. /\ preview' = [preview EXCEPT ![i] = G!Gone]
        /\ UNCHANGED <<credential, failed, tab, reset, save>>
    BY <1>5 DEF G!PreviewExpires
  <2>2. /\ preview' \in [Workers -> G!Token]
        /\ \A x \in Workers : preview'[x] = preview[x] \/ preview'[x].life = "gone"
    BY <1>t, <2>1, GateValues
  <2>3. \A x \in Tabs : ShowsIssued(x)' /\ CountedRight(x)'
    BY <2>1, <2>2, QuietStep
  <2> QED
    BY <1>t, <2>1, <2>2, <2>3, ResetTypesNext DEF ResetIInv
<1>6. ASSUME NEW t \in Tabs, G!ReadCredential(t)
      PROVE  ResetIInv'
  <2>1. UNCHANGED <<credential, preview, failed, save>>
    BY <1>6 DEF G!ReadCredential
  <2>2. CASE G!Answer(t)
    BY <1>t, <2>1, <2>2, AnswerKeeps, QuietStep, ResetTypesNext DEF ResetIInv
  <2>3. CASE ~G!Answer(t)
    <3>1. /\ reset' = [reset EXCEPT ![t].pc = "verify", ![t].known = credential]
          /\ UNCHANGED tab /\ reset[t].pc = "read"
      BY <1>6, <2>3 DEF G!ReadCredential, G!Asked
    <3>2. reset' \in [Tabs -> ResetRows]
      <4> DEFINE x == [reset[t] EXCEPT !.pc = "verify", !.known = credential]
      <4>1. reset[t] \in ResetRows /\ reset' = [reset EXCEPT ![t] = x]
        BY <1>t, <3>1
      <4>2. x \in ResetRows
        <5>1. reset[t].seen \in 0 .. MaxAttempts
          BY <4>1 DEF ResetRows, RowsSeeing
        <5> QED
          BY <1>t, <4>1, <5>1, RowGoesOn DEF ResetRows
      <4> HIDE DEF x
      <4> QED
        BY <1>t, <4>1, <4>2
    <3>3. \A x \in Tabs : /\ reset'[x].counted = reset[x].counted
                          /\ reset'[x].scope = reset[x].scope
                          /\ reset'[x].pc # "none" => reset[x].pc # "none"
      BY <1>t, <3>1 DEF ResetRows, RowsSeeing
    <3>4. \A x \in Tabs : ShowsIssued(x)' /\ CountedRight(x)'
      BY <2>1, <3>1, <3>3, QuietStep
    <3> QED
      BY <1>t, <2>1, <3>1, <3>2, <3>4, ResetTypesNext DEF ResetIInv
  <2> QED
    BY <2>2, <2>3
<1>7. ASSUME NEW t \in Tabs, G!VerifyRight(t)
      PROVE  ResetIInv'
  <2> DEFINE x == [reset[t] EXCEPT !.pc = "run", !.password = None, !.known = None,
                                   !.seen = 0]
  <2>1. /\ reset' = [reset EXCEPT ![t] = x] /\ reset[t].pc = "verify"
        /\ failed' = [failed EXCEPT ![tab[t].admin] = G!Zero]
        /\ UNCHANGED <<credential, preview, tab, save>>
    BY <1>7, <1>t DEF G!VerifyRight, G!Asked
  <2>2. MaxAttempts \in Nat \ {0} /\ reset[t] \in ResetRows /\ tab[t].admin \in EnvIds
    BY <1>t, ResetAssumption DEF G!ResetGateAssumption, TabRows
  <2>3. x \in ResetRows /\ x.scope = reset[t].scope /\ x.counted = reset[t].counted
    <3>1. 0 \in 0 .. MaxAttempts
      BY <2>2
    <3>2. x \in ResetRows
      BY <2>2, <3>1, RowGoesOn DEF ResetRows
    <3>3. x.scope = reset[t].scope /\ x.counted = reset[t].counted
      BY <2>2 DEF ResetRows, RowsSeeing
    <3> QED
      BY <3>2, <3>3
  <2> HIDE DEF x
  <2>4. /\ reset' \in [Tabs -> ResetRows] /\ failed' \in [EnvIds -> G!Counter]
    BY <1>t, <2>1, <2>2, <2>3, GateValues
  <2>5. \A y \in Tabs : /\ reset'[y].counted = reset[y].counted
                        /\ reset'[y].scope = reset[y].scope
                        /\ reset'[y].pc # "none" => reset[y].pc # "none"
    BY <1>t, <2>1, <2>3
  <2>6. \A y \in Tabs : ShowsIssued(y)' /\ CountedRight(y)'
    BY <2>1, <2>5, QuietStep
  <2> QED
    BY <1>t, <2>1, <2>4, <2>6, ResetTypesNext DEF ResetIInv
<1>8. ASSUME NEW t \in Tabs, G!VerifyWrong(t)
      PROVE  ResetIInv'
  <2>1. /\ failed' = [failed EXCEPT ![tab[t].admin] = G!Counted(reset[t].seen)]
        /\ G!Answer(t) /\ UNCHANGED <<credential, preview, save>>
    BY <1>8 DEF G!VerifyWrong
  <2>2. reset[t].seen \in 0 .. MaxAttempts
    BY <1>t DEF ResetRows, RowsSeeing
  <2>3. failed' \in [EnvIds -> G!Counter]
    BY <1>t, <2>1, <2>2, GateValues
  <2>4. \A x \in Tabs : ShowsIssued(x)' /\ CountedRight(x)'
    BY <2>1, AnswerKeeps, QuietStep
  <2> QED
    BY <1>t, <2>1, <2>3, <2>4, AnswerKeeps, ResetTypesNext DEF ResetIInv
<1>9. ASSUME NEW t \in Tabs, G!Answered(t)
      PROVE  ResetIInv'
  <2>1. G!Answer(t) /\ UNCHANGED <<credential, preview, failed, save>>
    BY <1>9 DEF G!Answered
  <2> QED
    BY <1>t, <2>1, AnswerKeeps, QuietStep, ResetTypesNext DEF ResetIInv
<1>10. ASSUME NEW v \in Challenges, G!Save(v)
       PROVE  ResetIInv'
  <2>1. UNCHANGED <<preview, failed, tab, reset>>
    BY <1>10 DEF G!Save, G!InitializePassword, G!ChangePassword, G!CreatePassword,
                 G!UpdatePassword
  <2>2. /\ credential' \in Tabs \cup {None}
        /\ save' \in [Challenges -> [pc : {"none", "create", "update"},
                                     new : Tabs \cup {None}]]
    BY <1>t, <1>10 DEF G!Save, G!InitializePassword, G!ChangePassword,
                       G!CreatePassword, G!UpdatePassword, G!SavingEnds, G!NoSave
  <2>3. \A x \in Tabs : ShowsIssued(x)' /\ CountedRight(x)'
    BY <2>1 DEF ResetIInv, ShowsIssued, CountedRight
  <2> QED
    BY <1>t, <2>1, <2>2, <2>3, ResetTypesNext DEF ResetIInv
<1>11. ASSUME NEW a \in EnvIds, G!LockEnds(a)
       PROVE  ResetIInv'
  <2>1. /\ failed' = [failed EXCEPT ![a].locked = FALSE]
        /\ UNCHANGED <<credential, preview, tab, reset, save>>
    BY <1>11 DEF G!LockEnds
  <2>2. failed' \in [EnvIds -> G!Counter]
    BY <1>t, <2>1 DEF G!Counter
  <2>3. \A x \in Tabs : ShowsIssued(x)' /\ CountedRight(x)'
    BY <2>1 DEF ResetIInv, ShowsIssued, CountedRight
  <2> QED
    BY <1>t, <2>1, <2>2, <2>3, ResetTypesNext DEF ResetIInv
<1>12. CASE G!Restart
  <2>1. /\ preview' = [i \in Workers |-> IF preview[i].life = "none" THEN preview[i]
                                         ELSE G!Gone]
        /\ failed' = [a \in EnvIds |-> G!Zero]
        /\ reset' = [t \in Tabs |-> G!NoReq]
        /\ tab' = [t \in Tabs |-> IF reset[t].pc = "none" THEN tab[t]
                                  ELSE [tab[t] EXCEPT !.shown = None]]
        /\ save' = [v \in Challenges |-> G!NoSave]
        /\ UNCHANGED credential
    BY <1>12 DEF G!Restart, G!Asked
  <2>2. preview' \in [Workers -> G!Token] /\ failed' \in [EnvIds -> G!Counter]
        /\ reset' \in [Tabs -> ResetRows]
    BY <1>t, <2>1, GateValues
  <2>3. /\ tab' \in [Tabs -> TabRows]
        /\ \A x \in Tabs : tab'[x].shown \in {tab[x].shown, None}
    BY <1>t, <2>1 DEF TabRows
  <2>4. save' \in [Challenges -> [pc : {"none", "create", "update"},
                                  new : Tabs \cup {None}]]
    BY <2>1 DEF G!NoSave
  <2>5. \A i \in Workers : preview'[i] = preview[i] \/ preview'[i].life = "gone"
    BY <1>t, <2>1, GateValues
  <2>6. \A x \in Tabs : ShowsIssued(x)' /\ CountedRight(x)'
    BY <2>1, <2>3, <2>5, GateValues, QuietStep
  <2> QED
    BY <1>t, <2>1, <2>2, <2>3, <2>4, <2>6, ResetTypesNext DEF ResetIInv
<1>13. ASSUME NEW t \in Tabs, NEW p \in Tabs, G!Confirm(t, p)
       PROVE  ResetIInv'
  BY <1>13, ConfirmKeeps
<1> QED
  BY <1>1, <1>2, <1>3, <1>4, <1>5, <1>6, <1>7, <1>8, <1>9, <1>10, <1>11, <1>12, <1>13
     DEF G!Next, G!Page, G!Service

LEMMA ResetStutters ==
    ASSUME ResetIInv, UNCHANGED resetVars
    PROVE  ResetIInv'
<1>1. UNCHANGED <<credential, preview, failed, tab, reset, save>>
  BY DEF resetVars
<1>2. \A t \in Tabs : ShowsIssued(t)' /\ CountedRight(t)'
  BY <1>1 DEF ResetIInv, ShowsIssued, CountedRight
<1>3. G!TypeOK'
  BY <1>1 DEF ResetIInv, G!TypeOK
<1> QED
  BY <1>2, <1>3 DEF ResetIInv

THEOREM ResetInvariance == Spec => [](part = "reset" => ResetIInv)
<1>1. Init => (part = "reset" => ResetIInv)
  BY ResetFirst DEF Init
<1>2. ASSUME part = "reset" => ResetIInv, [Next]_allVars
      PROVE  (part = "reset" => ResetIInv)'
  <2>1. CASE Next
    <3>1. part' = part
      BY <2>1 DEF Next
    <3>2. ASSUME part = "reset"
          PROVE  ResetIInv'
      <4>1. G!Next
        BY <2>1, <3>2 DEF Next
      <4> QED
        BY <1>2, <3>2, <4>1, ResetStep
    <3> QED
      BY <3>1, <3>2
  <2>2. CASE UNCHANGED allVars
    <3>1. part' = part /\ UNCHANGED resetVars
      BY <2>2 DEF allVars
    <3> QED
      BY <1>2, <3>1, ResetStutters
  <2> QED
    BY <1>2, <2>1, <2>2
<1> QED
  BY <1>1, <1>2, PTL DEF Spec

\* Nobody resets what he has not seen (executeReset, consumePreviewToken): whatever
\* order previews, scopes, answers and restarts come in, a reset runs only if the
\* counts on the screen where it was confirmed were those of its scope.
THEOREM NothingUnseenIsReset == Spec => []ConfirmedIsPreviewed
<1>1. (part = "reset" => ResetIInv) => ConfirmedIsPreviewed
  BY DEF ConfirmedIsPreviewed, G!ConfirmedIsPreviewed, G!Asked, ResetIInv, CountedRight
<1> QED
  BY <1>1, ResetInvariance, PTL

-----------------------------------------------------------------------------
\* The Telegram accounts of administrators.

TgRows == [pc : T!Stages, admin : Admins \cup {None}, user : Users \cup {None},
           old : Users \cup {None}, on : Codes \cup Challenges \cup {None},
           was : BOOLEAN, granted : BOOLEAN]

\* A binding that is in force.
BoundRight(a) ==
    identity[a].active =>
        /\ identity[a].user \in Users
        /\ <<a, identity[a].user>> \in proven
        /\ identity[a].user \notin deny \ stale

\* What a request took from a code, a challenge or an identity that was good, if
\* pairs are those proven.
TookRight(r, pairs) ==
    /\ r.pc \in {"link", "linkTx"} =>
         r.admin \in Admins /\ r.user \in Users /\ r.on \in Codes
    /\ r.pc = "bind" => r.user \in Users /\ r.on \in Challenges
    /\ r.pc \in {"verify", "verifyTx"} =>
         /\ r.admin \in Admins /\ r.user \in Users /\ r.on \in Challenges
         /\ <<r.admin, r.user>> \in pairs
    /\ r.pc = "disconnect" => r.admin \in Admins /\ r.old \in Users
    /\ r.pc \in {"count", "identity"} => r.user \in Users

\* A check that finds its user bound has seen him right, be he denied by now.
SeenRight(r) ==
    /\ r.pc \in {"count", "identity"} /\ T!ActiveIn(identity, r.user) => r.was
    /\ r.granted => r.was

AdminsOfCodes ==
    /\ \A k \in Codes : code[k].state = "open" => code[k].admin \in Admins
    /\ \A c \in Challenges : challenge[c].state = "open" => challenge[c].admin \in Admins

TelegramIInv ==
    /\ T!TypeOK
    /\ AdminsOfCodes
    /\ \A a \in Admins : BoundRight(a)
    /\ \A w \in Workers : TookRight(req[w], proven) /\ SeenRight(req[w])

TgTypes ==
    /\ identity \in T!IdentityRows /\ deny \in T!DeniedRows
    /\ code \in T!CodeRows /\ challenge \in T!ChallengeRows
    /\ req \in [Workers -> TgRows]
    /\ proven \subseteq Admins \X Users /\ stale \subseteq Users

OwnUsers ==
    \A a, b \in Admins : identity[a].user = identity[b].user =>
        a = b \/ identity[a].user = None

LEMMA TgTypeOK == T!TypeOK <=> TgTypes /\ OwnUsers
BY DEF T!TypeOK, TgTypes, OwnUsers, TgRows

LEMMA TgTypeOKNext == TgTypes' /\ OwnUsers' => T!TypeOK'
BY DEF T!TypeOK, TgTypes, OwnUsers, TgRows

LEMMA IdleRow ==
    /\ T!Idle \in TgRows /\ T!Idle.pc = "idle" /\ ~T!Idle.granted
    /\ T!NoCode \in [admin : Admins \cup {None}, state : {"none", "open", "closed"}]
    /\ T!ClosedCode \in [admin : Admins \cup {None}, state : {"none", "open", "closed"}]
    /\ T!ClosedCode.state = "closed" /\ T!NoCode.state = "none"
    /\ T!NoChallenge \in [admin : Admins \cup {None}, user : Users \cup {None},
                          state : {"none", "open", "closed"}]
    /\ T!ClosedChallenge \in [admin : Admins \cup {None}, user : Users \cup {None},
                              state : {"none", "open", "closed"}]
    /\ T!ClosedChallenge.state = "closed" /\ T!NoChallenge.state = "none"
BY DEF T!Idle, TgRows, T!Stages, T!NoCode, T!ClosedCode, T!NoChallenge, T!ClosedChallenge

LEMMA TelegramFirst == T!Init => TelegramIInv
<1> SUFFICES ASSUME T!Init PROVE TelegramIInv
  OBVIOUS
<1>1. TgTypes /\ OwnUsers
  BY IdleRow
     DEF T!Init, TgTypes, OwnUsers, T!IdentityRows, T!NoIdentity, T!DeniedRows,
         T!CodeRows, T!ChallengeRows
<1>2. AdminsOfCodes /\ \A a \in Admins : BoundRight(a)
  BY IdleRow DEF T!Init, AdminsOfCodes, BoundRight, T!NoIdentity
<1>3. \A w \in Workers : TookRight(req[w], proven) /\ SeenRight(req[w])
  BY IdleRow DEF T!Init, TookRight, SeenRight
<1> QED
  BY <1>1, <1>2, <1>3, TgTypeOK DEF TelegramIInv

\* Nobody becomes bound and stays denied in one step.
NobodySlips ==
    \A u \in Users : T!ActiveIn(identity', u) => T!ActiveIn(identity, u) \/ u \notin deny'

\* Both transactions that bind.
LEMMA BindKeeps ==
    ASSUME TelegramIInv, NEW a \in Admins, NEW u \in Users, NEW old \in Users \cup {None},
           T!Bind(a, u, old), proven \subseteq proven', <<a, u>> \in proven'
    PROVE  /\ identity' \in T!IdentityRows /\ deny' \in T!DeniedRows
           /\ stale' \subseteq Users /\ OwnUsers' /\ NobodySlips
           /\ \A b \in Admins : BoundRight(b)'
<1>t. TgTypes /\ OwnUsers
  BY TgTypeOK DEF TelegramIInv
<1>n. None \notin Users
  BY TelegramAssumption DEF T!AdminTelegramAssumption
<1>1. /\ \A b \in Admins \ {a} : identity[b].user # u
      /\ identity' = [identity EXCEPT ![a] = [user |-> u, active |-> TRUE]]
      /\ deny' = (deny \cup ({old} \ {None, u})) \ {u}
      /\ stale' = (stale \cup ({old} \ {None, u, identity[a].user})) \ {u}
  BY DEF T!Bind, T!UserFree, T!DenyOld
<1>2. /\ identity' \in T!IdentityRows /\ deny' \in T!DeniedRows /\ stale' \subseteq Users
  BY <1>t, <1>1 DEF TgTypes, T!IdentityRows, T!DeniedRows
<1>3. /\ identity'[a].user = u
      /\ \A b \in Admins \ {a} : identity'[b] = identity[b]
  BY <1>t, <1>1 DEF TgTypes, T!IdentityRows
<1>4. OwnUsers'
  BY <1>t, <1>1, <1>3 DEF OwnUsers
<1>5. NobodySlips
  BY <1>1, <1>3 DEF NobodySlips, T!ActiveIn
<1>6. BoundRight(a)'
  BY <1>1, <1>3 DEF BoundRight
<1>7. ASSUME NEW b \in Admins \ {a}
      PROVE  BoundRight(b)'
  <2>1. CASE identity[b].active
    <3>1. /\ identity[b].user \in Users /\ <<b, identity[b].user>> \in proven
          /\ identity[b].user \notin deny \ stale
      BY <2>1 DEF TelegramIInv, BoundRight
    <3>2. identity[b].user # identity[a].user /\ identity[b].user # u
      BY <1>t, <1>n, <1>1, <3>1 DEF OwnUsers
    <3>3. identity[b].user \notin deny' \ stale'
      BY <1>1, <3>1, <3>2
    <3> QED
      BY <1>3, <3>1, <3>3 DEF BoundRight
  <2>2. CASE ~identity[b].active
    BY <1>3, <2>2 DEF BoundRight
  <2> QED
    BY <2>1, <2>2
<1> QED
  BY <1>2, <1>4, <1>5, <1>6, <1>7

LEMMA WitnessedRow ==
    ASSUME NEW r \in TgRows, NEW A \in BOOLEAN
    PROVE  /\ [r EXCEPT !.was = @ \/ A] \in TgRows
           /\ [r EXCEPT !.was = @ \/ A].pc = r.pc
           /\ [r EXCEPT !.was = @ \/ A].admin = r.admin
           /\ [r EXCEPT !.was = @ \/ A].user = r.user
           /\ [r EXCEPT !.was = @ \/ A].old = r.old
           /\ [r EXCEPT !.was = @ \/ A].on = r.on
           /\ [r EXCEPT !.was = @ \/ A].granted = r.granted
           /\ r.was => [r EXCEPT !.was = @ \/ A].was
           /\ A => [r EXCEPT !.was = @ \/ A].was
BY DEF TgRows

LEMMA SetRow ==
    ASSUME TgTypes, NEW w \in Workers, NEW r \in TgRows, T!Set(w, r),
           NEW x \in Workers, NEW q \in TgRows, q = IF x = w THEN r ELSE req[x]
    PROVE  /\ req'[x] \in TgRows
           /\ req'[x].pc = q.pc /\ req'[x].admin = q.admin /\ req'[x].user = q.user
           /\ req'[x].old = q.old /\ req'[x].on = q.on /\ req'[x].granted = q.granted
           /\ q.was => req'[x].was
           /\ q.pc \in {"count", "identity", "done"}
                /\ T!Authority(identity', deny', q.user) => req'[x].was
<1> DEFINE A == T!Authority(identity', deny', q.user)
<1>1. [req EXCEPT ![w] = r][x] = q
  BY DEF TgTypes
<1>2. req'[x] = IF q.pc \in {"count", "identity", "done"}
                THEN [q EXCEPT !.was = @ \/ A] ELSE q
  BY <1>1 DEF T!Set, T!Witness
<1>3. A \in BOOLEAN
  BY DEF T!Authority, T!ActiveIn
<1> HIDE DEF A
<1>4. CASE q.pc \in {"count", "identity", "done"}
  BY <1>2, <1>3, <1>4, WitnessedRow DEF A
<1>5. CASE q.pc \notin {"count", "identity", "done"}
  BY <1>2, <1>5
<1> QED
  BY <1>4, <1>5

\* What a request may be set to.
WillBeSeen(r) ==
    /\ r.pc \in {"count", "identity"} /\ T!ActiveIn(identity', r.user) =>
         r.was \/ r.user \notin deny'
    /\ r.granted => \/ r.was
                    \/ r.pc = "done" /\ T!Authority(identity', deny', r.user)

LEMMA SeenAfter ==
    ASSUME TgTypes, NEW w \in Workers, NEW r \in TgRows, T!Set(w, r),
           NEW x \in Workers, NEW q \in TgRows, q = IF x = w THEN r ELSE req[x],
           TookRight(q, proven'), WillBeSeen(q)
    PROVE  /\ req'[x] \in TgRows /\ TookRight(req'[x], proven')
           /\ SeenRight(req[x])'
<1>1. /\ req'[x] \in TgRows
      /\ req'[x].pc = q.pc /\ req'[x].admin = q.admin /\ req'[x].user = q.user
      /\ req'[x].old = q.old /\ req'[x].on = q.on /\ req'[x].granted = q.granted
      /\ q.was => req'[x].was
      /\ q.pc \in {"count", "identity", "done"}
           /\ T!Authority(identity', deny', q.user) => req'[x].was
  BY SetRow
<1>2. TookRight(req'[x], proven')
  BY <1>1 DEF TookRight
<1>3. ASSUME req'[x].pc \in {"count", "identity"}, T!ActiveIn(identity', req'[x].user)
      PROVE  req'[x].was
  <2>1. q.user \in Users /\ q.user # None /\ T!ActiveIn(identity', q.user)
    BY <1>1, <1>3, TelegramAssumption DEF TookRight, T!AdminTelegramAssumption
  <2>2. q.was \/ q.user \notin deny'
    BY <1>1, <1>3 DEF WillBeSeen
  <2>3. q.user \notin deny' => T!Authority(identity', deny', q.user)
    BY <2>1 DEF T!Authority, T!ActiveIn
  <2> QED
    BY <1>1, <1>3, <2>2, <2>3
<1>4. ASSUME req'[x].granted
      PROVE  req'[x].was
  BY <1>1, <1>4 DEF WillBeSeen
<1> QED
  BY <1>1, <1>2, <1>3, <1>4 DEF SeenRight

LEMMA SetKeeps ==
    ASSUME TelegramIInv, NobodySlips, proven \subseteq proven',
           NEW w \in Workers, NEW r \in TgRows, T!Set(w, r),
           TookRight(r, proven'), WillBeSeen(r)
    PROVE  /\ req' \in [Workers -> TgRows]
           /\ \A x \in Workers : TookRight(req[x], proven)' /\ SeenRight(req[x])'
<1>t. TgTypes
  BY TgTypeOK DEF TelegramIInv
<1>1. ASSUME NEW x \in Workers \ {w}
      PROVE  req[x] \in TgRows /\ TookRight(req[x], proven') /\ WillBeSeen(req[x])
  <2>1. req[x] \in TgRows /\ TookRight(req[x], proven) /\ SeenRight(req[x])
    BY <1>t DEF TelegramIInv, TgTypes
  <2>2. TookRight(req[x], proven')
    BY <2>1 DEF TookRight
  <2>3. WillBeSeen(req[x])
    <3>1. req[x].pc \in {"count", "identity"} => req[x].user \in Users
      BY <2>1 DEF TookRight
    <3> QED
      BY <2>1, <3>1 DEF SeenRight, NobodySlips, WillBeSeen
  <2> QED
    BY <2>1, <2>2, <2>3
<1>2. ASSUME NEW x \in Workers
      PROVE  req'[x] \in TgRows /\ TookRight(req'[x], proven') /\ SeenRight(req[x])'
  <2>1. PICK q \in TgRows : q = IF x = w THEN r ELSE req[x]
    BY <1>1
  <2>2. TookRight(q, proven') /\ WillBeSeen(q)
    BY <1>1, <2>1
  <2> QED
    BY <1>t, <2>1, <2>2, SeenAfter
<1>3. req' \in [Workers -> TgRows]
  BY <1>2 DEF T!Set, T!Witness
<1> QED
  BY <1>2, <1>3

\* The codes and challenges after a step.
CodesNext ==
    code' \in T!CodeRows /\ challenge' \in T!ChallengeRows /\ AdminsOfCodes'

\* A step that leaves the bindings alone.
LEMMA QuietRequest ==
    ASSUME TelegramIInv, UNCHANGED <<identity, deny, stale>>, CodesNext,
           proven \subseteq proven', proven' \subseteq Admins \X Users,
           NEW w \in Workers, NEW r \in TgRows, T!Set(w, r),
           TookRight(r, proven'), WillBeSeen(r)
    PROVE  TelegramIInv'
<1>t. TgTypes /\ OwnUsers
  BY TgTypeOK DEF TelegramIInv
<1>1. NobodySlips
  BY DEF NobodySlips, T!ActiveIn
<1>2. /\ req' \in [Workers -> TgRows]
      /\ \A x \in Workers : TookRight(req[x], proven)' /\ SeenRight(req[x])'
  BY <1>1, SetKeeps
<1>3. \A a \in Admins : BoundRight(a)'
  BY DEF TelegramIInv, BoundRight
<1>4. TgTypes' /\ OwnUsers'
  BY <1>t, <1>2 DEF TgTypes, OwnUsers, CodesNext
<1> QED
  BY <1>2, <1>3, <1>4, TgTypeOKNext DEF TelegramIInv, CodesNext

\* A step that changes only codes and challenges.
LEMMA QuietCodes ==
    ASSUME TelegramIInv, UNCHANGED <<identity, deny, req, proven, stale>>, CodesNext
    PROVE  TelegramIInv'
<1>t. TgTypes /\ OwnUsers
  BY TgTypeOK DEF TelegramIInv
<1>1. \A a \in Admins : BoundRight(a)'
  BY DEF TelegramIInv, BoundRight
<1>2. \A w \in Workers : TookRight(req[w], proven)' /\ SeenRight(req[w])'
  BY DEF TelegramIInv, TookRight, SeenRight, T!ActiveIn
<1>3. TgTypes' /\ OwnUsers'
  BY <1>t DEF TgTypes, OwnUsers, CodesNext
<1> QED
  BY <1>1, <1>2, <1>3, TgTypeOKNext DEF TelegramIInv, CodesNext

\* A transaction that ends its request.
LEMMA BindingEnds ==
    ASSUME TelegramIInv, CodesNext, NobodySlips, OwnUsers',
           identity' \in T!IdentityRows, deny' \in T!DeniedRows, stale' \subseteq Users,
           \A a \in Admins : BoundRight(a)',
           proven \subseteq proven', proven' \subseteq Admins \X Users,
           NEW w \in Workers, T!Finish(w)
    PROVE  TelegramIInv'
<1>1. T!Idle \in TgRows /\ TookRight(T!Idle, proven') /\ WillBeSeen(T!Idle)
  BY IdleRow DEF TookRight, WillBeSeen
<1>2. T!Set(w, T!Idle)
  BY DEF T!Finish
<1>3. /\ req' \in [Workers -> TgRows]
      /\ \A x \in Workers : TookRight(req[x], proven)' /\ SeenRight(req[x])'
  BY <1>1, <1>2, SetKeeps
<1>4. TgTypes'
  BY <1>3 DEF TgTypes, CodesNext
<1> QED
  BY <1>3, <1>4, TgTypeOKNext DEF TelegramIInv, CodesNext

LEMMA SameCodes ==
    ASSUME TelegramIInv, UNCHANGED <<code, challenge>>
    PROVE  CodesNext
BY TgTypeOK DEF TelegramIInv, TgTypes, CodesNext, AdminsOfCodes

\* Every code and challenge a request closes by its id.
LEMMA CodesClose ==
    ASSUME TelegramIInv,
           \/ /\ UNCHANGED challenge
              /\ \E k \in Codes : code' = [code EXCEPT ![k] = T!ClosedCode]
           \/ /\ UNCHANGED code
              /\ \E c \in Challenges :
                    challenge' = [challenge EXCEPT ![c] = T!ClosedChallenge]
    PROVE  CodesNext
<1>t. code \in T!CodeRows /\ challenge \in T!ChallengeRows /\ AdminsOfCodes
  BY TgTypeOK DEF TelegramIInv, TgTypes
<1>1. CASE /\ UNCHANGED challenge
           /\ \E k \in Codes : code' = [code EXCEPT ![k] = T!ClosedCode]
  BY <1>t, <1>1, IdleRow DEF CodesNext, AdminsOfCodes, T!CodeRows
<1>2. CASE /\ UNCHANGED code
           /\ \E c \in Challenges :
                 challenge' = [challenge EXCEPT ![c] = T!ClosedChallenge]
  BY <1>t, <1>2, IdleRow DEF CodesNext, AdminsOfCodes, T!ChallengeRows
<1> QED
  BY <1>1, <1>2

\* createConnectToken, startTelegramRebind, and the passing of time.
LEMMA CodeSteps ==
    ASSUME TelegramIInv,
           \/ \E k \in Codes, a \in Admins : T!CreateCode(k, a)
           \/ \E c \in Challenges, a \in Admins : T!StartRebind(c, a)
           \/ \E k \in Codes : T!ExpireCode(k)
           \/ \E c \in Challenges : T!ExpireRebind(c)
    PROVE  TelegramIInv'
<1>t. code \in T!CodeRows /\ challenge \in T!ChallengeRows /\ AdminsOfCodes
  BY TgTypeOK DEF TelegramIInv, TgTypes
<1>1. ASSUME NEW k \in Codes, NEW a \in Admins, T!CreateCode(k, a)
      PROVE  TelegramIInv'
  <2>1. CodesNext
    BY <1>t, <1>1 DEF T!CreateCode, CodesNext, AdminsOfCodes, T!CodeRows, T!ChallengeRows
  <2> QED
    BY <1>1, <2>1, QuietCodes DEF T!CreateCode, T!proofs
<1>2. ASSUME NEW c \in Challenges, NEW a \in Admins, T!StartRebind(c, a)
      PROVE  TelegramIInv'
  <2>1. CodesNext
    BY <1>t, <1>2 DEF T!StartRebind, CodesNext, AdminsOfCodes, T!CodeRows, T!ChallengeRows
  <2> QED
    BY <1>2, <2>1, QuietCodes DEF T!StartRebind, T!proofs
<1>3. ASSUME NEW k \in Codes, T!ExpireCode(k)
      PROVE  TelegramIInv'
  BY <1>3, CodesClose, QuietCodes DEF T!ExpireCode, T!proofs
<1>4. ASSUME NEW c \in Challenges, T!ExpireRebind(c)
      PROVE  TelegramIInv'
  BY <1>4, CodesClose, QuietCodes DEF T!ExpireRebind, T!proofs
<1> QED
  BY <1>1, <1>2, <1>3, <1>4

\* What users and administrators ask for.
LEMMA AskSteps ==
    ASSUME TelegramIInv, NEW w \in Workers, T!Ask(w)
    PROVE  TelegramIInv'
<1>t. TgTypes /\ OwnUsers /\ AdminsOfCodes
  BY TgTypeOK DEF TelegramIInv
<1>1. ASSUME NEW k \in Codes, NEW u \in Users, T!SendCode(w, k, u)
      PROVE  TelegramIInv'
  <2> DEFINE r == [T!Idle EXCEPT !.pc = "link", !.admin = code[k].admin, !.user = u,
                                 !.on = k]
  <2>1. /\ code[k].admin \in Admins /\ T!Set(w, r)
        /\ UNCHANGED <<identity, deny, code, challenge, proven, stale>>
    BY <1>1, <1>t DEF T!SendCode, T!proofs, AdminsOfCodes
  <2>2. /\ r \in TgRows /\ r.pc = "link" /\ r.admin \in Admins /\ r.user = u /\ r.on = k
        /\ ~r.granted
    BY <2>1, IdleRow DEF TgRows, T!Stages
  <2> HIDE DEF r
  <2>3. TookRight(r, proven') /\ WillBeSeen(r)
    BY <2>2 DEF TookRight, WillBeSeen
  <2> QED
    BY <1>t, <2>1, <2>2, <2>3, SameCodes, QuietRequest DEF TgTypes
<1>2. ASSUME NEW c \in Challenges, NEW u \in Users, T!OpenRebind(w, c, u)
      PROVE  TelegramIInv'
  <2> DEFINE r == [T!Idle EXCEPT !.pc = "bind", !.user = u, !.on = c]
  <2>1. T!Set(w, r) /\ UNCHANGED <<identity, deny, code, challenge, proven, stale>>
    BY <1>2 DEF T!OpenRebind, T!proofs
  <2>2. r \in TgRows /\ r.pc = "bind" /\ r.user = u /\ r.on = c /\ ~r.granted
    BY IdleRow DEF TgRows, T!Stages
  <2> HIDE DEF r
  <2>3. TookRight(r, proven') /\ WillBeSeen(r)
    BY <2>2 DEF TookRight, WillBeSeen
  <2> QED
    BY <1>t, <2>1, <2>2, <2>3, SameCodes, QuietRequest DEF TgTypes
<1>3. ASSUME NEW c \in Challenges, T!EnterOtp(w, c)
      PROVE  TelegramIInv'
  <2> DEFINE r == [T!Idle EXCEPT !.pc = "verify", !.admin = challenge[c].admin,
                                 !.user = challenge[c].user, !.on = c]
  <2>1. /\ challenge[c].state = "open" /\ challenge[c].user # None /\ T!Set(w, r)
        /\ proven' = proven \cup {<<challenge[c].admin, challenge[c].user>>}
        /\ UNCHANGED <<identity, deny, code, challenge, stale>>
    BY <1>3 DEF T!EnterOtp
  <2>2. challenge[c].admin \in Admins /\ challenge[c].user \in Users
    BY <1>t, <2>1 DEF AdminsOfCodes, TgTypes, T!ChallengeRows
  <2>3. /\ r \in TgRows /\ r.pc = "verify" /\ r.admin = challenge[c].admin
        /\ r.user = challenge[c].user /\ r.on = c /\ ~r.granted
    BY <2>2, IdleRow DEF TgRows, T!Stages
  <2> HIDE DEF r
  <2>4. TookRight(r, proven') /\ WillBeSeen(r)
    BY <2>1, <2>2, <2>3 DEF TookRight, WillBeSeen
  <2>5. proven \subseteq proven' /\ proven' \subseteq Admins \X Users
    BY <1>t, <2>1, <2>2 DEF TgTypes
  <2> QED
    BY <2>1, <2>3, <2>4, <2>5, SameCodes, QuietRequest
<1>4. ASSUME NEW a \in Admins, T!BeginDisconnect(w, a)
      PROVE  TelegramIInv'
  <2> DEFINE r == [T!Idle EXCEPT !.pc = "disconnect", !.admin = a,
                                 !.old = identity[a].user]
  <2>1. /\ identity[a].active /\ T!Set(w, r)
        /\ UNCHANGED <<identity, deny, code, challenge, proven, stale>>
    BY <1>4 DEF T!BeginDisconnect, T!proofs
  <2>2. identity[a].user \in Users
    BY <2>1 DEF TelegramIInv, BoundRight
  <2>3. /\ r \in TgRows /\ r.pc = "disconnect" /\ r.admin = a /\ r.old \in Users
        /\ ~r.granted
    BY <2>2, IdleRow DEF TgRows, T!Stages
  <2> HIDE DEF r
  <2>4. TookRight(r, proven') /\ WillBeSeen(r)
    BY <2>3 DEF TookRight, WillBeSeen
  <2> QED
    BY <1>t, <2>1, <2>3, <2>4, SameCodes, QuietRequest DEF TgTypes
<1>5. ASSUME NEW u \in Users, T!CheckDenied(w, u)
      PROVE  TelegramIInv'
  <2> DEFINE r == [T!Idle EXCEPT !.pc = "count", !.user = u]
  <2>1. UNCHANGED <<identity, deny, code, challenge, proven, stale>>
    BY <1>5 DEF T!CheckDenied, T!proofs
  <2>2. CASE u \in deny
    BY <1>5, <2>1, <2>2, SameCodes, QuietCodes DEF T!CheckDenied
  <2>3. CASE u \notin deny
    <3>1. T!Set(w, r)
      BY <1>5, <2>3 DEF T!CheckDenied
    <3>2. r \in TgRows /\ r.pc = "count" /\ r.user = u /\ ~r.granted
      BY IdleRow DEF TgRows, T!Stages
    <3> HIDE DEF r
    <3>3. TookRight(r, proven') /\ WillBeSeen(r)
      BY <2>1, <2>3, <3>2 DEF TookRight, WillBeSeen
    <3> QED
      BY <1>t, <2>1, <3>1, <3>2, <3>3, SameCodes, QuietRequest DEF TgTypes
  <2> QED
    BY <2>2, <2>3
<1> QED
  BY <1>1, <1>2, <1>3, <1>4, <1>5 DEF T!Ask

\* The steps of the requests.
LEMMA ServeSteps ==
    ASSUME TelegramIInv, NEW w \in Workers, T!Serve(w) \/ T!Crash(w)
    PROVE  TelegramIInv'
<1>t. TgTypes /\ OwnUsers /\ AdminsOfCodes
  BY TgTypeOK DEF TelegramIInv
<1>w. req[w] \in TgRows /\ TookRight(req[w], proven) /\ SeenRight(req[w])
  BY <1>t DEF TelegramIInv, TgTypes
<1>1. CASE T!ReadIdentityForLink(w)
  <2> DEFINE r == [req[w] EXCEPT !.pc = "linkTx", !.old = identity[req[w].admin].user]
  <2>1. /\ req[w].pc = "link" /\ T!Set(w, r)
        /\ UNCHANGED <<identity, deny, code, challenge, proven, stale>>
    BY <1>1 DEF T!ReadIdentityForLink, T!proofs, T!At
  <2>2. identity[req[w].admin].user \in Users \cup {None}
    BY <1>t, <1>w, <2>1 DEF TookRight, TgTypes, T!IdentityRows
  <2>3. /\ r \in TgRows /\ r.pc = "linkTx" /\ r.admin = req[w].admin
        /\ r.user = req[w].user /\ r.on = req[w].on /\ r.was = req[w].was
        /\ r.granted = req[w].granted
    BY <1>w, <2>2 DEF TgRows, T!Stages
  <2> HIDE DEF r
  <2>4. TookRight(r, proven') /\ WillBeSeen(r)
    BY <1>w, <2>1, <2>3 DEF TookRight, SeenRight, WillBeSeen
  <2> QED
    BY <1>t, <2>1, <2>3, <2>4, SameCodes, QuietRequest DEF TgTypes
<1>2. CASE T!LinkUser(w)
  <2>1. /\ req[w].pc = "linkTx" /\ T!Bind(req[w].admin, req[w].user, req[w].old)
        /\ code' = [code EXCEPT ![req[w].on] = T!ClosedCode]
        /\ proven' = proven \cup {<<req[w].admin, req[w].user>>}
        /\ T!Finish(w) /\ UNCHANGED challenge
    BY <1>2 DEF T!LinkUser, T!At
  <2>2. /\ req[w].admin \in Admins /\ req[w].user \in Users /\ req[w].on \in Codes
        /\ req[w].old \in Users \cup {None}
    BY <1>w, <2>1 DEF TookRight, TgRows
  <2>3. CodesNext
    BY <2>1, <2>2, CodesClose
  <2>4. proven \subseteq proven' /\ proven' \subseteq Admins \X Users
    BY <1>t, <2>1, <2>2 DEF TgTypes
  <2>5. /\ identity' \in T!IdentityRows /\ deny' \in T!DeniedRows
        /\ stale' \subseteq Users /\ OwnUsers' /\ NobodySlips
        /\ \A b \in Admins : BoundRight(b)'
    BY <2>1, <2>2, <2>4, BindKeeps
  <2> QED
    BY <2>1, <2>3, <2>4, <2>5, BindingEnds
<1>3. CASE T!IssueOtp(w)
  <2> DEFINE u == IF challenge[req[w].on].state = "open" THEN req[w].user ELSE None
  <2>1. /\ req[w].pc = "bind" /\ T!Finish(w)
        /\ challenge' = [challenge EXCEPT ![req[w].on].user = u]
        /\ UNCHANGED <<identity, deny, code, proven, stale>>
    BY <1>3 DEF T!IssueOtp, T!proofs, T!At
  <2>2. req[w].on \in Challenges /\ u \in Users \cup {None}
    BY <1>w, <2>1 DEF TookRight
  <2> HIDE DEF u
  <2>3. CodesNext
    BY <1>t, <2>1, <2>2 DEF TgTypes, CodesNext, AdminsOfCodes, T!ChallengeRows
  <2>4. T!Set(w, T!Idle) /\ TookRight(T!Idle, proven') /\ WillBeSeen(T!Idle)
    BY <2>1, IdleRow DEF T!Finish, TookRight, WillBeSeen
  <2> QED
    BY <1>t, <2>1, <2>3, <2>4, IdleRow, QuietRequest DEF TgTypes
<1>4. CASE T!ReadIdentityForRebind(w)
  <2> DEFINE r == [req[w] EXCEPT !.pc = "verifyTx", !.old = identity[req[w].admin].user]
  <2>1. /\ req[w].pc = "verify" /\ T!Set(w, r)
        /\ UNCHANGED <<identity, deny, code, challenge, proven, stale>>
    BY <1>4 DEF T!ReadIdentityForRebind, T!proofs, T!At
  <2>2. identity[req[w].admin].user \in Users \cup {None}
    BY <1>t, <1>w, <2>1 DEF TookRight, TgTypes, T!IdentityRows
  <2>3. /\ r \in TgRows /\ r.pc = "verifyTx" /\ r.admin = req[w].admin
        /\ r.user = req[w].user /\ r.on = req[w].on /\ r.was = req[w].was
        /\ r.granted = req[w].granted
    BY <1>w, <2>2 DEF TgRows, T!Stages
  <2> HIDE DEF r
  <2>4. TookRight(r, proven') /\ WillBeSeen(r)
    BY <1>w, <2>1, <2>3 DEF TookRight, SeenRight, WillBeSeen
  <2> QED
    BY <1>t, <2>1, <2>3, <2>4, SameCodes, QuietRequest DEF TgTypes
<1>5. CASE T!RebindUser(w)
  <2>1. /\ req[w].pc = "verifyTx" /\ T!Bind(req[w].admin, req[w].user, req[w].old)
        /\ challenge' = [challenge EXCEPT ![req[w].on] = T!ClosedChallenge]
        /\ T!Finish(w) /\ UNCHANGED <<code, proven>>
    BY <1>5 DEF T!RebindUser, T!NewUser, T!At
  <2>2. /\ req[w].admin \in Admins /\ req[w].user \in Users /\ req[w].on \in Challenges
        /\ <<req[w].admin, req[w].user>> \in proven /\ req[w].old \in Users \cup {None}
    BY <1>w, <2>1 DEF TookRight, TgRows
  <2>3. CodesNext
    BY <2>1, <2>2, CodesClose
  <2>4. proven \subseteq proven' /\ proven' \subseteq Admins \X Users
    BY <1>t, <2>1 DEF TgTypes
  <2>5. /\ identity' \in T!IdentityRows /\ deny' \in T!DeniedRows
        /\ stale' \subseteq Users /\ OwnUsers' /\ NobodySlips
        /\ \A b \in Admins : BoundRight(b)'
    BY <2>1, <2>2, <2>4, BindKeeps
  <2> QED
    BY <2>1, <2>3, <2>4, <2>5, BindingEnds
<1>6. CASE T!Disconnect(w)
  <2>1. /\ req[w].pc = "disconnect" /\ T!Finish(w)
        /\ identity' = [identity EXCEPT ![req[w].admin].active = FALSE]
        /\ deny' = deny \cup {req[w].old}
        /\ stale' = stale \cup ({req[w].old} \ {identity[req[w].admin].user})
        /\ UNCHANGED <<code, challenge, proven>>
    BY <1>6 DEF T!Disconnect, T!At
  <2>2. req[w].admin \in Admins /\ req[w].old \in Users
    BY <1>w, <2>1 DEF TookRight
  <2>3. /\ identity' \in T!IdentityRows /\ deny' \in T!DeniedRows /\ stale' \subseteq Users
    BY <1>t, <2>1, <2>2 DEF TgTypes, T!IdentityRows, T!DeniedRows
  <2>4. /\ ~identity'[req[w].admin].active
        /\ identity'[req[w].admin].user = identity[req[w].admin].user
        /\ \A b \in Admins \ {req[w].admin} : identity'[b] = identity[b]
    BY <1>t, <2>1, <2>2 DEF TgTypes, T!IdentityRows
  <2>5. OwnUsers' /\ NobodySlips
    BY <1>t, <2>2, <2>4 DEF OwnUsers, NobodySlips, T!ActiveIn
  <2>6. ASSUME NEW b \in Admins
        PROVE  BoundRight(b)'
    <3>1. CASE b = req[w].admin \/ ~identity[b].active
      BY <2>4, <3>1 DEF BoundRight
    <3>2. CASE b # req[w].admin /\ identity[b].active
      <4>1. /\ identity[b].user \in Users /\ <<b, identity[b].user>> \in proven
            /\ identity[b].user \notin deny \ stale
        BY <3>2 DEF TelegramIInv, BoundRight
      <4>2. identity[b].user # identity[req[w].admin].user
        BY <1>t, <2>2, <3>2, <4>1, TelegramAssumption
           DEF OwnUsers, T!AdminTelegramAssumption
      <4>3. identity[b].user \notin deny' \ stale'
        BY <2>1, <4>1, <4>2
      <4> QED
        BY <2>1, <2>4, <3>2, <4>1, <4>3 DEF BoundRight
    <3> QED
      BY <3>1, <3>2
  <2> QED
    BY <1>t, <2>1, <2>3, <2>5, <2>6, SameCodes, BindingEnds DEF TgTypes
<1>7. CASE T!CountRows(w)
  <2>1. /\ req[w].pc = "count"
        /\ UNCHANGED <<identity, deny, code, challenge, proven, stale>>
    BY <1>7 DEF T!CountRows, T!proofs, T!At
  <2>2. CASE T!Initialized(identity, deny)
    <3> DEFINE r == [req[w] EXCEPT !.pc = "identity"]
    <3>1. T!Set(w, r)
      BY <1>7, <2>2 DEF T!CountRows, T!Goto
    <3>2. /\ r \in TgRows /\ r.pc = "identity" /\ r.user = req[w].user
          /\ r.was = req[w].was /\ r.granted = req[w].granted
      BY <1>w DEF TgRows, T!Stages
    <3> HIDE DEF r
    <3>3. TookRight(r, proven') /\ WillBeSeen(r)
      BY <1>w, <2>1, <3>2 DEF TookRight, SeenRight, WillBeSeen
    <3> QED
      BY <1>t, <2>1, <3>1, <3>2, <3>3, SameCodes, QuietRequest DEF TgTypes
  <2>3. CASE ~T!Initialized(identity, deny)
    <3> DEFINE g == req[w].user \in EnvIds
               r == [req[w] EXCEPT !.pc = "done", !.granted = g]
    <3>1. T!Set(w, r)
      BY <1>7, <2>3 DEF T!CountRows
    <3>2. /\ r \in TgRows /\ r.pc = "done" /\ r.user = req[w].user
          /\ r.was = req[w].was /\ r.granted = g
      <4>1. g \in BOOLEAN
        OBVIOUS
      <4> HIDE DEF g
      <4> QED
        BY <1>w, <4>1 DEF TgRows, T!Stages
    <3> HIDE DEF r
    <3>3. g => T!Authority(identity', deny', r.user)
      BY <2>1, <2>3, <3>2 DEF T!Initialized, T!Authority
    <3>4. TookRight(r, proven') /\ WillBeSeen(r)
      BY <3>2, <3>3 DEF TookRight, WillBeSeen
    <3> QED
      BY <1>t, <2>1, <3>1, <3>2, <3>4, SameCodes, QuietRequest DEF TgTypes
  <2> QED
    BY <2>2, <2>3
<1>8. CASE T!FindIdentity(w)
  <2> DEFINE g == T!ActiveIn(identity, req[w].user)
             r == [req[w] EXCEPT !.pc = "done", !.granted = g]
  <2>1. /\ req[w].pc = "identity" /\ T!Set(w, r)
        /\ UNCHANGED <<identity, deny, code, challenge, proven, stale>>
    BY <1>8 DEF T!FindIdentity, T!proofs, T!At
  <2>2. g => req[w].was
    BY <1>w, <2>1 DEF SeenRight
  <2>3. g \in BOOLEAN
    BY DEF T!ActiveIn
  <2> HIDE DEF g
  <2>4. /\ r \in TgRows /\ r.pc = "done" /\ r.was = req[w].was /\ r.granted = g
    BY <1>w, <2>3 DEF TgRows, T!Stages
  <2> HIDE DEF r
  <2>5. TookRight(r, proven') /\ WillBeSeen(r)
    BY <2>2, <2>4 DEF TookRight, WillBeSeen
  <2> QED
    BY <1>t, <2>1, <2>4, <2>5, SameCodes, QuietRequest DEF TgTypes
<1>9. CASE T!EndCheck(w) \/ T!Crash(w)
  <2>1. T!Finish(w) /\ UNCHANGED <<identity, deny, code, challenge, proven, stale>>
    BY <1>9 DEF T!EndCheck, T!Crash, T!proofs
  <2>2. T!Set(w, T!Idle) /\ TookRight(T!Idle, proven') /\ WillBeSeen(T!Idle)
    BY <2>1, IdleRow DEF T!Finish, TookRight, WillBeSeen
  <2> QED
    BY <1>t, <2>1, <2>2, IdleRow, SameCodes, QuietRequest DEF TgTypes
<1> QED
  BY <1>1, <1>2, <1>3, <1>4, <1>5, <1>6, <1>7, <1>8, <1>9 DEF T!Serve

LEMMA TelegramStep ==
    ASSUME TelegramIInv, T!Next
    PROVE  TelegramIInv'
<1>1. CASE \E w \in Workers : T!Ask(w) \/ T!Serve(w) \/ T!Crash(w)
  BY <1>1, AskSteps, ServeSteps
<1>2. CASE ~\E w \in Workers : T!Ask(w) \/ T!Serve(w) \/ T!Crash(w)
  BY <1>2, CodeSteps DEF T!Next
<1> QED
  BY <1>1, <1>2

LEMMA TelegramStutters ==
    ASSUME TelegramIInv, UNCHANGED telegramVars
    PROVE  TelegramIInv'
BY SameCodes, QuietCodes DEF telegramVars

THEOREM TelegramInvariance == Spec => [](part = "telegram" => TelegramIInv)
<1>1. Init => (part = "telegram" => TelegramIInv)
  BY TelegramFirst DEF Init
<1>2. ASSUME part = "telegram" => TelegramIInv, [Next]_allVars
      PROVE  (part = "telegram" => TelegramIInv)'
  <2>1. CASE Next
    <3>1. part' = part
      BY <2>1 DEF Next
    <3>2. ASSUME part = "telegram"
          PROVE  TelegramIInv'
      <4>1. T!Next
        BY <2>1, <3>2 DEF Next
      <4> QED
        BY <1>2, <3>2, <4>1, TelegramStep
    <3> QED
      BY <3>1, <3>2
  <2>2. CASE UNCHANGED allVars
    <3>1. part' = part /\ UNCHANGED telegramVars
      BY <2>2 DEF allVars
    <3> QED
      BY <1>2, <3>1, TelegramStutters
  <2> QED
    BY <1>2, <2>1, <2>2
<1> QED
  BY <1>1, <1>2, PTL DEF Spec

\* Whoever is bound to an administrator proved it to the bot
\* (tryCompleteLinkFromBot, verifyTelegramRebind), and is not denied unless by a
\* request that knew an older binding (disconnectTelegram).
THEOREM BindingsAreProven == Spec => []BoundIsProven
<1>1. (part = "telegram" => TelegramIInv) => BoundIsProven
  BY DEF BoundIsProven, T!BoundIsProven, TelegramIInv, BoundRight
<1> QED
  BY <1>1, TelegramInvariance, PTL

\* isTelegramAdmin asks three times; whatever changes in between, it grants only
\* what one state of the database would have granted.
THEOREM GrantsWereRight == Spec => []GrantWasRight
<1>1. (part = "telegram" => TelegramIInv) => GrantWasRight
  BY DEF GrantWasRight, T!GrantWasRight, TelegramIInv, SeenRight
<1> QED
  BY <1>1, TelegramInvariance, PTL

-----------------------------------------------------------------------------
\* The support that the bot relays.

RelayRows == [pc : R!Stages, who : Codes \cup Admins \cup {None},
              conv : Codes \cup {None}, on : Codes \cup Admins \cup {None},
              to : SUBSET Admins, id : Nat]

Prompting(u) == u.pc \in {"prompted", "deliver", "record", "clear", "clearing"}

\* What an update has taken from a chat, a mapping or a prompt is true of the texts,
\* the prompts and the number of them that are given.
RelayRight(u, texts, prompts, last) ==
    /\ u.pc \in {"append", "list", "send"} => u.who \in Codes
    /\ u.pc = "map" => /\ u.who \in Codes /\ u.on \in Admins
                       /\ u.id \in 1 .. Len(texts[u.on]) /\ texts[u.on][u.id] = u.who
    /\ u.pc \in {"replied", "answer"} =>
         u.who \in Admins /\ u.id \in 1 .. Len(texts[u.who])
    /\ u.pc = "answer" => texts[u.who][u.id] = u.on
    /\ u.pc = "text" => u.who \in Admins
    /\ Prompting(u) => /\ u.who \in Admins /\ u.id \in 1 .. last /\ u.conv \in Codes
                       /\ prompts[u.id] = u.conv /\ u.on = u.conv

\* A mapping names the customer of the text that the administrator sees.
MappingRight ==
    \A a \in Admins, n \in 1 .. MaxIds : mapping[<<a, n>>] # None =>
        n <= Len(chat[a]) /\ chat[a][n] = mapping[<<a, n>>]

PromptRight(a) ==
    prompt[a].conv # None =>
        prompt[a].id \in 1 .. opened /\ about[prompt[a].id] = prompt[a].conv

SupportTypes ==
    /\ active \subseteq Admins
    /\ chat \in [Admins -> Seq(Codes)]
    /\ \A a \in Admins : Len(chat[a]) <= MaxIds
    /\ mapping \in [Admins \X (1 .. MaxIds) -> Codes \cup {None}]
    /\ prompt \in [Admins -> [conv : Codes \cup {None}, id : Nat]]
    /\ update \in [Workers -> RelayRows]
    /\ opened \in 0 .. MaxPrompts
    /\ about \in [1 .. MaxPrompts -> Codes \cup {None}]
    /\ strayed \in BOOLEAN

SupportIInv ==
    /\ SupportTypes
    /\ MappingRight
    /\ \A a \in Admins : PromptRight(a)
    /\ \A w \in Workers : RelayRight(update[w], chat, about, opened)
    /\ ~strayed

LEMMA SupportNumbers ==
    MaxIds \in Nat /\ MaxPrompts \in Nat /\ None \notin Codes
    /\ \A v \in Codes : Owner[v] = v
BY SupportAssumption DEF R!SupportRelayAssumption, Owner

LEMMA NoUpdate ==
    /\ R!Idle \in RelayRows
    /\ \A texts, prompts, last : RelayRight(R!Idle, texts, prompts, last)
    /\ ~Prompting(R!Idle)
BY DEF R!Idle, RelayRows, R!Stages, RelayRight, Prompting

LEMMA SupportFirst == R!Init => SupportIInv
<1> SUFFICES ASSUME R!Init PROVE SupportIInv
  OBVIOUS
<1>1. SupportTypes
  <2>1. strayed \in BOOLEAN
    BY DEF R!Init
  <2> QED
    BY <2>1, SupportNumbers, NoUpdate DEF R!Init, SupportTypes, R!NoPrompt
<1>2. MappingRight /\ \A a \in Admins : PromptRight(a)
  BY DEF R!Init, MappingRight, PromptRight, R!NoPrompt
<1>3. \A w \in Workers : RelayRight(update[w], chat, about, opened)
  BY NoUpdate DEF R!Init
<1> QED
  BY <1>1, <1>2, <1>3 DEF R!Init, SupportIInv

\* Texts and prompts are added, and stay as they are.
OnlyGrows ==
    /\ \A a \in Admins : /\ Len(chat[a]) <= Len(chat'[a])
                         /\ \A n \in 1 .. Len(chat[a]) : chat'[a][n] = chat[a][n]
    /\ opened' \in Nat /\ opened <= opened'
    /\ \A p \in 1 .. opened : about'[p] = about[p]

LEMMA StaysRight ==
    ASSUME SupportTypes, OnlyGrows, NEW u \in RelayRows,
           \A a \in Admins : Len(chat[a]) \in Nat /\ Len(chat'[a]) \in Nat,
           RelayRight(u, chat, about, opened)
    PROVE  RelayRight(u, chat', about', opened')
<1>1. opened \in Nat /\ opened' \in Nat /\ u.id \in Nat
  BY SupportNumbers DEF SupportTypes, OnlyGrows, RelayRows
<1>2. u.pc = "map" => u.id \in 1 .. Len(chat'[u.on]) /\ chat'[u.on][u.id] = u.who
  BY <1>1 DEF OnlyGrows, RelayRight
<1>3. u.pc \in {"replied", "answer"} => u.id \in 1 .. Len(chat'[u.who])
  BY <1>1 DEF OnlyGrows, RelayRight
<1>4. u.pc = "answer" => chat'[u.who][u.id] = u.on
  BY <1>1 DEF OnlyGrows, RelayRight
<1>5. Prompting(u) => u.id \in 1 .. opened' /\ about'[u.id] = u.conv
  BY <1>1 DEF OnlyGrows, RelayRight
<1> QED
  BY <1>2, <1>3, <1>4, <1>5 DEF RelayRight

LEMMA SetUpdate ==
    ASSUME SupportIInv, OnlyGrows,
           \A a \in Admins : Len(chat[a]) \in Nat /\ Len(chat'[a]) \in Nat,
           NEW w \in Workers, NEW u \in RelayRows, R!Set(w, u),
           RelayRight(u, chat', about', opened')
    PROVE  /\ update' \in [Workers -> RelayRows]
           /\ \A x \in Workers : RelayRight(update[x], chat, about, opened)'
<1>1. update \in [Workers -> RelayRows] /\ update' = [update EXCEPT ![w] = u]
  BY DEF SupportIInv, SupportTypes, R!Set
<1>2. update' \in [Workers -> RelayRows]
  BY <1>1
<1>3. \A x \in Workers : RelayRight(update[x], chat', about', opened')
  BY <1>1, StaysRight DEF SupportIInv
<1>4. \A x \in Workers : RelayRight(update'[x], chat', about', opened')
  BY <1>1, <1>3
<1> QED
  BY <1>2, <1>4

LEMMA ChatLengths ==
    ASSUME SupportTypes
    PROVE  \A a \in Admins : Len(chat[a]) \in Nat /\ chat[a] \in Seq(Codes)
BY DEF SupportTypes

\* A step of one update that sends no copy and opens no prompt.
LEMMA QuietUpdate ==
    ASSUME SupportIInv, UNCHANGED <<active, chat, mapping, prompt, opened, about, strayed>>,
           NEW w \in Workers, NEW u \in RelayRows, R!Set(w, u),
           RelayRight(u, chat, about, opened)
    PROVE  SupportIInv'
<1>1. OnlyGrows /\ \A a \in Admins : Len(chat[a]) \in Nat /\ Len(chat'[a]) \in Nat
  BY SupportNumbers, ChatLengths DEF SupportIInv, SupportTypes, OnlyGrows
<1>2. /\ update' \in [Workers -> RelayRows]
      /\ \A x \in Workers : RelayRight(update[x], chat, about, opened)'
  BY <1>1, SetUpdate
<1>3. SupportTypes' /\ MappingRight' /\ \A a \in Admins : PromptRight(a)'
  BY <1>2 DEF SupportIInv, SupportTypes, MappingRight, PromptRight
<1> QED
  BY <1>2, <1>3 DEF SupportIInv

LEMMA QuietFinish ==
    ASSUME SupportIInv, UNCHANGED <<active, chat, mapping, prompt, opened, about, strayed>>,
           NEW w \in Workers, R!Finish(w)
    PROVE  SupportIInv'
BY NoUpdate, QuietUpdate DEF R!Finish

\* The relay of a customer's text.
LEMMA RelaySteps ==
    ASSUME SupportIInv, NEW w \in Workers,
           \/ \E v \in Codes : R!WriteText(w, v)
           \/ R!AppendUserMessage(w) \/ R!ListAdmins(w)
           \/ \E a \in Admins : R!CopyFails(w, a)
    PROVE  SupportIInv'
<1>w. update[w] \in RelayRows /\ RelayRight(update[w], chat, about, opened)
  BY DEF SupportIInv, SupportTypes
<1>1. ASSUME NEW v \in Codes, R!WriteText(w, v)
      PROVE  SupportIInv'
  <2> DEFINE u == [R!Idle EXCEPT !.pc = "append", !.who = Owner[v], !.conv = v]
  <2>1. /\ R!Set(w, u)
        /\ UNCHANGED <<active, chat, mapping, prompt, opened, about, strayed>>
    BY <1>1 DEF R!WriteText, R!history
  <2>2. u \in RelayRows /\ u.pc = "append" /\ u.who \in Codes
    BY NoUpdate, SupportNumbers DEF RelayRows, R!Stages
  <2> HIDE DEF u
  <2>3. RelayRight(u, chat, about, opened)
    BY <2>2 DEF RelayRight, Prompting
  <2> QED
    BY <2>1, <2>2, <2>3, QuietUpdate
<1>2. CASE R!AppendUserMessage(w)
  <2> DEFINE u == [update[w] EXCEPT !.pc = "list", !.conv = None]
  <2>1. /\ update[w].pc = "append" /\ R!Set(w, u)
        /\ UNCHANGED <<active, chat, mapping, prompt, opened, about, strayed>>
    BY <1>2 DEF R!AppendUserMessage, R!history, R!At
  <2>2. u \in RelayRows /\ u.pc = "list" /\ u.who = update[w].who
    BY <1>w DEF RelayRows, R!Stages
  <2> HIDE DEF u
  <2>3. RelayRight(u, chat, about, opened)
    BY <1>w, <2>1, <2>2 DEF RelayRight, Prompting
  <2> QED
    BY <2>1, <2>2, <2>3, QuietUpdate
<1>3. CASE R!ListAdmins(w)
  <2> DEFINE u == [update[w] EXCEPT !.pc = "send", !.to = active]
  <2>1. /\ update[w].pc = "list" /\ (R!Set(w, u) \/ R!Finish(w))
        /\ UNCHANGED <<active, chat, mapping, prompt, opened, about, strayed>>
    BY <1>3 DEF R!ListAdmins, R!history, R!At
  <2>2. u \in RelayRows /\ u.pc = "send" /\ u.who = update[w].who
    BY <1>w DEF SupportIInv, SupportTypes, RelayRows, R!Stages
  <2> HIDE DEF u
  <2>3. update[w].pc = "list" => RelayRight(u, chat, about, opened)
    BY <1>w, <2>2 DEF RelayRight, Prompting
  <2> QED
    BY <2>1, <2>2, <2>3, QuietUpdate, QuietFinish
<1>4. ASSUME NEW a \in Admins, R!CopyFails(w, a)
      PROVE  SupportIInv'
  <2> DEFINE u == [R!Idle EXCEPT !.pc = "send", !.who = update[w].who,
                                 !.to = update[w].to \ {a}]
  <2>1. /\ update[w].pc = "send" /\ (R!Set(w, u) \/ R!Finish(w))
        /\ UNCHANGED <<active, chat, mapping, prompt, opened, about, strayed>>
    BY <1>4 DEF R!CopyFails, R!DoneWith, R!history, R!At
  <2>2. u \in RelayRows /\ u.pc = "send" /\ u.who = update[w].who
    BY <1>w, NoUpdate DEF RelayRows, R!Stages
  <2> HIDE DEF u
  <2>3. update[w].pc = "send" => RelayRight(u, chat, about, opened)
    BY <1>w, <2>2 DEF RelayRight, Prompting
  <2> QED
    BY <2>1, <2>2, <2>3, QuietUpdate, QuietFinish
<1> QED
  BY <1>1, <1>2, <1>3, <1>4

\* A copy is sent, and mapped.
LEMMA CopySteps ==
    ASSUME SupportIInv, NEW w \in Workers,
           (\E a \in Admins : R!SendCopy(w, a)) \/ R!StoreMapping(w)
    PROVE  SupportIInv'
<1>w. update[w] \in RelayRows /\ RelayRight(update[w], chat, about, opened)
  BY DEF SupportIInv, SupportTypes
<1>t. SupportTypes
  BY DEF SupportIInv
<1>1. ASSUME NEW a \in Admins, R!SendCopy(w, a)
      PROVE  SupportIInv'
  <2> DEFINE u == [update[w] EXCEPT !.pc = "map", !.on = a, !.id = Len(chat[a]) + 1]
  <2>1. /\ update[w].pc = "send" /\ Len(chat[a]) < MaxIds /\ R!Set(w, u)
        /\ chat' = [chat EXCEPT ![a] = Append(chat[a], update[w].who)]
        /\ UNCHANGED <<active, mapping, prompt, opened, about, strayed>>
    BY <1>1 DEF R!SendCopy, R!history, R!At
  <2>2. update[w].who \in Codes /\ chat[a] \in Seq(Codes) /\ Len(chat[a]) \in Nat
    BY <1>t, <1>w, <2>1, ChatLengths DEF RelayRight
  <2>3. u \in RelayRows /\ u.pc = "map" /\ u.who = update[w].who /\ u.on = a
        /\ u.id = Len(chat[a]) + 1
    <3>1. Len(chat[a]) + 1 \in Nat
      BY <2>2
    <3>2. \A n \in Nat :
            LET q == [update[w] EXCEPT !.pc = "map", !.on = a, !.id = n] IN
            q \in RelayRows /\ q.pc = "map" /\ q.who = update[w].who /\ q.on = a
            /\ q.id = n
      BY <1>w DEF RelayRows, R!Stages
    <3> QED
      BY <3>1, <3>2
  <2> HIDE DEF u
  <2>4. /\ chat'[a] \in Seq(Codes) /\ Len(chat'[a]) = Len(chat[a]) + 1
        /\ chat'[a][Len(chat[a]) + 1] = update[w].who
        /\ \A n \in 1 .. Len(chat[a]) : chat'[a][n] = chat[a][n]
    BY <1>t, <2>1, <2>2 DEF SupportTypes
  <2>5. chat' \in [Admins -> Seq(Codes)] /\ \A b \in Admins \ {a} : chat'[b] = chat[b]
    BY <1>t, <2>1, <2>4 DEF SupportTypes
  <2>6. OnlyGrows /\ \A b \in Admins : Len(chat[b]) \in Nat /\ Len(chat'[b]) \in Nat
    <3>1. opened \in Nat
      BY <1>t, SupportNumbers DEF SupportTypes
    <3>2. \A b \in Admins : /\ Len(chat[b]) \in Nat /\ Len(chat'[b]) \in Nat
                            /\ Len(chat[b]) <= Len(chat'[b])
                            /\ \A n \in 1 .. Len(chat[b]) : chat'[b][n] = chat[b][n]
      BY <1>t, <2>2, <2>4, <2>5, ChatLengths
    <3> QED
      BY <2>1, <3>1, <3>2 DEF OnlyGrows
  <2>7. RelayRight(u, chat', about', opened')
    BY <2>2, <2>3, <2>4 DEF RelayRight, Prompting
  <2>8. /\ update' \in [Workers -> RelayRows]
        /\ \A x \in Workers : RelayRight(update[x], chat, about, opened)'
    BY <2>1, <2>3, <2>6, <2>7, SetUpdate
  <2>9. \A b \in Admins : Len(chat'[b]) <= MaxIds
    BY <1>t, <2>1, <2>2, <2>4, <2>5, SupportNumbers DEF SupportTypes
  <2>10. SupportTypes'
    BY <1>t, <2>1, <2>5, <2>8, <2>9 DEF SupportTypes
  <2>11. MappingRight'
    <3> SUFFICES ASSUME NEW b \in Admins, NEW n \in 1 .. MaxIds, mapping[<<b, n>>] # None
                 PROVE  n <= Len(chat'[b]) /\ chat'[b][n] = mapping[<<b, n>>]
      BY <2>1 DEF MappingRight
    <3>1. n <= Len(chat[b]) /\ chat[b][n] = mapping[<<b, n>>] /\ n \in 1 .. Len(chat[b])
      BY <1>t, ChatLengths DEF SupportIInv, MappingRight
    <3> QED
      BY <2>6, <3>1 DEF OnlyGrows
  <2>12. \A b \in Admins : PromptRight(b)'
    BY <2>1 DEF SupportIInv, PromptRight
  <2> QED
    BY <2>1, <2>8, <2>10, <2>11, <2>12 DEF SupportIInv
<1>2. CASE R!StoreMapping(w)
  <2> DEFINE u == [R!Idle EXCEPT !.pc = "send", !.who = update[w].who,
                                 !.to = update[w].to \ {update[w].on}]
             key == <<update[w].on, update[w].id>>
  <2>1. /\ update[w].pc = "map" /\ (R!Set(w, u) \/ R!Finish(w))
        /\ UNCHANGED <<active, chat, prompt, opened, about, strayed>>
        /\ mapping' \in {[mapping EXCEPT ![key] = update[w].who], mapping}
    BY <1>2 DEF R!StoreMapping, R!DoneWith, R!history, R!At
  <2>2. /\ update[w].who \in Codes /\ update[w].on \in Admins
        /\ update[w].id \in 1 .. Len(chat[update[w].on])
        /\ chat[update[w].on][update[w].id] = update[w].who
        /\ update[w].id \in 1 .. MaxIds
    <3>1. /\ update[w].who \in Codes /\ update[w].on \in Admins
          /\ update[w].id \in 1 .. Len(chat[update[w].on])
          /\ chat[update[w].on][update[w].id] = update[w].who
      BY <1>w, <2>1 DEF RelayRight
    <3>2. /\ Len(chat[update[w].on]) \in Nat
          /\ Len(chat[update[w].on]) <= MaxIds
      BY <1>t, <3>1, ChatLengths DEF SupportTypes
    <3> QED
      BY <3>1, <3>2, SupportNumbers
  <2>3. u \in RelayRows /\ u.pc = "send" /\ u.who = update[w].who
    BY <1>w, NoUpdate DEF RelayRows, R!Stages
  <2> HIDE DEF u
  <2>4. PICK v \in RelayRows : R!Set(w, v) /\ RelayRight(v, chat, about, opened)
    <3>1. RelayRight(u, chat, about, opened)
      BY <2>2, <2>3 DEF RelayRight, Prompting
    <3> QED
      BY <2>1, <2>3, <3>1, NoUpdate DEF R!Finish
  <2>5. OnlyGrows /\ \A b \in Admins : Len(chat[b]) \in Nat /\ Len(chat'[b]) \in Nat
    BY <1>t, <2>1, SupportNumbers, ChatLengths DEF SupportTypes, OnlyGrows
  <2>6. /\ update' \in [Workers -> RelayRows]
        /\ \A x \in Workers : RelayRight(update[x], chat, about, opened)'
    BY <2>1, <2>4, <2>5, SetUpdate
  <2>7. mapping' \in [Admins \X (1 .. MaxIds) -> Codes \cup {None}]
    BY <1>t, <2>1, <2>2 DEF SupportTypes
  <2>8. MappingRight'
    <3> SUFFICES ASSUME NEW b \in Admins, NEW n \in 1 .. MaxIds, mapping'[<<b, n>>] # None
                 PROVE  n <= Len(chat[b]) /\ chat[b][n] = mapping'[<<b, n>>]
      BY <2>1 DEF MappingRight
    <3>1. CASE mapping'[<<b, n>>] = mapping[<<b, n>>]
      BY <3>1 DEF SupportIInv, MappingRight
    <3>2. CASE mapping'[<<b, n>>] # mapping[<<b, n>>]
      <4>1. <<b, n>> = key /\ mapping'[<<b, n>>] = update[w].who
        BY <1>t, <2>1, <2>2, <3>2 DEF SupportTypes
      <4>2. b = update[w].on /\ n = update[w].id
        BY <4>1
      <4> QED
        BY <1>t, <2>2, <4>1, <4>2, ChatLengths
    <3> QED
      BY <3>1, <3>2
  <2>9. SupportTypes' /\ \A b \in Admins : PromptRight(b)'
    BY <1>t, <2>1, <2>6, <2>7 DEF SupportIInv, SupportTypes, PromptRight
  <2> QED
    BY <2>1, <2>6, <2>8, <2>9 DEF SupportIInv
<1> QED
  BY <1>1, <1>2

\* An administrator replies to a copy.
LEMMA AnswerSteps ==
    ASSUME SupportIInv, NEW w \in Workers,
           \/ \E a \in Admins, n \in 1 .. MaxIds : R!ReplyTo(w, a, n)
           \/ R!FindMapping(w) \/ R!SendAnswer(w)
    PROVE  SupportIInv'
<1>w. update[w] \in RelayRows /\ RelayRight(update[w], chat, about, opened)
  BY DEF SupportIInv, SupportTypes
<1>t. SupportTypes
  BY DEF SupportIInv
<1>1. ASSUME NEW a \in Admins, NEW n \in 1 .. MaxIds, R!ReplyTo(w, a, n)
      PROVE  SupportIInv'
  <2> DEFINE u == [R!Idle EXCEPT !.pc = "replied", !.who = a, !.id = n]
  <2>1. /\ n \in 1 .. Len(chat[a]) /\ R!Set(w, u)
        /\ UNCHANGED <<active, chat, mapping, prompt, opened, about, strayed>>
    BY <1>1 DEF R!ReplyTo, R!history
  <2>2. n \in Nat
    BY SupportNumbers
  <2>3. u \in RelayRows /\ u.pc = "replied" /\ u.who = a /\ u.id = n
    BY <2>2, NoUpdate DEF RelayRows, R!Stages
  <2> HIDE DEF u
  <2>4. RelayRight(u, chat, about, opened)
    BY <2>1, <2>3 DEF RelayRight, Prompting
  <2> QED
    BY <2>1, <2>3, <2>4, QuietUpdate
<1>2. CASE R!FindMapping(w)
  <2> DEFINE a == update[w].who
             text == [update[w] EXCEPT !.pc = "text"]
  <2>1. /\ update[w].pc = "replied"
        /\ UNCHANGED <<active, chat, mapping, prompt, opened, about, strayed>>
    BY <1>2 DEF R!FindMapping, R!history, R!At
  <2>2. a \in Admins /\ update[w].id \in 1 .. Len(chat[a]) /\ update[w].id \in 1 .. MaxIds
    <3>1. a \in Admins /\ update[w].id \in 1 .. Len(chat[a])
      BY <1>w, <2>1 DEF RelayRight
    <3>2. Len(chat[a]) \in Nat /\ Len(chat[a]) <= MaxIds
      BY <1>t, <3>1, ChatLengths DEF SupportTypes
    <3> QED
      BY <3>1, <3>2, SupportNumbers
  <2>3. \/ R!Set(w, text) \/ R!Finish(w)
        \/ \E c \in R!Mapped(a, update[w].id) :
              R!Set(w, [update[w] EXCEPT !.pc = "answer", !.on = c])
    BY <1>2 DEF R!FindMapping, R!Goto
  <2>4. CASE R!Set(w, text)
    <3>1. text \in RelayRows /\ text.pc = "text" /\ text.who = a
      BY <1>w DEF RelayRows, R!Stages
    <3> HIDE DEF text
    <3>2. RelayRight(text, chat, about, opened)
      BY <2>2, <3>1 DEF RelayRight, Prompting
    <3> QED
      BY <2>1, <2>4, <3>1, <3>2, QuietUpdate
  <2>5. CASE R!Finish(w)
    BY <2>1, <2>5, QuietFinish
  <2>6. ASSUME NEW c \in R!Mapped(a, update[w].id),
               R!Set(w, [update[w] EXCEPT !.pc = "answer", !.on = c])
        PROVE  SupportIInv'
    <3> DEFINE u == [update[w] EXCEPT !.pc = "answer", !.on = c]
    <3>1. /\ c = mapping[<<a, update[w].id>>] /\ c # None /\ c \in Codes
          /\ c = chat[a][update[w].id]
      BY <1>t, <2>2 DEF R!Mapped, SupportIInv, MappingRight, SupportTypes
    <3>2. u \in RelayRows /\ u.pc = "answer" /\ u.who = a /\ u.id = update[w].id
          /\ u.on = c
      BY <1>w, <3>1 DEF RelayRows, R!Stages
    <3>3. R!Set(w, u)
      BY <2>6
    <3> HIDE DEF u
    <3>4. RelayRight(u, chat, about, opened)
      BY <2>2, <3>1, <3>2 DEF RelayRight, Prompting
    <3> QED
      BY <2>1, <3>2, <3>3, <3>4, QuietUpdate
  <2> QED
    BY <2>3, <2>4, <2>5, <2>6
<1>3. CASE R!SendAnswer(w)
  <2>1. /\ update[w].pc = "answer" /\ R!Finish(w)
        /\ UNCHANGED <<active, chat, mapping, prompt, opened, about>>
        /\ strayed' = (strayed \/ chat[update[w].who][update[w].id] # update[w].on)
    BY <1>3 DEF R!SendAnswer, R!At
  <2>2. ~strayed /\ ~strayed'
    BY <1>w, <2>1 DEF RelayRight, SupportIInv
  <2>3. OnlyGrows /\ \A b \in Admins : Len(chat[b]) \in Nat /\ Len(chat'[b]) \in Nat
    BY <1>t, <2>1, SupportNumbers, ChatLengths DEF SupportTypes, OnlyGrows
  <2>4. /\ update' \in [Workers -> RelayRows]
        /\ \A x \in Workers : RelayRight(update[x], chat, about, opened)'
    BY <2>1, <2>3, SetUpdate, NoUpdate DEF R!Finish
  <2>5. SupportTypes' /\ MappingRight' /\ \A b \in Admins : PromptRight(b)'
    BY <2>1, <2>4 DEF SupportIInv, SupportTypes, MappingRight, PromptRight
  <2> QED
    BY <2>2, <2>4, <2>5 DEF SupportIInv
<1> QED
  BY <1>1, <1>2, <1>3

\* A prompt is opened, used and closed.
LEMMA PromptSteps ==
    ASSUME SupportIInv, NEW w \in Workers,
           \/ \E a \in Admins : R!SendText(w, a)
           \/ R!ReadPrompt(w) \/ R!ListForPrompt(w) \/ R!SendPrompted(w)
           \/ R!AppendAdminMessage(w) \/ R!ReadFlow(w)
    PROVE  SupportIInv'
<1>w. update[w] \in RelayRows /\ RelayRight(update[w], chat, about, opened)
  BY DEF SupportIInv, SupportTypes
<1>t. SupportTypes
  BY DEF SupportIInv
<1>1. ASSUME NEW a \in Admins, R!SendText(w, a)
      PROVE  SupportIInv'
  <2> DEFINE u == [R!Idle EXCEPT !.pc = "text", !.who = a]
  <2>1. /\ R!Set(w, u)
        /\ UNCHANGED <<active, chat, mapping, prompt, opened, about, strayed>>
    BY <1>1 DEF R!SendText, R!history
  <2>2. u \in RelayRows /\ u.pc = "text" /\ u.who = a
    BY NoUpdate DEF RelayRows, R!Stages
  <2> HIDE DEF u
  <2>3. RelayRight(u, chat, about, opened)
    BY <2>2 DEF RelayRight, Prompting
  <2> QED
    BY <2>1, <2>2, <2>3, QuietUpdate
<1>2. CASE R!ReadPrompt(w)
  <2> DEFINE a == update[w].who
             u == [R!Idle EXCEPT !.pc = "prompted", !.who = a, !.id = prompt[a].id,
                                 !.conv = prompt[a].conv, !.on = Owner[prompt[a].conv]]
  <2>1. /\ update[w].pc = "text"
        /\ UNCHANGED <<active, chat, mapping, prompt, opened, about, strayed>>
    BY <1>2 DEF R!ReadPrompt, R!At
  <2>2. CASE prompt[a].conv # None /\ R!Set(w, u)
    <3>1. a \in Admins /\ prompt[a].conv \in Codes /\ prompt[a].id \in Nat
      BY <1>t, <1>w, <2>1, <2>2 DEF RelayRight, SupportTypes
    <3>2. Owner[prompt[a].conv] = prompt[a].conv
      BY <3>1, SupportNumbers
    <3>3. u \in RelayRows /\ u.pc = "prompted" /\ u.who = a /\ u.id = prompt[a].id
          /\ u.conv = prompt[a].conv /\ u.on = prompt[a].conv
      BY <3>1, <3>2, NoUpdate DEF RelayRows, R!Stages
    <3> HIDE DEF u
    <3>4. RelayRight(u, chat, about, opened)
      BY <2>2, <3>1, <3>3 DEF RelayRight, Prompting, SupportIInv, PromptRight
    <3> QED
      BY <2>1, <2>2, <3>3, <3>4, QuietUpdate
  <2>3. CASE R!Finish(w)
    BY <2>1, <2>3, QuietFinish
  <2> QED
    BY <1>2, <2>2, <2>3 DEF R!ReadPrompt
<1>3. ASSUME NEW stage \in {"deliver", "record", "clear", "clearing"},
             R!Goto(w, stage), Prompting(update[w]),
             UNCHANGED <<active, chat, mapping, prompt, opened, about, strayed>>
      PROVE  SupportIInv'
  <2> DEFINE u == [update[w] EXCEPT !.pc = stage]
  <2>1. u \in RelayRows /\ u.pc = stage /\ u.who = update[w].who /\ u.id = update[w].id
        /\ u.conv = update[w].conv /\ u.on = update[w].on
    BY <1>w DEF RelayRows, R!Stages
  <2>2. R!Set(w, u)
    BY <1>3 DEF R!Goto
  <2> HIDE DEF u
  <2>3. RelayRight(u, chat, about, opened)
    BY <1>w, <1>3, <2>1 DEF RelayRight, Prompting
  <2> QED
    BY <1>3, <2>1, <2>2, <2>3, QuietUpdate
<1>4. CASE R!ListForPrompt(w)
  BY <1>3, <1>4 DEF R!ListForPrompt, R!At, R!history, Prompting
<1>5. CASE R!SendPrompted(w)
  <2>1. /\ update[w].pc = "deliver" /\ R!Goto(w, "record")
        /\ UNCHANGED <<active, chat, mapping, prompt, opened, about>>
        /\ strayed' = (strayed \/ Owner[about[update[w].id]] # update[w].on)
    BY <1>5 DEF R!SendPrompted, R!At
  <2>2. /\ update[w].conv \in Codes /\ about[update[w].id] = update[w].conv
        /\ update[w].on = update[w].conv
    BY <1>w, <2>1 DEF RelayRight, Prompting
  <2>3. ~strayed /\ ~strayed'
    BY <2>1, <2>2, SupportNumbers DEF SupportIInv
  <2>4. UNCHANGED strayed
    BY <1>t, <2>1, <2>3 DEF SupportTypes
  <2> QED
    BY <1>3, <2>1, <2>4 DEF Prompting
<1>6. CASE R!AppendAdminMessage(w)
  BY <1>3, <1>6 DEF R!AppendAdminMessage, R!At, R!history, Prompting
<1>7. CASE R!ReadFlow(w)
  <2>1. /\ update[w].pc = "clear" /\ (R!Goto(w, "clearing") \/ R!Finish(w))
        /\ UNCHANGED <<active, chat, mapping, prompt, opened, about, strayed>>
    BY <1>7 DEF R!ReadFlow, R!At, R!history
  <2> QED
    BY <1>3, <2>1, QuietFinish DEF Prompting
<1> QED
  BY <1>1, <1>2, <1>4, <1>5, <1>6, <1>7

\* The row of a prompt is deleted, by its own update or by time.
LEMMA PromptEnds ==
    ASSUME SupportIInv, NEW a \in Admins,
           prompt' = [prompt EXCEPT ![a] = R!NoPrompt],
           update' \in [Workers -> RelayRows],
           \A w \in Workers : RelayRight(update'[w], chat, about, opened),
           UNCHANGED <<active, chat, mapping, opened, about, strayed>>
    PROVE  SupportIInv'
<1>1. R!NoPrompt \in [conv : Codes \cup {None}, id : Nat] /\ R!NoPrompt.conv = None
  BY DEF R!NoPrompt
<1>2. prompt' \in [Admins -> [conv : Codes \cup {None}, id : Nat]]
  BY <1>1 DEF SupportIInv, SupportTypes
<1>3. \A b \in Admins : PromptRight(b)'
  BY <1>1 DEF SupportIInv, SupportTypes, PromptRight
<1>4. SupportTypes' /\ MappingRight'
  BY <1>2 DEF SupportIInv, SupportTypes, MappingRight
<1> QED
  BY <1>3, <1>4 DEF SupportIInv

LEMMA SupportStep ==
    ASSUME SupportIInv, R!Next
    PROVE  SupportIInv'
<1>t. SupportTypes
  BY DEF SupportIInv
<1>1. ASSUME NEW w \in Workers, R!ClearSession(w)
      PROVE  SupportIInv'
  <2>1. /\ update[w].pc = "clearing" /\ R!Finish(w)
        /\ prompt' = [prompt EXCEPT ![update[w].who] = R!NoPrompt]
        /\ UNCHANGED <<active, chat, mapping, opened, about, strayed>>
    BY <1>1 DEF R!ClearSession, R!At, R!history
  <2>2. update[w].who \in Admins
    BY <2>1 DEF SupportIInv, RelayRight, Prompting
  <2>3. OnlyGrows /\ \A b \in Admins : Len(chat[b]) \in Nat /\ Len(chat'[b]) \in Nat
    BY <1>t, <2>1, SupportNumbers, ChatLengths DEF SupportTypes, OnlyGrows
  <2>4. /\ update' \in [Workers -> RelayRows]
        /\ \A x \in Workers : RelayRight(update[x], chat, about, opened)'
    BY <2>1, <2>3, SetUpdate, NoUpdate DEF R!Finish
  <2> QED
    BY <2>1, <2>2, <2>4, PromptEnds
<1>2. ASSUME NEW w \in Workers, R!Crash(w)
      PROVE  SupportIInv'
  BY <1>2, QuietFinish DEF R!Crash
<1>3. ASSUME NEW a \in Admins, NEW v \in Codes, R!OpenPrompt(a, v)
      PROVE  SupportIInv'
  <2> DEFINE new == [conv |-> v, id |-> opened + 1]
  <2>1. /\ opened < MaxPrompts /\ opened' = opened + 1
        /\ prompt' = [prompt EXCEPT ![a] = new]
        /\ about' = [about EXCEPT ![opened + 1] = v]
        /\ UNCHANGED <<active, chat, mapping, update, strayed>>
    BY <1>3 DEF R!OpenPrompt
  <2>2. opened \in Nat /\ opened' \in 0 .. MaxPrompts /\ opened + 1 \in 1 .. MaxPrompts
    BY <1>t, <2>1, SupportNumbers DEF SupportTypes
  <2>3. new \in [conv : Codes \cup {None}, id : Nat] /\ new.conv = v /\ new.id = opened + 1
    BY <2>2
  <2> HIDE DEF new
  <2>4. /\ prompt' \in [Admins -> [conv : Codes \cup {None}, id : Nat]]
        /\ about' \in [1 .. MaxPrompts -> Codes \cup {None}]
        /\ prompt'[a] = new /\ \A b \in Admins \ {a} : prompt'[b] = prompt[b]
        /\ about'[opened + 1] = v /\ \A p \in 1 .. opened : about'[p] = about[p]
    BY <1>t, <2>1, <2>2, <2>3 DEF SupportTypes
  <2>5. OnlyGrows /\ \A b \in Admins : Len(chat[b]) \in Nat /\ Len(chat'[b]) \in Nat
    BY <1>t, <2>1, <2>2, <2>4, ChatLengths DEF OnlyGrows
  <2>6. \A w \in Workers : RelayRight(update[w], chat', about', opened')
    BY <1>t, <2>5, StaysRight DEF SupportIInv, SupportTypes
  <2>7. \A w \in Workers : RelayRight(update[w], chat, about, opened)'
    BY <2>1, <2>6
  <2>8. PromptRight(a)'
    BY <2>1, <2>2, <2>3, <2>4 DEF PromptRight
  <2>9. ASSUME NEW b \in Admins \ {a}
        PROVE  PromptRight(b)'
    <3>1. prompt[b].conv # None => prompt[b].id \in 1 .. opened
                                   /\ about[prompt[b].id] = prompt[b].conv
      BY DEF SupportIInv, PromptRight
    <3> QED
      BY <2>1, <2>2, <2>4, <3>1 DEF PromptRight
  <2>10. SupportTypes' /\ MappingRight'
    BY <1>t, <2>1, <2>2, <2>4 DEF SupportIInv, SupportTypes, MappingRight
  <2> QED
    BY <2>1, <2>7, <2>8, <2>9, <2>10 DEF SupportIInv
<1>4. ASSUME NEW a \in Admins, R!LosePrompt(a)
      PROVE  SupportIInv'
  <2>1. /\ prompt' = [prompt EXCEPT ![a] = R!NoPrompt]
        /\ UNCHANGED <<active, chat, mapping, update, opened, about, strayed>>
    BY <1>4 DEF R!LosePrompt, R!history
  <2> QED
    BY <1>t, <2>1, PromptEnds DEF SupportIInv, SupportTypes
<1>5. ASSUME NEW a \in Admins, R!ChangeAdmin(a)
      PROVE  SupportIInv'
  <2>1. /\ active' \subseteq Admins
        /\ UNCHANGED <<chat, mapping, prompt, update, opened, about, strayed>>
    BY <1>t, <1>5 DEF R!ChangeAdmin, R!history, SupportTypes
  <2> QED
    BY <2>1 DEF SupportIInv, SupportTypes, MappingRight, PromptRight
<1> QED
  BY <1>1, <1>2, <1>3, <1>4, <1>5, RelaySteps, CopySteps, AnswerSteps, PromptSteps
     DEF R!Next

LEMMA SupportStutters ==
    ASSUME SupportIInv, UNCHANGED supportVars
    PROVE  SupportIInv'
<1>1. UNCHANGED <<active, chat, mapping, prompt, update, opened, about, strayed>>
  BY DEF supportVars
<1> QED
  BY <1>1 DEF SupportIInv, SupportTypes, MappingRight, PromptRight

\* The update w uses the prompt p; the administrator a has it open.
Uses(w, p) == Prompting(update[w]) /\ update[w].id = p
Holds(a, p) == prompt[a].conv # None /\ prompt[a].id = p

\* Until two updates use it or one fails: the prompt has one user, who sends once,
\* and is still there when the prompt is open after that.
PromptOnce(p) ==
    p \notin shared =>
        /\ sent[p] \in {0, 1}
        /\ \A w, x \in Workers : Uses(w, p) /\ Uses(x, p) => w = x
        /\ \A w \in Workers : Uses(w, p) /\ update[w].pc \in {"prompted", "deliver"} =>
             sent[p] = 0
        /\ sent[p] = 1 /\ (\E a \in Admins : Holds(a, p)) => \E w \in Workers : Uses(w, p)

OneText ==
    /\ sent \in [1 .. MaxPrompts -> Nat]
    /\ \A p \in 1 .. MaxPrompts : PromptOnce(p) /\ (p > opened => sent[p] = 0)
    /\ \A a, b \in Admins : \A p \in 1 .. MaxPrompts : Holds(a, p) /\ Holds(b, p) => a = b
    /\ \A w \in Workers, a \in Admins : \A p \in 1 .. MaxPrompts :
         Uses(w, p) /\ Holds(a, p) => update[w].who = a

LEMMA OneTextFirst == R!Init => OneText
<1> SUFFICES ASSUME R!Init PROVE OneText
  OBVIOUS
<1>1. \A w \in Workers, p \in 1 .. MaxPrompts : ~Uses(w, p)
  BY NoUpdate DEF R!Init, Uses
<1>2. \A a \in Admins, p \in 1 .. MaxPrompts : ~Holds(a, p)
  BY DEF R!Init, Holds, R!NoPrompt
<1>3. sent = [p \in 1 .. MaxPrompts |-> 0]
  BY DEF R!Init
<1> QED
  BY <1>1, <1>2, <1>3 DEF OneText, PromptOnce

\* The users and holders of a prompt are those of before, or fewer.
FewerUsers ==
    /\ \A w \in Workers : Prompting(update'[w]) =>
         /\ Prompting(update[w])
         /\ update'[w].id = update[w].id /\ update'[w].who = update[w].who
         /\ update'[w].pc \in {"prompted", "deliver"} =>
              update[w].pc \in {"prompted", "deliver"}
    /\ \A a \in Admins : prompt'[a] = prompt[a] \/ prompt'[a].conv = None

\* Who leaves an open prompt has failed.
NobodyLeaves ==
    \A p \in 1 .. MaxPrompts : p \notin shared' =>
        \A a \in Admins, w \in Workers :
            prompt'[a] = prompt[a] /\ Holds(a, p) /\ Uses(w, p) =>
                Prompting(update'[w])

LEMMA FewerKeep ==
    ASSUME OneText, UNCHANGED <<sent, opened>>, shared \subseteq shared', FewerUsers,
           NobodyLeaves
    PROVE  OneText'
<1>1. ASSUME NEW w \in Workers, NEW p \in 1 .. MaxPrompts, Uses(w, p)'
      PROVE  Uses(w, p) /\ update'[w].who = update[w].who
  BY <1>1 DEF FewerUsers, Uses
<1>2. ASSUME NEW a \in Admins, NEW p \in 1 .. MaxPrompts, Holds(a, p)'
      PROVE  Holds(a, p) /\ prompt'[a] = prompt[a]
  BY <1>2 DEF FewerUsers, Holds
<1>3. ASSUME NEW p \in 1 .. MaxPrompts
      PROVE  PromptOnce(p)'
  <2> SUFFICES ASSUME p \notin shared'
               PROVE  /\ sent[p] \in {0, 1}
                      /\ \A w, x \in Workers : Uses(w, p)' /\ Uses(x, p)' => w = x
                      /\ \A w \in Workers :
                           Uses(w, p)' /\ update'[w].pc \in {"prompted", "deliver"} =>
                             sent[p] = 0
                      /\ sent[p] = 1 /\ (\E a \in Admins : Holds(a, p)') =>
                           \E w \in Workers : Uses(w, p)'
    BY DEF PromptOnce
  <2>1. PromptOnce(p) /\ p \notin shared
    BY DEF OneText
  <2>2. \A w, x \in Workers : Uses(w, p)' /\ Uses(x, p)' => w = x
    BY <1>1, <2>1 DEF PromptOnce
  <2>3. ASSUME NEW w \in Workers, Uses(w, p)', update'[w].pc \in {"prompted", "deliver"}
        PROVE  sent[p] = 0
    BY <1>1, <2>1, <2>3 DEF PromptOnce, FewerUsers, Uses
  <2>4. ASSUME sent[p] = 1, NEW a \in Admins, Holds(a, p)'
        PROVE  \E w \in Workers : Uses(w, p)'
    <3>1. Holds(a, p) /\ prompt'[a] = prompt[a]
      BY <1>2, <2>4
    <3>2. PICK w \in Workers : Uses(w, p)
      BY <2>1, <2>4, <3>1 DEF PromptOnce
    <3>3. Prompting(update'[w])
      BY <3>1, <3>2 DEF NobodyLeaves
    <3> QED
      BY <3>2, <3>3 DEF FewerUsers, Uses
  <2> QED
    BY <2>1, <2>2, <2>3, <2>4 DEF PromptOnce
<1>4. \A p \in 1 .. MaxPrompts : (p > opened => sent[p] = 0)'
  BY DEF OneText
<1>5. \A a, b \in Admins : \A p \in 1 .. MaxPrompts : Holds(a, p)' /\ Holds(b, p)' => a = b
  BY <1>2 DEF OneText
<1>6. \A w \in Workers, a \in Admins : \A p \in 1 .. MaxPrompts :
         Uses(w, p)' /\ Holds(a, p)' => update'[w].who = a
  BY <1>1, <1>2 DEF OneText
<1> QED
  BY <1>3, <1>4, <1>5, <1>6 DEF OneText

\* A step of one update that neither begins to use a prompt nor leaves one.
LEMMA UpdateGoesOn ==
    ASSUME SupportIInv, OneText, UNCHANGED <<prompt, opened, sent, shared>>,
           NEW w \in Workers, NEW u, R!Set(w, u),
           \/ ~Prompting(u) /\ ~Prompting(update[w])
           \/ /\ Prompting(u) /\ Prompting(update[w])
              /\ u.id = update[w].id /\ u.who = update[w].who
              /\ u.pc \in {"prompted", "deliver"} => update[w].pc \in {"prompted", "deliver"}
    PROVE  OneText'
<1>1. update'[w] = u /\ \A x \in Workers \ {w} : update'[x] = update[x]
  BY DEF R!Set, SupportIInv, SupportTypes
<1>2. FewerUsers
  BY <1>1 DEF FewerUsers
<1>3. NobodyLeaves
  BY <1>1 DEF NobodyLeaves, Uses
<1> QED
  BY <1>2, <1>3, FewerKeep

\* An update ends: of its prompt, which it leaves, nothing is open, or it has failed.
LEMMA UpdateEnds ==
    ASSUME SupportIInv, OneText, UNCHANGED <<opened, sent>>, shared \subseteq shared',
           NEW w \in Workers, R!Finish(w),
           \A a \in Admins : prompt'[a] = prompt[a] \/ prompt'[a].conv = None,
           Prompting(update[w]) =>
             update[w].id \in shared' \/ prompt'[update[w].who].conv = None
    PROVE  OneText'
<1>1. update'[w] = R!Idle /\ \A x \in Workers \ {w} : update'[x] = update[x]
  BY DEF R!Finish, R!Set, SupportIInv, SupportTypes
<1>2. FewerUsers
  BY <1>1, NoUpdate DEF FewerUsers
<1>3. NobodyLeaves
  <2> SUFFICES ASSUME NEW p \in 1 .. MaxPrompts, p \notin shared', NEW a \in Admins,
                      NEW x \in Workers, prompt'[a] = prompt[a], Holds(a, p), Uses(x, p)
               PROVE  Prompting(update'[x])
    BY DEF NobodyLeaves
  <2>1. CASE x = w
    <3>1. update[w].who = a /\ update[w].id = p /\ Prompting(update[w])
      BY <2>1 DEF OneText, Uses
    <3> QED
      BY <3>1 DEF Holds
  <2>2. CASE x # w
    BY <1>1, <2>2 DEF Uses
  <2> QED
    BY <2>1, <2>2
<1> QED
  BY <1>2, <1>3, FewerKeep

\* handleAdminTextMessage reads the session: a second user of the prompt is noticed.
LEMMA ReadPromptOnce ==
    ASSUME SupportIInv, OneText, NEW w \in Workers, R!ReadPrompt(w)
    PROVE  OneText'
<1>t. SupportTypes
  BY DEF SupportIInv
<1>1. update[w].pc = "text" /\ UNCHANGED <<prompt, opened, sent>>
  BY DEF R!ReadPrompt, R!At
<1>2. PICK a \in Admins : a = update[w].who
  BY <1>1 DEF SupportIInv, RelayRight
<1>p. PICK p : p = prompt[a].id
  OBVIOUS
<1> DEFINE u == [R!Idle EXCEPT !.pc = "prompted", !.who = a, !.id = p,
                               !.conv = prompt[a].conv, !.on = Owner[prompt[a].conv]]
<1>3. CASE R!Finish(w) /\ UNCHANGED shared
  BY <1>1, <1>3, UpdateEnds DEF Prompting
<1>4. CASE /\ prompt[a].conv # None /\ R!Set(w, u)
           /\ shared' = IF R!Using(p) # {} THEN shared \cup {p} ELSE shared
  <2>1. p \in 1 .. MaxPrompts /\ Holds(a, p) /\ p \in Nat
    <3>1. p \in 1 .. opened
      BY <1>p, <1>4 DEF SupportIInv, PromptRight
    <3> QED
      BY <1>t, <1>p, <1>4, <3>1, SupportNumbers DEF SupportTypes, Holds
  <2>2. u.pc = "prompted" /\ u.who = a /\ u.id = p
    BY DEF R!Idle
  <2>3. update'[w] = u /\ \A x \in Workers \ {w} : update'[x] = update[x]
    BY <1>t, <1>4 DEF R!Set, SupportTypes
  <2> HIDE DEF u
  <2>4. Uses(w, p)' /\ \A q \in 1 .. MaxPrompts : Uses(w, q)' => q = p
    BY <2>2, <2>3 DEF Uses, Prompting
  <2>5. /\ \A x \in Workers \ {w}, q \in 1 .. MaxPrompts : Uses(x, q)' <=> Uses(x, q)
        /\ \A b \in Admins, q \in 1 .. MaxPrompts : Holds(b, q)' <=> Holds(b, q)
        /\ \A q \in 1 .. MaxPrompts : ~Uses(w, q)
    BY <1>1, <2>3 DEF Uses, Holds, Prompting
  <2>6. p \notin shared' => \A x \in Workers : ~Uses(x, p)
    BY <1>4 DEF R!Using, R!UsesPrompt, Uses, Prompting
  <2>7. ASSUME NEW q \in 1 .. MaxPrompts, q # p
        PROVE  PromptOnce(q)'
    <3>1. PromptOnce(q) /\ (q \in shared' <=> q \in shared)
      BY <1>4, <2>7 DEF OneText
    <3>2. \A x \in Workers : Uses(x, q)' <=> Uses(x, q)
      BY <2>4, <2>5, <2>7
    <3>3. \A x \in Workers : Uses(x, q) => update'[x] = update[x]
      BY <2>3, <2>5
    <3> QED
      BY <1>1, <2>5, <3>1, <3>2, <3>3 DEF PromptOnce
  <2>8. PromptOnce(p)'
    <3> SUFFICES ASSUME p \notin shared'
                 PROVE  /\ sent[p] = 0
                        /\ \A x \in Workers : Uses(x, p)' => x = w
      BY <1>1, <2>4 DEF PromptOnce
    <3>1. p \notin shared /\ PromptOnce(p) /\ \A x \in Workers : ~Uses(x, p)
      BY <1>4, <2>1, <2>6 DEF OneText
    <3>2. sent[p] = 0
      BY <1>2, <2>1, <3>1 DEF PromptOnce
    <3> QED
      BY <2>5, <2>1, <3>1, <3>2
  <2>9. \A x \in Workers, b \in Admins : \A q \in 1 .. MaxPrompts :
           Uses(x, q)' /\ Holds(b, q)' => update'[x].who = b
    <3>1. ASSUME NEW b \in Admins, Holds(b, p)
          PROVE  b = a
      BY <1>2, <2>1, <3>1 DEF OneText
    <3> QED
      BY <2>1, <2>2, <2>3, <2>4, <2>5, <3>1 DEF OneText
  <2> QED
    BY <1>1, <2>5, <2>7, <2>8, <2>9 DEF OneText
<1> QED
  BY <1>2, <1>p, <1>3, <1>4 DEF R!ReadPrompt

\* deliverConversationReply sends the text.
LEMMA SendPromptedOnce ==
    ASSUME SupportIInv, OneText, NEW w \in Workers, R!SendPrompted(w)
    PROVE  OneText'
<1>t. SupportTypes
  BY DEF SupportIInv
<1>p. PICK p : p = update[w].id
  OBVIOUS
<1> DEFINE u == [update[w] EXCEPT !.pc = "record"]
<1>1. /\ update[w].pc = "deliver" /\ R!Set(w, u)
      /\ sent' = [sent EXCEPT ![p] = sent[p] + 1]
      /\ UNCHANGED <<prompt, opened, shared>>
  BY <1>p DEF R!SendPrompted, R!At, R!Goto
<1>2. p \in 1 .. opened /\ p \in 1 .. MaxPrompts /\ opened \in Nat
  <2>1. p \in 1 .. opened
    BY <1>1, <1>p DEF SupportIInv, RelayRight, Prompting
  <2> QED
    BY <1>t, <2>1, SupportNumbers DEF SupportTypes
<1>3. u.pc = "record" /\ u.id = p /\ u.who = update[w].who
  BY <1>t, <1>p DEF SupportTypes, RelayRows
<1>4. update'[w] = u /\ \A x \in Workers \ {w} : update'[x] = update[x]
  BY <1>t, <1>1 DEF R!Set, SupportTypes
<1> HIDE DEF u
<1>5. /\ \A x \in Workers, q \in 1 .. MaxPrompts : Uses(x, q)' <=> Uses(x, q)
      /\ \A b \in Admins, q \in 1 .. MaxPrompts : Holds(b, q)' <=> Holds(b, q)
      /\ Uses(w, p) /\ \A q \in 1 .. MaxPrompts : Uses(w, q) => q = p
      /\ \A x \in Workers : update'[x].who = update[x].who
  BY <1>1, <1>3, <1>4, <1>p DEF Uses, Holds, Prompting
<1>6. /\ sent' \in [1 .. MaxPrompts -> Nat] /\ sent'[p] = sent[p] + 1
      /\ \A q \in 1 .. MaxPrompts : q # p => sent'[q] = sent[q]
  BY <1>1, <1>2 DEF OneText
<1>7. PromptOnce(p)'
  <2>1. PromptOnce(p)
    BY <1>2 DEF OneText
  <2>2. p \notin shared => sent[p] = 0
    BY <1>1, <1>5, <2>1 DEF PromptOnce
  <2>3. \A x \in Workers : p \notin shared /\ Uses(x, p) => x = w
    BY <1>5, <2>1 DEF PromptOnce
  <2>4. p \notin shared => sent'[p] = 1
    BY <1>6, <2>2
  <2>5. \A x \in Workers : p \notin shared /\ Uses(x, p)' => x = w
    BY <1>2, <1>5, <2>3
  <2>6. Uses(w, p)'
    BY <1>2, <1>5
  <2> QED
    BY <1>1, <1>3, <1>4, <2>4, <2>5, <2>6 DEF PromptOnce
<1>8. ASSUME NEW q \in 1 .. MaxPrompts, q # p
      PROVE  PromptOnce(q)'
  <2>1. PromptOnce(q) /\ sent'[q] = sent[q]
    BY <1>6, <1>8 DEF OneText
  <2>2. \A x \in Workers : Uses(x, q) => update'[x] = update[x]
    BY <1>4, <1>5, <1>8
  <2> QED
    BY <1>1, <1>5, <2>1, <2>2 DEF PromptOnce
<1>9. \A q \in 1 .. MaxPrompts : (q > opened => sent[q] = 0)'
  BY <1>1, <1>2, <1>6 DEF OneText
<1> QED
  BY <1>1, <1>5, <1>6, <1>7, <1>8, <1>9 DEF OneText

\* The button "reply": a new prompt, that nobody has used.
LEMMA OpenPromptOnce ==
    ASSUME SupportIInv, OneText, NEW a \in Admins, NEW v \in Codes, R!OpenPrompt(a, v)
    PROVE  OneText'
<1>t. SupportTypes
  BY DEF SupportIInv
<1>p. PICK p : p = opened + 1
  OBVIOUS
<1> DEFINE new == [conv |-> v, id |-> p]
<1>1. /\ opened < MaxPrompts /\ opened' = p /\ prompt' = [prompt EXCEPT ![a] = new]
      /\ UNCHANGED <<update, sent, shared>>
  BY <1>p DEF R!OpenPrompt
<1>2. opened \in Nat /\ p \in 1 .. MaxPrompts /\ p > opened /\ MaxPrompts \in Nat
  BY <1>t, <1>1, <1>p, SupportNumbers DEF SupportTypes
<1>3. prompt'[a] = new /\ \A b \in Admins \ {a} : prompt'[b] = prompt[b]
  BY <1>t, <1>1 DEF SupportTypes
<1>4. \A w \in Workers, q \in 1 .. MaxPrompts :
         /\ Uses(w, q)' <=> Uses(w, q)
         /\ Uses(w, q) => q \in 1 .. opened
  BY <1>1 DEF Uses, SupportIInv, RelayRight
<1>5. \A b \in Admins, q \in 1 .. MaxPrompts : Holds(b, q) => q \in 1 .. opened
  BY DEF Holds, SupportIInv, PromptRight
<1>6. /\ \A b \in Admins \ {a}, q \in 1 .. MaxPrompts : Holds(b, q)' <=> Holds(b, q)
      /\ \A q \in 1 .. MaxPrompts : Holds(a, q)' => q = p
  BY <1>3 DEF Holds
<1>7. ASSUME NEW q \in 1 .. MaxPrompts
      PROVE  PromptOnce(q)' /\ (q > opened => sent[q] = 0)'
  <2>1. PromptOnce(q) /\ (q > opened => sent[q] = 0)
    BY DEF OneText
  <2>2. (q > opened => sent[q] = 0)'
    BY <1>1, <1>2, <2>1
  <2>3. CASE q = p
    <3>1. sent[q] = 0 /\ \A w \in Workers : ~Uses(w, q)
      BY <1>2, <1>4, <2>1, <2>3
    <3> QED
      BY <1>1, <1>4, <2>2, <3>1 DEF PromptOnce
  <2>4. CASE q # p
    <3>1. \A b \in Admins : Holds(b, q)' => Holds(b, q)
      BY <1>6, <2>4
    <3> QED
      BY <1>1, <1>4, <2>1, <2>2, <3>1 DEF PromptOnce
  <2> QED
    BY <2>3, <2>4
<1>8. \A b \in Admins : ~Holds(b, p)
  BY <1>2, <1>5
<1>9. \A b, c \in Admins : \A q \in 1 .. MaxPrompts : Holds(b, q)' /\ Holds(c, q)' => b = c
  BY <1>6, <1>8 DEF OneText
<1>10. \A w \in Workers, b \in Admins : \A q \in 1 .. MaxPrompts :
          Uses(w, q)' /\ Holds(b, q)' => update'[w].who = b
  BY <1>1, <1>2, <1>4, <1>6 DEF OneText
<1> QED
  BY <1>1, <1>7, <1>9, <1>10 DEF OneText

\* The updates that have to do with no prompt.
LEMMA OtherUpdates ==
    ASSUME SupportIInv, OneText, NEW w \in Workers,
           \/ \E v \in Codes : R!WriteText(w, v)
           \/ R!AppendUserMessage(w) \/ R!ListAdmins(w) \/ R!StoreMapping(w)
           \/ \E a \in Admins : R!SendCopy(w, a) \/ R!CopyFails(w, a) \/ R!SendText(w, a)
           \/ \E a \in Admins, n \in 1 .. MaxIds : R!ReplyTo(w, a, n)
           \/ R!FindMapping(w) \/ R!SendAnswer(w)
    PROVE  OneText'
<1>w. update[w] \in RelayRows
  BY DEF SupportIInv, SupportTypes
<1>1. UNCHANGED <<prompt, opened, sent, shared>>
  BY DEF R!WriteText, R!AppendUserMessage, R!ListAdmins, R!StoreMapping, R!SendCopy,
         R!CopyFails, R!SendText, R!ReplyTo, R!FindMapping, R!SendAnswer, R!history
<1>2. ~Prompting(update[w])
  BY DEF R!WriteText, R!AppendUserMessage, R!ListAdmins, R!StoreMapping, R!SendCopy,
         R!CopyFails, R!SendText, R!ReplyTo, R!FindMapping, R!SendAnswer, R!At, Prompting
<1>3. R!Finish(w) => OneText'
  BY <1>1, <1>2, UpdateEnds
<1>4. ASSUME NEW u, R!Set(w, u),
             u.pc \in {"append", "list", "send", "map", "text", "replied", "answer"}
      PROVE  OneText'
  <2>1. ~Prompting(u)
    BY <1>4 DEF Prompting
  <2> QED
    BY <1>1, <1>2, <1>4, <2>1, UpdateGoesOn
<1>5. ASSUME NEW v \in Codes, R!WriteText(w, v)
      PROVE  OneText'
  <2>1. R!Set(w, [R!Idle EXCEPT !.pc = "append", !.who = Owner[v], !.conv = v])
    BY <1>5 DEF R!WriteText
  <2>2. [R!Idle EXCEPT !.pc = "append", !.who = Owner[v], !.conv = v].pc = "append"
    BY DEF R!Idle
  <2> QED
    BY <1>4, <2>1, <2>2
<1>6. CASE R!AppendUserMessage(w)
  <2>1. R!Set(w, [update[w] EXCEPT !.pc = "list", !.conv = None])
    BY <1>6 DEF R!AppendUserMessage
  <2>2. [update[w] EXCEPT !.pc = "list", !.conv = None].pc = "list"
    BY <1>w DEF RelayRows
  <2> QED
    BY <1>4, <2>1, <2>2
<1>7. CASE R!ListAdmins(w)
  <2>1. R!Set(w, [update[w] EXCEPT !.pc = "send", !.to = active]) \/ R!Finish(w)
    BY <1>7 DEF R!ListAdmins
  <2>2. [update[w] EXCEPT !.pc = "send", !.to = active].pc = "send"
    BY <1>w DEF RelayRows
  <2> QED
    BY <1>3, <1>4, <2>1, <2>2
<1>8. ASSUME NEW a, R!DoneWith(w, a)
      PROVE  OneText'
  <2>1. \/ R!Finish(w)
        \/ R!Set(w, [R!Idle EXCEPT !.pc = "send", !.who = update[w].who,
                                   !.to = update[w].to \ {a}])
    BY <1>8 DEF R!DoneWith
  <2>2. [R!Idle EXCEPT !.pc = "send", !.who = update[w].who,
                       !.to = update[w].to \ {a}].pc = "send"
    BY DEF R!Idle
  <2> QED
    BY <1>3, <1>4, <2>1, <2>2
<1>9. CASE R!StoreMapping(w) \/ \E a \in Admins : R!CopyFails(w, a)
  BY <1>8, <1>9 DEF R!StoreMapping, R!CopyFails
<1>10. ASSUME NEW a \in Admins, R!SendCopy(w, a)
       PROVE  OneText'
  <2>1. R!Set(w, [update[w] EXCEPT !.pc = "map", !.on = a, !.id = Len(chat[a]) + 1])
    BY <1>10 DEF R!SendCopy
  <2>2. [update[w] EXCEPT !.pc = "map", !.on = a, !.id = Len(chat[a]) + 1].pc = "map"
    BY <1>w DEF RelayRows
  <2> QED
    BY <1>4, <2>1, <2>2
<1>11. ASSUME NEW a \in Admins, R!SendText(w, a)
       PROVE  OneText'
  <2>1. R!Set(w, [R!Idle EXCEPT !.pc = "text", !.who = a])
    BY <1>11 DEF R!SendText
  <2>2. [R!Idle EXCEPT !.pc = "text", !.who = a].pc = "text"
    BY DEF R!Idle
  <2> QED
    BY <1>4, <2>1, <2>2
<1>12. ASSUME NEW a \in Admins, NEW n \in 1 .. MaxIds, R!ReplyTo(w, a, n)
       PROVE  OneText'
  <2>1. R!Set(w, [R!Idle EXCEPT !.pc = "replied", !.who = a, !.id = n])
    BY <1>12 DEF R!ReplyTo
  <2>2. [R!Idle EXCEPT !.pc = "replied", !.who = a, !.id = n].pc = "replied"
    BY DEF R!Idle
  <2> QED
    BY <1>4, <2>1, <2>2
<1>13. CASE R!FindMapping(w)
  <2>1. \/ R!Finish(w) \/ R!Set(w, [update[w] EXCEPT !.pc = "text"])
        \/ \E c : R!Set(w, [update[w] EXCEPT !.pc = "answer", !.on = c])
    BY <1>13 DEF R!FindMapping, R!Goto
  <2>2. /\ [update[w] EXCEPT !.pc = "text"].pc = "text"
        /\ \A c : [update[w] EXCEPT !.pc = "answer", !.on = c].pc = "answer"
    BY <1>w DEF RelayRows
  <2> QED
    BY <1>3, <1>4, <2>1, <2>2
<1>14. CASE R!SendAnswer(w)
  BY <1>3, <1>14 DEF R!SendAnswer
<1> QED
  BY <1>5, <1>6, <1>7, <1>9, <1>10, <1>11, <1>12, <1>13, <1>14

LEMMA OneTextStep ==
    ASSUME SupportIInv, OneText, R!Next
    PROVE  OneText'
<1>1. ASSUME NEW w \in Workers, NEW stage \in {"deliver", "record", "clear", "clearing"},
             R!Goto(w, stage), Prompting(update[w]),
             stage = "deliver" => update[w].pc = "prompted",
             UNCHANGED <<prompt, opened, sent, shared>>
      PROVE  OneText'
  <2> DEFINE u == [update[w] EXCEPT !.pc = stage]
  <2>1. u.pc = stage /\ u.id = update[w].id /\ u.who = update[w].who
    BY DEF SupportIInv, SupportTypes, RelayRows
  <2>2. R!Set(w, u)
    BY <1>1 DEF R!Goto
  <2> HIDE DEF u
  <2> QED
    BY <1>1, <2>1, <2>2, UpdateGoesOn DEF Prompting
<1>2. ASSUME NEW w \in Workers, R!ListForPrompt(w)
      PROVE  OneText'
  BY <1>1, <1>2 DEF R!ListForPrompt, R!At, R!history, Prompting
<1>3. ASSUME NEW w \in Workers, R!AppendAdminMessage(w)
      PROVE  OneText'
  BY <1>1, <1>3 DEF R!AppendAdminMessage, R!At, R!history, Prompting
<1>4. ASSUME NEW w \in Workers, R!ReadFlow(w)
      PROVE  OneText'
  <2>1. /\ update[w].pc = "clear" /\ UNCHANGED <<prompt, opened, sent, shared>>
        /\ \/ R!Goto(w, "clearing")
           \/ R!Finish(w) /\ prompt[update[w].who].conv = None
    BY <1>4 DEF R!ReadFlow, R!Clears, R!At, R!history
  <2>2. CASE R!Goto(w, "clearing")
    BY <1>1, <2>1, <2>2 DEF Prompting
  <2>3. CASE R!Finish(w) /\ prompt[update[w].who].conv = None
    BY <2>1, <2>3, UpdateEnds
  <2> QED
    BY <2>1, <2>2, <2>3
<1>5. ASSUME NEW w \in Workers, R!ClearSession(w)
      PROVE  OneText'
  <2>1. /\ update[w].pc = "clearing" /\ R!Finish(w)
        /\ prompt' = [prompt EXCEPT ![update[w].who] = R!NoPrompt]
        /\ UNCHANGED <<opened, sent, shared>>
    BY <1>5 DEF R!ClearSession, R!At, R!history
  <2>2. update[w].who \in Admins
    BY <2>1 DEF SupportIInv, RelayRight, Prompting
  <2>3. /\ prompt'[update[w].who].conv = None
        /\ \A a \in Admins : prompt'[a] = prompt[a] \/ prompt'[a].conv = None
    BY <2>1, <2>2 DEF SupportIInv, SupportTypes, R!NoPrompt
  <2> QED
    BY <2>1, <2>3, UpdateEnds
<1>6. ASSUME NEW w \in Workers, R!Crash(w)
      PROVE  OneText'
  <2>1. /\ R!Finish(w) /\ UNCHANGED <<prompt, opened, sent>>
        /\ shared' = IF Prompting(update[w]) THEN shared \cup {update[w].id} ELSE shared
    BY <1>6 DEF R!Crash, R!UsesPrompt, Prompting
  <2> QED
    BY <2>1, UpdateEnds
<1>7. ASSUME NEW a \in Admins, R!LosePrompt(a) \/ R!ChangeAdmin(a)
      PROVE  OneText'
  <2>1. /\ UNCHANGED <<update, opened, sent, shared>>
        /\ prompt' = [prompt EXCEPT ![a] = R!NoPrompt] \/ UNCHANGED prompt
    BY <1>7 DEF R!LosePrompt, R!ChangeAdmin, R!history
  <2>2. \A b \in Admins : prompt'[b] = prompt[b] \/ prompt'[b].conv = None
    BY <2>1 DEF SupportIInv, SupportTypes, R!NoPrompt
  <2>3. FewerUsers /\ NobodyLeaves
    BY <2>1, <2>2 DEF FewerUsers, NobodyLeaves, Uses
  <2> QED
    BY <2>1, <2>3, FewerKeep
<1> QED
  BY <1>2, <1>3, <1>4, <1>5, <1>6, <1>7, OtherUpdates, ReadPromptOnce, SendPromptedOnce,
     OpenPromptOnce
     DEF R!Next

LEMMA OneTextStutters ==
    ASSUME OneText, UNCHANGED supportVars
    PROVE  OneText'
<1>1. UNCHANGED <<prompt, update, opened, sent, shared>>
  BY DEF supportVars
<1>2. FewerUsers /\ NobodyLeaves
  BY <1>1 DEF FewerUsers, NobodyLeaves, Uses
<1> QED
  BY <1>1, <1>2, FewerKeep

THEOREM SupportInvariance == Spec => [](part = "support" => SupportIInv /\ OneText)
<1>1. Init => (part = "support" => SupportIInv /\ OneText)
  BY SupportFirst, OneTextFirst DEF Init
<1>2. ASSUME part = "support" => SupportIInv /\ OneText, [Next]_allVars
      PROVE  (part = "support" => SupportIInv /\ OneText)'
  <2>1. CASE Next
    <3>1. part' = part
      BY <2>1 DEF Next
    <3>2. ASSUME part = "support"
          PROVE  SupportIInv' /\ OneText'
      <4>1. R!Next
        BY <2>1, <3>2 DEF Next
      <4> QED
        BY <1>2, <3>2, <4>1, SupportStep, OneTextStep
    <3> QED
      BY <3>1, <3>2
  <2>2. CASE UNCHANGED allVars
    <3>1. part' = part /\ UNCHANGED supportVars
      BY <2>2 DEF allVars
    <3> QED
      BY <1>2, <3>1, SupportStutters, OneTextStutters
  <2> QED
    BY <1>2, <2>1, <2>2
<1> QED
  BY <1>1, <1>2, PTL DEF Spec

\* An answer reaches the customer whose text was replied to, or whose conversation
\* was opened (deliverAdminReply, deliverConversationReply), whoever else writes,
\* comes or goes in between.
THEOREM AnswersReachTheAsker == Spec => []AnswersReachAsker
<1>1. (part = "support" => SupportIInv /\ OneText) => AnswersReachAsker
  BY DEF AnswersReachAsker, R!AnswersReachAsker, SupportIInv
<1> QED
  BY <1>1, SupportInvariance, PTL

\* One press of "reply" sends one text (handleAdminTextMessage, clearFlow), unless
\* two are under way at one time or a request fails.
THEOREM PromptsSendOnce == Spec => []OnePromptOneText
<1>1. ASSUME part = "support" => SupportIInv /\ OneText
      PROVE  OnePromptOneText
  <2>1. ASSUME part = "support", NEW p \in 1 .. MaxPrompts, sent[p] > 1
        PROVE  p \in shared
    <3>1. PromptOnce(p)
      BY <1>1, <2>1 DEF OneText
    <3> QED
      BY <2>1, <3>1 DEF PromptOnce
  <2> QED
    BY <2>1 DEF OnePromptOneText, R!OnePromptOneText
<1> QED
  BY <1>1, SupportInvariance, PTL

-----------------------------------------------------------------------------
\* The sessions of an administrator.

RefreshRows == [pc : {"idle", "sent", "create", "replace", "answer"},
                old : Tokens \cup {None}, new : Tokens \cup {None}, pw : Nat]
CallRows == [pc : {"idle", "waiting", "sent", "verified"}, kind : S!Kinds \cup {None},
             body : Tokens \cup {None}, pw : Nat]

SessionTypes ==
    /\ session \in [Tokens -> {"none", "live", "revoked", "expired"}]
    /\ password \in Nat
    /\ store \in [Tabs -> Tokens \cup {None}]
    /\ access \in [Tabs -> {"none", "good", "stale"}]
    /\ refresh \in [Tabs -> RefreshRows]
    /\ call \in [Tabs -> CallRows]
    /\ known \in [Tokens -> Nat]
    /\ \A t \in Tabs : store[t] = None <=> access[t] = "none"

\* A refresh carries the password under which the token was looked up.
RefreshRight(t) ==
    /\ refresh[t].pc # "idle" => refresh[t].old \in Tokens
    /\ refresh[t].pc \in {"replace", "answer"} =>
         refresh[t].new \in Tokens /\ refresh[t].new # refresh[t].old
    /\ refresh[t].pw <= password
    /\ refresh[t].pc = "create" /\ refresh[t].pw = password =>
         known[refresh[t].old] = password \/ refresh[t].old \in late

\* A token that may be refused only for a reason.
Good(k) == session[k] \in {"live", "expired"} \/ k \in ended \cup lost

\* What a tab has stored, sent or been issued is good, but for the token that the
\* answer on its way replaces.
Kept(t) ==
    /\ store[t] # None => \/ Good(store[t])
                          \/ refresh[t].pc = "answer" /\ refresh[t].old = store[t]
    /\ refresh[t].pc = "sent" => Good(refresh[t].old)
    /\ refresh[t].pc \in {"replace", "answer"} => Good(refresh[t].new)

\* The token k is stored, or being refreshed or issued, in the tab t.
Owns(t, k) ==
    \/ store[t] = k
    \/ refresh[t].pc # "idle" /\ refresh[t].old = k
    \/ refresh[t].pc \in {"replace", "answer"} /\ refresh[t].new = k

LiveKnows(k) == session[k] = "live" => known[k] = password \/ k \in late

SessionsIInv ==
    /\ SessionTypes
    /\ \A k \in Tokens : LiveKnows(k)
    /\ \A t \in Tabs : RefreshRight(t) /\ Kept(t)
    /\ \A t, x \in Tabs, k \in Tokens : Owns(t, k) /\ Owns(x, k) => t = x
    /\ \A t \in Tabs, k \in Tokens : Owns(t, k) => session[k] # "none"

LEMMA IdleRows ==
    /\ None \notin Tokens
    /\ S!NoRefresh \in RefreshRows /\ S!NoRefresh.pc = "idle" /\ S!NoRefresh.pw = 0
    /\ S!NoCall \in CallRows /\ S!NoCall.pc = "idle"
<1>1. None \notin Tokens
  BY SessionsAssumption DEF S!AdminSessionsAssumption
<1>2. S!NoRefresh \in RefreshRows /\ S!NoRefresh.pc = "idle" /\ S!NoRefresh.pw = 0
  BY DEF S!NoRefresh, RefreshRows
<1>3. S!NoCall \in CallRows /\ S!NoCall.pc = "idle"
  BY DEF S!NoCall, CallRows
<1> QED
  BY <1>1, <1>2, <1>3

LEMMA SessionsFirst == S!Init => SessionsIInv
<1> SUFFICES ASSUME S!Init PROVE SessionsIInv
  OBVIOUS
<1>1. SessionTypes
  <2>1. \A t \in Tabs : store[t] = None <=> access[t] = "none"
    BY DEF S!Init
  <2>2. store \in [Tabs -> Tokens \cup {None}] /\ access \in [Tabs -> {"none", "good", "stale"}]
    BY DEF S!Init
  <2>3. refresh \in [Tabs -> RefreshRows] /\ call \in [Tabs -> CallRows]
    BY IdleRows DEF S!Init
  <2>4. /\ session \in [Tokens -> {"none", "live", "revoked", "expired"}]
        /\ password \in Nat /\ known \in [Tokens -> Nat]
    BY DEF S!Init
  <2> QED
    BY <2>1, <2>2, <2>3, <2>4 DEF SessionTypes
<1>2. \A k \in Tokens : LiveKnows(k)
  BY DEF S!Init, LiveKnows
<1>3. \A t \in Tabs : RefreshRight(t) /\ Kept(t)
  <2>1. \A t \in Tabs : /\ store[t] = None /\ refresh[t].pc = "idle"
                       /\ refresh[t].pw <= password
    <3>1. /\ store = [t \in Tabs |-> None] /\ refresh = [t \in Tabs |-> S!NoRefresh]
          /\ password = 0
      BY DEF S!Init
    <3>2. \A t \in Tabs : refresh[t].pw = 0
      BY <3>1 DEF S!NoRefresh
    <3>3. \A t \in Tabs : refresh[t].pw <= password
      <4>1. \A m, n \in Nat : m = 0 /\ n = 0 => m <= n
        OBVIOUS
      <4>2. password \in Nat /\ \A t \in Tabs : refresh[t].pw \in Nat
        BY <3>1, <3>2
      <4> QED
        BY <3>1, <3>2, <4>1, <4>2
    <3> QED
      BY <3>1, <3>3, IdleRows
  <2> QED
    BY <2>1 DEF RefreshRight, Kept
<1>4. \A t \in Tabs, k \in Tokens : ~Owns(t, k)
  <2>1. \A t \in Tabs : store[t] = None /\ refresh[t].pc = "idle"
    BY IdleRows DEF S!Init
  <2> QED
    BY <2>1, IdleRows DEF Owns
<1> QED
  BY <1>1, <1>2, <1>3, <1>4 DEF SessionsIInv

\* A step of one tab that creates and ends no session.
LEMMA TabStep ==
    ASSUME SessionsIInv, UNCHANGED <<session, password, known, late, ended>>,
           lost \subseteq lost', SessionTypes', NEW t \in Tabs,
           \A x \in Tabs \ {t} : store'[x] = store[x] /\ refresh'[x] = refresh[x],
           RefreshRight(t)', Kept(t)', \A k \in Tokens : Owns(t, k)' => Owns(t, k)
    PROVE  SessionsIInv'
<1>1. \A k \in Tokens : LiveKnows(k)'
  BY DEF SessionsIInv, LiveKnows
<1>2. ASSUME NEW x \in Tabs \ {t}
      PROVE  RefreshRight(x)' /\ Kept(x)' /\ \A k \in Tokens : Owns(x, k)' <=> Owns(x, k)
  <2>1. store'[x] = store[x] /\ refresh'[x] = refresh[x]
    OBVIOUS
  <2>2. RefreshRight(x)' /\ Kept(x)'
    BY <2>1 DEF SessionsIInv, RefreshRight, Kept, Good
  <2> QED
    BY <2>1, <2>2 DEF Owns
<1>3. \A x \in Tabs, k \in Tokens : Owns(x, k)' => Owns(x, k)
  BY <1>2
<1>4. \A x, y \in Tabs, k \in Tokens : Owns(x, k)' /\ Owns(y, k)' => x = y
  BY <1>3 DEF SessionsIInv
<1>5. \A x \in Tabs, k \in Tokens : Owns(x, k)' => session'[k] # "none"
  BY <1>3 DEF SessionsIInv
<1> QED
  BY <1>1, <1>2, <1>4, <1>5 DEF SessionsIInv

\* A step of one tab that leaves its refresh alone.
LEMMA CallStep ==
    ASSUME SessionsIInv, UNCHANGED <<session, password, known, late, ended, lost, refresh>>,
           SessionTypes', NEW t \in Tabs,
           \A x \in Tabs \ {t} : store'[x] = store[x], store'[t] \in {store[t], None}
    PROVE  SessionsIInv'
<1>1. RefreshRight(t)' /\ Kept(t)'
  BY DEF SessionsIInv, RefreshRight, Kept, Good
<1>2. \A k \in Tokens : Owns(t, k)' => Owns(t, k)
  BY IdleRows DEF Owns
<1> QED
  BY <1>1, <1>2, TabStep

\* A refresh begins, or the one under way is shared.
LEMMA StartKeeps ==
    ASSUME SessionsIInv, NEW t \in Tabs, store[t] # None, S!StartRefresh(t),
           UNCHANGED <<session, password, known, late, ended, lost, store, access>>,
           call' \in [Tabs -> CallRows]
    PROVE  SessionsIInv'
<1>t. SessionTypes
  BY DEF SessionsIInv
<1>1. CASE refresh' = refresh
  <2>1. SessionTypes'
    BY <1>t, <1>1 DEF SessionTypes
  <2> QED
    BY <1>1, <2>1, CallStep
<1>2. CASE refresh[t] = S!NoRefresh /\ refresh' # refresh
  <2> DEFINE r == [S!NoRefresh EXCEPT !.pc = "sent", !.old = store[t]]
  <2>1. refresh' = [refresh EXCEPT ![t] = r]
    BY <1>2 DEF S!StartRefresh
  <2>2. store[t] \in Tokens /\ Good(store[t])
    BY <1>t, <1>2, IdleRows DEF SessionTypes, SessionsIInv, Kept
  <2>3. r \in RefreshRows /\ r.pc = "sent" /\ r.old = store[t] /\ r.pw = S!NoRefresh.pw
    BY <2>2, IdleRows DEF RefreshRows
  <2> HIDE DEF r
  <2>4. refresh'[t] = r /\ \A x \in Tabs \ {t} : refresh'[x] = refresh[x]
    BY <1>t, <2>1 DEF SessionTypes
  <2>5. SessionTypes'
    BY <1>t, <2>1, <2>3 DEF SessionTypes
  <2>6. RefreshRight(t)'
    <3>1. r.pw <= password
      BY <1>2, <2>3 DEF SessionsIInv, RefreshRight
    <3> QED
      BY <2>2, <2>3, <2>4, <3>1 DEF RefreshRight
  <2>7. Kept(t)'
    BY <2>2, <2>3, <2>4 DEF Kept, Good
  <2>8. \A k \in Tokens : Owns(t, k)' => Owns(t, k)
    BY <2>3, <2>4 DEF Owns
  <2> QED
    BY <2>4, <2>5, <2>6, <2>7, <2>8, TabStep
<1> QED
  BY <1>1, <1>2 DEF S!StartRefresh

\* The refresh of a tab ends: its store stays, is emptied or holds the new token.
LEMMA RefreshEnds ==
    ASSUME SessionsIInv, NEW t \in Tabs,
           UNCHANGED <<session, password, known, late, ended>>, lost \subseteq lost',
           refresh' = [refresh EXCEPT ![t] = S!NoRefresh],
           \A x \in Tabs \ {t} : store'[x] = store[x],
           \/ store'[t] = None
           \/ /\ store'[t] = store[t]
              /\ refresh[t].pc = "answer" => refresh[t].old \in lost'
           \/ refresh[t].pc = "answer" /\ store'[t] = refresh[t].new,
           store' \in [Tabs -> Tokens \cup {None}],
           access' \in [Tabs -> {"none", "good", "stale"}],
           \A x \in Tabs : store'[x] = None <=> access'[x] = "none",
           call' \in [Tabs -> CallRows]
    PROVE  SessionsIInv'
<1>t. SessionTypes
  BY DEF SessionsIInv
<1>1. /\ refresh'[t] = S!NoRefresh /\ \A x \in Tabs \ {t} : refresh'[x] = refresh[x]
      /\ refresh' \in [Tabs -> RefreshRows]
  BY <1>t, IdleRows DEF SessionTypes
<1>2. SessionTypes'
  BY <1>t, <1>1 DEF SessionTypes
<1>3. RefreshRight(t)'
  <2>1. S!NoRefresh.pw <= password
    <3>1. \A m, n \in Nat : m = 0 => m <= n
      OBVIOUS
    <3>2. S!NoRefresh.pw \in Nat /\ S!NoRefresh.pw = 0
      BY IdleRows DEF RefreshRows
    <3> QED
      BY <1>t, <3>1, <3>2 DEF SessionTypes
  <2> QED
    BY <1>1, <2>1, IdleRows DEF RefreshRight
<1>4. Kept(t)'
  <2>1. Kept(t)
    BY DEF SessionsIInv
  <2>2. store'[t] # None => Good(store'[t]) \/ store'[t] \in lost'
    BY <2>1 DEF Kept, RefreshRight
  <2> QED
    BY <1>1, <2>2, IdleRows DEF Kept, Good
<1>5. \A k \in Tokens : Owns(t, k)' => Owns(t, k)
  BY <1>1, IdleRows DEF Owns
<1> QED
  BY <1>1, <1>2, <1>3, <1>4, <1>5, TabStep

\* What the two changes of the store and the ends of a call make of their variables.
StoreTypes ==
    /\ store \in [Tabs -> Tokens \cup {None}]
    /\ access \in [Tabs -> {"none", "good", "stale"}]
    /\ \A t \in Tabs : store[t] = None <=> access[t] = "none"

LEMMA StoreSteps ==
    ASSUME SessionTypes, NEW t \in Tabs
    PROVE  /\ S!Clear(t) => /\ StoreTypes' /\ store'[t] = None
                            /\ \A x \in Tabs \ {t} : store'[x] = store[x]
           /\ \A k \in Tokens : S!SetTokens(t, k) =>
                /\ StoreTypes' /\ store'[t] = k
                /\ \A x \in Tabs \ {t} : store'[x] = store[x]
<1>1. ASSUME S!Clear(t)
      PROVE  /\ StoreTypes' /\ store'[t] = None
             /\ \A x \in Tabs \ {t} : store'[x] = store[x]
  BY <1>1 DEF SessionTypes, StoreTypes, S!Clear
<1>2. ASSUME NEW k \in Tokens, S!SetTokens(t, k)
      PROVE  /\ StoreTypes' /\ store'[t] = k
             /\ \A x \in Tabs \ {t} : store'[x] = store[x]
  BY <1>2, IdleRows DEF SessionTypes, StoreTypes, S!SetTokens
<1> QED
  BY <1>1, <1>2

LEMMA CallSteps ==
    ASSUME SessionTypes, NEW t \in Tabs
    PROVE  /\ [call EXCEPT ![t] = S!NoCall] \in [Tabs -> CallRows]
           /\ S!Resume(t) => call' \in [Tabs -> CallRows]
           /\ S!GiveUp(t) => call' \in [Tabs -> CallRows]
<1>1. call \in [Tabs -> CallRows]
  BY DEF SessionTypes
<1>2. \A r \in CallRows : [call EXCEPT ![t] = r] \in [Tabs -> CallRows]
  BY <1>1
<1>3. [call EXCEPT ![t] = S!NoCall] \in [Tabs -> CallRows]
  BY <1>2, IdleRows
<1>4. [call EXCEPT ![t].pc = "sent"] \in [Tabs -> CallRows]
  BY <1>1 DEF CallRows
<1>5. S!Resume(t) => call' \in [Tabs -> CallRows]
  BY <1>1, <1>4 DEF S!Resume
<1>6. S!GiveUp(t) => call' \in [Tabs -> CallRows]
  BY <1>1, <1>3 DEF S!GiveUp
<1> QED
  BY <1>3, <1>5, <1>6

\* The steps of a refresh that create and end no session.
LEMMA RefreshSteps ==
    ASSUME SessionsIInv, NEW t \in Tabs
    PROVE  /\ S!Poll(t) => SessionsIInv'
           /\ S!ReadToken(t) => SessionsIInv'
           /\ S!RefuseToken(t) => SessionsIInv'
           /\ S!FailRefresh(t) => SessionsIInv'
           /\ S!AnswerRefresh(t) => SessionsIInv'
           /\ S!LoseRefresh(t) => SessionsIInv'
<1>t. SessionTypes
  BY DEF SessionsIInv
<1>1. ASSUME S!Poll(t)
      PROVE  SessionsIInv'
  <2>1. store[t] # None
    BY <1>t, <1>1 DEF S!Poll, SessionTypes
  <2>2. /\ S!StartRefresh(t) /\ call' \in [Tabs -> CallRows]
        /\ UNCHANGED <<session, password, known, late, ended, lost, store, access>>
    BY <1>t, <1>1 DEF S!Poll, SessionTypes
  <2> QED
    BY <2>1, <2>2, StartKeeps
<1>2. ASSUME S!ReadToken(t)
      PROVE  SessionsIInv'
  <2> DEFINE r == [refresh[t] EXCEPT !.pc = "create", !.pw = password]
  <2>1. /\ refresh[t].pc = "sent" /\ session[refresh[t].old] = "live"
        /\ UNCHANGED <<session, password, store, access, call, known, late, ended, lost>>
    BY <1>2 DEF S!ReadToken, S!Refreshable, S!Live
  <2>2. refresh[t] \in RefreshRows /\ password \in Nat
    BY <1>t DEF SessionTypes
  <2>3. r \in RefreshRows /\ r.pc = "create" /\ r.pw = password /\ r.old = refresh[t].old
    BY <2>2 DEF RefreshRows
  <2>4. refresh' = [refresh EXCEPT ![t] = r]
    BY <1>t, <1>2 DEF S!ReadToken, SessionTypes
  <2> HIDE DEF r
  <2>5. refresh'[t] = r /\ \A x \in Tabs \ {t} : refresh'[x] = refresh[x]
    BY <1>t, <2>4 DEF SessionTypes
  <2>6. SessionTypes'
    BY <1>t, <2>1, <2>3, <2>4 DEF SessionTypes
  <2>7. RefreshRight(t)'
    <3>1. refresh[t].old \in Tokens
      BY <2>1 DEF SessionsIInv, RefreshRight
    <3>2. known[refresh[t].old] = password \/ refresh[t].old \in late
      BY <2>1, <3>1 DEF SessionsIInv, LiveKnows
    <3>3. r.pw <= password
      BY <2>2, <2>3
    <3> QED
      BY <2>1, <2>3, <2>5, <3>1, <3>2, <3>3 DEF RefreshRight
  <2>8. Kept(t)'
    BY <2>1, <2>3, <2>5 DEF SessionsIInv, Kept, Good
  <2>9. \A k \in Tokens : Owns(t, k)' => Owns(t, k)
    BY <2>1, <2>3, <2>5 DEF Owns
  <2> QED
    BY <2>1, <2>5, <2>6, <2>7, <2>8, <2>9, TabStep
<1>3. ASSUME S!RefuseToken(t) \/ S!FailRefresh(t)
      PROVE  SessionsIInv'
  <2>1. /\ S!Clear(t) /\ S!GiveUp(t) /\ refresh' = [refresh EXCEPT ![t] = S!NoRefresh]
        /\ UNCHANGED <<session, password, known, late, ended, lost>>
    BY <1>3 DEF S!RefuseToken, S!FailRefresh
  <2>2. /\ StoreTypes' /\ store'[t] = None
        /\ \A x \in Tabs \ {t} : store'[x] = store[x]
    BY <1>t, <2>1, StoreSteps
  <2>3. call' \in [Tabs -> CallRows]
    BY <1>t, <2>1, CallSteps
  <2> QED
    BY <2>1, <2>2, <2>3, RefreshEnds DEF StoreTypes
<1>4. ASSUME S!AnswerRefresh(t)
      PROVE  SessionsIInv'
  <2>1. /\ S!SetTokens(t, refresh[t].new) /\ S!Resume(t) /\ refresh[t].pc = "answer"
        /\ refresh' = [refresh EXCEPT ![t] = S!NoRefresh]
        /\ UNCHANGED <<session, password, known, late, ended, lost>>
    BY <1>4 DEF S!AnswerRefresh
  <2>2. refresh[t].new \in Tokens
    BY <2>1 DEF SessionsIInv, RefreshRight
  <2>3. /\ StoreTypes' /\ store'[t] = refresh[t].new
        /\ \A x \in Tabs \ {t} : store'[x] = store[x]
    BY <1>t, <2>1, <2>2, StoreSteps
  <2>4. call' \in [Tabs -> CallRows]
    BY <1>t, <2>1, CallSteps
  <2> QED
    BY <2>1, <2>3, <2>4, RefreshEnds DEF StoreTypes
<1>5. ASSUME S!LoseRefresh(t)
      PROVE  SessionsIInv'
  <2>1. /\ S!GiveUp(t) /\ refresh' = [refresh EXCEPT ![t] = S!NoRefresh]
        /\ lost' = IF refresh[t].pc = "answer" THEN lost \cup {refresh[t].old} ELSE lost
        /\ UNCHANGED <<session, password, store, access, known, late, ended>>
    BY <1>5 DEF S!LoseRefresh
  <2>2. lost \subseteq lost' /\ (refresh[t].pc = "answer" => refresh[t].old \in lost')
    BY <2>1
  <2>3. call' \in [Tabs -> CallRows]
    BY <1>t, <2>1, CallSteps
  <2>4. StoreTypes' /\ store' = store
    BY <1>t, <2>1 DEF SessionTypes, StoreTypes
  <2> QED
    BY <2>1, <2>2, <2>3, <2>4, RefreshEnds DEF StoreTypes
<1> QED
  BY <1>1, <1>2, <1>3, <1>4, <1>5

\* The steps of a call of the user that create and end no session.
LEMMA QuietCalls ==
    ASSUME SessionsIInv, NEW t \in Tabs
    PROVE  /\ S!Login(t) => SessionsIInv'
           /\ \A kind \in S!Kinds : S!Call(t, kind) => SessionsIInv'
           /\ S!VerifyPassword(t) => SessionsIInv'
           /\ S!LoseCall(t) => SessionsIInv'
           /\ S!LoadFails(t) => SessionsIInv'
           /\ S!AccessExpires(t) => SessionsIInv'
<1>t. SessionTypes
  BY DEF SessionsIInv
<1>1. ASSUME S!Login(t)
      PROVE  SessionsIInv'
  <2> DEFINE r == [S!NoCall EXCEPT !.pc = "verified", !.kind = "login", !.pw = password]
  <2>1. r \in CallRows
    BY <1>t DEF SessionTypes, CallRows, S!NoCall, S!Kinds
  <2>2. /\ call' = [call EXCEPT ![t] = r]
        /\ UNCHANGED <<session, password, store, access, refresh, known, late, ended, lost>>
    BY <1>1 DEF S!Login
  <2> HIDE DEF r
  <2>3. SessionTypes'
    BY <1>t, <2>1, <2>2 DEF SessionTypes
  <2> QED
    BY <2>2, <2>3, CallStep
<1>2. ASSUME NEW kind \in S!Kinds, S!Call(t, kind)
      PROVE  SessionsIInv'
  <2>1. /\ store[t] # None /\ UNCHANGED <<session, password, store, access, known, late,
                                          ended, lost>>
        /\ refresh' = refresh \/ S!StartRefresh(t)
    BY <1>2 DEF S!Call
  <2>2. call' \in [Tabs -> CallRows]
    <3>1. PICK pc \in {"sent", "waiting"}, body \in {None, store[t]} :
            call' = [call EXCEPT ![t] = [S!NoCall EXCEPT !.pc = pc, !.kind = kind,
                                                         !.body = body]]
      BY <1>2 DEF S!Call
    <3>2. body \in Tokens \cup {None}
      BY <1>t DEF SessionTypes
    <3>3. [S!NoCall EXCEPT !.pc = pc, !.kind = kind, !.body = body] \in CallRows
      BY <3>2 DEF CallRows, S!NoCall
    <3> QED
      BY <1>t, <3>1, <3>3 DEF SessionTypes
  <2>3. CASE refresh' = refresh
    <3>1. SessionTypes'
      BY <1>t, <2>1, <2>2, <2>3 DEF SessionTypes
    <3> QED
      BY <2>1, <2>3, <3>1, CallStep
  <2>4. CASE S!StartRefresh(t)
    BY <2>1, <2>2, <2>4, StartKeeps
  <2> QED
    BY <2>1, <2>3, <2>4
<1>3. ASSUME S!VerifyPassword(t)
      PROVE  SessionsIInv'
  <2>1. /\ call' = [call EXCEPT ![t].pc = "verified"]
        /\ UNCHANGED <<session, password, store, access, refresh, known, late, ended, lost>>
    BY <1>3 DEF S!VerifyPassword
  <2>2. call' \in [Tabs -> CallRows]
    BY <1>t, <2>1 DEF SessionTypes, CallRows
  <2>3. SessionTypes'
    BY <1>t, <2>1, <2>2 DEF SessionTypes
  <2> QED
    BY <2>1, <2>3, CallStep
<1>4. ASSUME S!LoseCall(t)
      PROVE  SessionsIInv'
  <2>1. /\ call' = [call EXCEPT ![t] = S!NoCall]
        /\ UNCHANGED <<session, password, store, access, refresh, known, late, ended, lost>>
    BY <1>4 DEF S!LoseCall
  <2>2. call' \in [Tabs -> CallRows]
    BY <1>t, <2>1, CallSteps
  <2>3. SessionTypes'
    BY <1>t, <2>1, <2>2 DEF SessionTypes
  <2> QED
    BY <2>1, <2>3, CallStep
<1>5. ASSUME S!LoadFails(t)
      PROVE  SessionsIInv'
  <2>1. /\ S!Clear(t)
        /\ UNCHANGED <<session, password, refresh, call, known, late, ended, lost>>
    BY <1>5 DEF S!LoadFails
  <2>2. /\ StoreTypes' /\ store'[t] = None
        /\ \A x \in Tabs \ {t} : store'[x] = store[x]
    BY <1>t, <2>1, StoreSteps
  <2>3. SessionTypes'
    BY <1>t, <2>1, <2>2 DEF SessionTypes, StoreTypes
  <2> QED
    BY <2>1, <2>2, <2>3, CallStep
<1>6. ASSUME S!AccessExpires(t)
      PROVE  SessionsIInv'
  <2>1. /\ access[t] = "good" /\ access' = [access EXCEPT ![t] = "stale"]
        /\ UNCHANGED <<session, password, store, refresh, call, known, late, ended, lost>>
    BY <1>6 DEF S!AccessExpires
  <2>2. SessionTypes'
    BY <1>t, <2>1 DEF SessionTypes
  <2> QED
    BY <2>1, <2>2, CallStep
<1> QED
  BY <1>1, <1>2, <1>3, <1>4, <1>5, <1>6

\* Sessions end: the store of a tab may be emptied with them.
LEMMA EndKeeps ==
    ASSUME SessionsIInv, NEW t \in Tabs, NEW tokens, S!End(tokens),
           UNCHANGED <<known, late, lost, refresh>>,
           \/ password' = password
           \/ password' = password + 1 /\ Tokens \subseteq tokens,
           \A x \in Tabs \ {t} : store'[x] = store[x], store'[t] \in {store[t], None},
           StoreTypes', call' \in [Tabs -> CallRows]
    PROVE  SessionsIInv'
<1>t. SessionTypes
  BY DEF SessionsIInv
<1>1. /\ session' = [k \in Tokens |-> IF k \in tokens /\ session[k] = "live"
                                      THEN "revoked" ELSE session[k]]
      /\ ended' = ended \cup {k \in tokens : session[k] = "live"}
  BY DEF S!End, S!Live
<1>2. \A k \in Tokens : Good(k) => Good(k)'
  BY <1>1 DEF Good
<1>3. password' \in Nat /\ \A n \in Nat : n <= password => n <= password'
  BY <1>t DEF SessionTypes
<1>4. SessionTypes'
  BY <1>t, <1>1, <1>3 DEF SessionTypes, StoreTypes
<1>5. ASSUME NEW k \in Tokens
      PROVE  LiveKnows(k)'
  BY <1>1 DEF SessionsIInv, LiveKnows
<1>6. ASSUME NEW x \in Tabs
      PROVE  RefreshRight(x)' /\ Kept(x)'
  <2>1. RefreshRight(x) /\ Kept(x) /\ refresh[x] \in RefreshRows
    BY <1>t DEF SessionsIInv, SessionTypes
  <2>2. refresh[x].pw \in Nat
    BY <2>1 DEF RefreshRows
  <2>3. store'[x] \in {store[x], None} /\ store[x] \in Tokens \cup {None}
    BY <1>t DEF SessionTypes
  <2>4. RefreshRight(x)'
    <3>1. refresh[x].pw <= password'
      BY <1>3, <2>1, <2>2 DEF RefreshRight
    <3>2. refresh[x].pw = password' => password' = password
      <4>1. \A m, n \in Nat : m <= n => m # n + 1
        OBVIOUS
      <4> QED
        BY <1>t, <2>1, <2>2, <4>1 DEF SessionTypes, RefreshRight
    <3> QED
      BY <2>1, <3>1, <3>2 DEF RefreshRight
  <2>5. Kept(x)'
    <3>1. store'[x] # None => \/ Good(store[x])'
                              \/ refresh[x].pc = "answer" /\ refresh[x].old = store[x]
      BY <1>2, <2>1, <2>3 DEF Kept
    <3>2. refresh[x].pc = "sent" => Good(refresh[x].old)'
      BY <1>2, <2>1 DEF Kept, RefreshRight
    <3>3. refresh[x].pc \in {"replace", "answer"} => Good(refresh[x].new)'
      BY <1>2, <2>1 DEF Kept, RefreshRight
    <3> QED
      BY <2>3, <3>1, <3>2, <3>3 DEF Kept
  <2> QED
    BY <2>4, <2>5
<1>7. \A x \in Tabs, k \in Tokens : Owns(x, k)' => Owns(x, k)
  <2>1. \A x \in Tabs : store'[x] \in {store[x], None}
    OBVIOUS
  <2> QED
    BY <2>1, IdleRows DEF Owns
<1>8. \A x, y \in Tabs, k \in Tokens : Owns(x, k)' /\ Owns(y, k)' => x = y
  BY <1>7 DEF SessionsIInv
<1>9. \A x \in Tabs, k \in Tokens : Owns(x, k)' => session'[k] # "none"
  BY <1>1, <1>7 DEF SessionsIInv
<1> QED
  BY <1>4, <1>5, <1>6, <1>8, <1>9 DEF SessionsIInv

\* The three calls that end sessions.
LEMMA EndingCalls ==
    ASSUME SessionsIInv, NEW t \in Tabs
    PROVE  /\ S!ServeLogout(t) => SessionsIInv'
           /\ S!ChangePassword(t) => SessionsIInv'
           /\ S!RevokeOthers(t) => SessionsIInv'
<1>t. SessionTypes
  BY DEF SessionsIInv
<1>c. [call EXCEPT ![t] = S!NoCall] \in [Tabs -> CallRows]
  BY <1>t, CallSteps
<1>1. ASSUME S!ServeLogout(t)
      PROVE  SessionsIInv'
  <2>1. /\ S!End({call[t].body}) /\ S!Clear(t) /\ call' = [call EXCEPT ![t] = S!NoCall]
        /\ UNCHANGED <<password, refresh, known, late, lost>>
    BY <1>1 DEF S!ServeLogout
  <2>2. /\ StoreTypes' /\ store'[t] = None
        /\ \A x \in Tabs \ {t} : store'[x] = store[x]
    BY <1>t, <2>1, StoreSteps
  <2> QED
    BY <1>c, <2>1, <2>2, EndKeeps
<1>2. ASSUME S!ChangePassword(t)
      PROVE  SessionsIInv'
  <2>1. /\ S!End(Tokens) /\ S!Clear(t) /\ call' = [call EXCEPT ![t] = S!NoCall]
        /\ password' = password + 1 /\ UNCHANGED <<refresh, known, late, lost>>
    BY <1>2 DEF S!ChangePassword, S!EndAll
  <2>2. /\ StoreTypes' /\ store'[t] = None
        /\ \A x \in Tabs \ {t} : store'[x] = store[x]
    BY <1>t, <2>1, StoreSteps
  <2> QED
    BY <1>c, <2>1, <2>2, EndKeeps
<1>3. ASSUME S!RevokeOthers(t)
      PROVE  SessionsIInv'
  <2>1. /\ S!End(Tokens \ {call[t].body}) /\ call' = [call EXCEPT ![t] = S!NoCall]
        /\ UNCHANGED <<password, store, access, refresh, known, late, lost>>
    BY <1>3 DEF S!RevokeOthers
  <2>2. StoreTypes'
    BY <1>t, <2>1 DEF SessionTypes, StoreTypes
  <2> QED
    BY <1>c, <2>1, <2>2, EndKeeps
<1> QED
  BY <1>1, <1>2, <1>3

\* A session expires.
LEMMA ExpireKeeps ==
    ASSUME SessionsIInv, NEW k \in Tokens, S!Expire(k)
    PROVE  SessionsIInv'
<1>t. SessionTypes
  BY DEF SessionsIInv
<1>1. /\ session' = [session EXCEPT ![k] = "expired"] /\ session[k] = "live"
      /\ UNCHANGED <<password, store, access, refresh, call, known, late, ended, lost>>
  BY DEF S!Expire, S!Live
<1>2. /\ session'[k] = "expired" /\ \A x \in Tokens \ {k} : session'[x] = session[x]
      /\ session' \in [Tokens -> {"none", "live", "revoked", "expired"}]
  BY <1>t, <1>1 DEF SessionTypes
<1>3. SessionTypes'
  BY <1>t, <1>1, <1>2 DEF SessionTypes
<1>4. \A x \in Tokens : LiveKnows(x)'
  BY <1>1, <1>2 DEF SessionsIInv, LiveKnows
<1>5. \A x \in Tokens : Good(x) => Good(x)'
  BY <1>1, <1>2 DEF Good
<1>6. ASSUME NEW t \in Tabs
      PROVE  RefreshRight(t)' /\ Kept(t)'
  <2>1. RefreshRight(t) /\ Kept(t) /\ store[t] \in Tokens \cup {None}
    BY <1>t DEF SessionsIInv, SessionTypes
  <2>2. RefreshRight(t)'
    BY <1>1, <2>1 DEF RefreshRight
  <2>3. Kept(t)'
    BY <1>1, <1>5, <2>1 DEF Kept, RefreshRight
  <2> QED
    BY <2>2, <2>3
<1>7. \A t \in Tabs, x \in Tokens : Owns(t, x)' <=> Owns(t, x)
  BY <1>1 DEF Owns
<1>8. \A t, x \in Tabs, y \in Tokens : Owns(t, y)' /\ Owns(x, y)' => t = x
  BY <1>7 DEF SessionsIInv
<1>9. \A t \in Tabs, x \in Tokens : Owns(t, x)' => session'[x] # "none"
  BY <1>2, <1>7 DEF SessionsIInv
<1> QED
  BY <1>3, <1>4, <1>6, <1>8, <1>9 DEF SessionsIInv

\* A refresh replaces the token it was asked with.
LEMMA ReplaceKeeps ==
    ASSUME SessionsIInv, NEW t \in Tabs, S!ReplaceToken(t)
    PROVE  SessionsIInv'
<1>t. SessionTypes
  BY DEF SessionsIInv
<1> DEFINE old == refresh[t].old
<1> DEFINE r == [refresh[t] EXCEPT !.pc = "answer"]
<1>1. /\ refresh[t].pc = "replace" /\ session' = [session EXCEPT ![old] = "revoked"]
      /\ refresh' = [refresh EXCEPT ![t].pc = "answer"]
      /\ UNCHANGED <<password, store, access, call, known, late, ended, lost>>
  BY DEF S!ReplaceToken
<1>2. /\ old \in Tokens /\ refresh[t].new \in Tokens /\ refresh[t].new # old
      /\ RefreshRight(t) /\ Kept(t)
  BY <1>1 DEF SessionsIInv, RefreshRight
<1>3. refresh[t] \in RefreshRows
  BY <1>t DEF SessionTypes
<1>4. /\ r \in RefreshRows /\ r.pc = "answer" /\ r.old = refresh[t].old
      /\ r.new = refresh[t].new /\ r.pw = refresh[t].pw
  BY <1>3 DEF RefreshRows
<1>5. refresh' = [refresh EXCEPT ![t] = r]
  BY <1>t, <1>1 DEF SessionTypes
<1>6. PICK o : o = old
  OBVIOUS
<1>7. session' = [session EXCEPT ![o] = "revoked"] /\ o \in Tokens /\ Owns(t, o)
  BY <1>1, <1>2, <1>6 DEF Owns
<1> HIDE DEF r
<1>8. refresh'[t] = r /\ \A x \in Tabs \ {t} : refresh'[x] = refresh[x]
  BY <1>t, <1>5 DEF SessionTypes
<1>9. /\ session'[o] = "revoked" /\ \A x \in Tokens \ {o} : session'[x] = session[x]
      /\ session' \in [Tokens -> {"none", "live", "revoked", "expired"}]
  BY <1>t, <1>7 DEF SessionTypes
<1>10. SessionTypes'
  BY <1>t, <1>1, <1>4, <1>5, <1>9 DEF SessionTypes
<1>11. \A k \in Tokens : LiveKnows(k)'
  BY <1>1, <1>9 DEF SessionsIInv, LiveKnows
<1>12. \A k \in Tokens \ {o} : Good(k) => Good(k)'
  BY <1>1, <1>9 DEF Good
<1>13. RefreshRight(t)' /\ Kept(t)'
  <2>1. RefreshRight(t)'
    BY <1>1, <1>2, <1>4, <1>8 DEF RefreshRight
  <2>2. store[t] \in Tokens \cup {None}
    BY <1>t DEF SessionTypes
  <2>3. PICK n, s : n = refresh[t].new /\ s = store[t]
    OBVIOUS
  <2>4. Good(n)' /\ (s # None => (Good(s)' \/ s = o))
    BY <1>1, <1>2, <1>6, <1>12, <2>2, <2>3 DEF Kept
  <2> QED
    BY <1>1, <1>4, <1>6, <1>8, <2>1, <2>3, <2>4 DEF Kept
<1>14. ASSUME NEW x \in Tabs \ {t}
       PROVE  RefreshRight(x)' /\ Kept(x)'
  <2>1. /\ RefreshRight(x) /\ Kept(x) /\ store[x] \in Tokens \cup {None}
        /\ store'[x] = store[x] /\ refresh'[x] = refresh[x]
    BY <1>t, <1>1, <1>8 DEF SessionsIInv, SessionTypes
  <2>2. ~Owns(x, o)
    BY <1>7 DEF SessionsIInv
  <2>3. RefreshRight(x)'
    BY <1>1, <2>1 DEF RefreshRight
  <2>4. PICK a, b, c : a = store[x] /\ b = refresh[x].old /\ c = refresh[x].new
    OBVIOUS
  <2>5. /\ a # None => a \in Tokens \ {o}
        /\ refresh[x].pc = "sent" => b \in Tokens \ {o}
        /\ refresh[x].pc \in {"replace", "answer"} => c \in Tokens \ {o}
    BY <2>1, <2>2, <2>4 DEF Owns, RefreshRight
  <2>6. /\ a # None => (Good(a)' \/ (refresh[x].pc = "answer" /\ b = a))
        /\ refresh[x].pc = "sent" => Good(b)'
        /\ refresh[x].pc \in {"replace", "answer"} => Good(c)'
    BY <1>12, <2>1, <2>4, <2>5 DEF Kept
  <2> QED
    BY <2>1, <2>3, <2>4, <2>6 DEF Kept
<1>15. \A x \in Tabs, k \in Tokens : Owns(x, k)' => Owns(x, k)
  <2>1. \A k \in Tokens : Owns(t, k)' => Owns(t, k)
    BY <1>1, <1>4, <1>8 DEF Owns
  <2>2. \A x \in Tabs \ {t}, k \in Tokens : Owns(x, k)' => Owns(x, k)
    BY <1>1, <1>8 DEF Owns
  <2> QED
    BY <2>1, <2>2
<1>16. \A x, y \in Tabs, k \in Tokens : Owns(x, k)' /\ Owns(y, k)' => x = y
  BY <1>15 DEF SessionsIInv
<1>17. \A x \in Tabs, k \in Tokens : Owns(x, k)' => session'[k] # "none"
  BY <1>9, <1>15 DEF SessionsIInv
<1> QED
  BY <1>10, <1>11, <1>13, <1>14, <1>16, <1>17 DEF SessionsIInv

\* What the creation of a session makes of its variables.
LEMMA CreatedRow ==
    ASSUME SessionTypes, NEW k \in Tokens, NEW pw \in Nat, NEW overtaken,
           S!Create(k, pw, overtaken)
    PROVE  /\ session[k] = "none" /\ session'[k] = "live" /\ known'[k] = pw
           /\ \A x \in Tokens \ {k} : session'[x] = session[x] /\ known'[x] = known[x]
           /\ session' \in [Tokens -> {"none", "live", "revoked", "expired"}]
           /\ known' \in [Tokens -> Nat]
           /\ late \subseteq late' /\ (overtaken => k \in late')
BY DEF SessionTypes, S!Create

\* A session is created for a tab, with the password or as an overtaken one.
LEMMA CreateKeeps ==
    ASSUME SessionsIInv, NEW t \in Tabs, NEW k \in Tokens, NEW pw \in Nat, NEW overtaken,
           S!Create(k, pw, overtaken), UNCHANGED <<password, ended, lost>>,
           \A x \in Tabs \ {t} : store'[x] = store[x] /\ refresh'[x] = refresh[x],
           ~overtaken => pw = password, SessionTypes', RefreshRight(t)', Kept(t)',
           \A x \in Tokens : Owns(t, x)' => Owns(t, x) \/ x = k
    PROVE  SessionsIInv'
<1>t. SessionTypes
  BY DEF SessionsIInv
<1>1. /\ session[k] = "none" /\ session'[k] = "live" /\ known'[k] = pw
      /\ \A x \in Tokens \ {k} : session'[x] = session[x] /\ known'[x] = known[x]
      /\ late \subseteq late' /\ (overtaken => k \in late')
  BY <1>t, CreatedRow
<1>2. \A x \in Tabs : ~Owns(x, k)
  BY <1>1 DEF SessionsIInv
<1>3. \A x \in Tokens : LiveKnows(x)'
  <2>1. LiveKnows(k)'
    BY <1>1 DEF LiveKnows
  <2>2. \A x \in Tokens \ {k} : LiveKnows(x)'
    BY <1>1 DEF SessionsIInv, LiveKnows
  <2> QED
    BY <2>1, <2>2
<1>4. \A x \in Tokens : Good(x) => Good(x)'
  BY <1>1 DEF Good
<1>5. ASSUME NEW x \in Tabs \ {t}
      PROVE  RefreshRight(x)' /\ Kept(x)' /\ \A y \in Tokens : Owns(x, y)' <=> Owns(x, y)
  <2>1. /\ RefreshRight(x) /\ Kept(x) /\ store[x] \in Tokens \cup {None}
        /\ store'[x] = store[x] /\ refresh'[x] = refresh[x]
    BY <1>t DEF SessionsIInv, SessionTypes
  <2>2. RefreshRight(x)'
    <3>1. refresh[x].pc # "idle" => refresh[x].old \in Tokens \ {k}
      BY <1>2, <2>1 DEF Owns, RefreshRight
    <3> QED
      BY <1>1, <2>1, <3>1 DEF RefreshRight
  <2>3. Kept(x)'
    BY <1>4, <2>1 DEF Kept, RefreshRight
  <2>4. \A y \in Tokens : Owns(x, y)' <=> Owns(x, y)
    BY <2>1 DEF Owns
  <2> QED
    BY <2>2, <2>3, <2>4
<1>6. \A x, y \in Tabs, z \in Tokens : Owns(x, z)' /\ Owns(y, z)' => x = y
  <2> SUFFICES ASSUME NEW x \in Tabs, NEW y \in Tabs, NEW z \in Tokens,
                      Owns(x, z)', Owns(y, z)'
               PROVE  x = y
    OBVIOUS
  <2>1. CASE z = k
    BY <1>2, <1>5, <2>1
  <2>2. CASE z # k
    BY <1>5, <2>2 DEF SessionsIInv
  <2> QED
    BY <2>1, <2>2
<1>7. \A x \in Tabs, y \in Tokens : Owns(x, y)' => session'[y] # "none"
  <2> SUFFICES ASSUME NEW x \in Tabs, NEW y \in Tokens, Owns(x, y)'
               PROVE  session'[y] # "none"
    OBVIOUS
  <2>1. Owns(x, y) \/ y = k
    BY <1>5
  <2> QED
    BY <1>1, <2>1 DEF SessionsIInv
<1> QED
  BY <1>3, <1>5, <1>6, <1>7 DEF SessionsIInv

\* The two ways a session is created.
LEMMA CreatingSteps ==
    ASSUME SessionsIInv, NEW t \in Tabs, NEW k \in Tokens
    PROVE  /\ S!CreateToken(t, k) => SessionsIInv'
           /\ S!FinishLogin(t, k) => SessionsIInv'
<1>t. SessionTypes
  BY DEF SessionsIInv
<1>r. RefreshRight(t) /\ Kept(t) /\ refresh[t] \in RefreshRows /\ call[t] \in CallRows
  BY <1>t DEF SessionsIInv, SessionTypes
<1>1. ASSUME S!CreateToken(t, k)
      PROVE  SessionsIInv'
  <2> DEFINE r == [refresh[t] EXCEPT !.pc = "replace", !.new = k]
  <2>1. PICK pw, over : /\ pw = known[refresh[t].old]
                        /\ over = (refresh[t].pw # password \/ refresh[t].old \in late)
                        /\ S!Create(k, pw, over)
    BY <1>1 DEF S!CreateToken
  <2>2. /\ refresh[t].pc = "create" /\ refresh' = [refresh EXCEPT ![t] = r]
        /\ UNCHANGED <<password, store, access, call, ended, lost>>
    BY <1>t, <1>1 DEF S!CreateToken, SessionTypes
  <2>3. /\ r \in RefreshRows /\ r.pc = "replace" /\ r.new = k
        /\ r.old = refresh[t].old /\ r.pw = refresh[t].pw
    BY <1>r DEF RefreshRows
  <2> HIDE DEF r
  <2>4. refresh[t].old \in Tokens /\ pw \in Nat /\ Owns(t, refresh[t].old)
    BY <1>t, <1>r, <2>1, <2>2 DEF RefreshRight, SessionTypes, Owns
  <2>5. /\ session[k] = "none" /\ session'[k] = "live"
        /\ session' \in [Tokens -> {"none", "live", "revoked", "expired"}]
        /\ \A x \in Tokens \ {k} : session'[x] = session[x]
        /\ known' \in [Tokens -> Nat] /\ late \subseteq late'
    BY <1>t, <2>1, <2>4, CreatedRow
  <2>6. refresh'[t] = r /\ \A x \in Tabs \ {t} : refresh'[x] = refresh[x]
    BY <1>t, <2>2 DEF SessionTypes
  <2>7. SessionTypes'
    BY <1>t, <2>2, <2>3, <2>5 DEF SessionTypes
  <2>8. RefreshRight(t)'
    <3>1. k # refresh[t].old
      BY <2>4, <2>5 DEF SessionsIInv
    <3> QED
      BY <1>r, <2>2, <2>3, <2>4, <2>6, <3>1 DEF RefreshRight
  <2>9. Kept(t)'
    <3>1. PICK s : s = store[t]
      OBVIOUS
    <3>2. s # None => Good(s)'
      <4>1. s # None => s \in Tokens /\ Good(s)
        BY <1>t, <1>r, <2>2, <3>1 DEF Kept, SessionTypes
      <4> QED
        BY <2>2, <2>5, <4>1 DEF Good
    <3>3. Good(k)'
      BY <2>5 DEF Good
    <3> QED
      BY <2>2, <2>3, <2>6, <3>1, <3>2, <3>3 DEF Kept
  <2>10. \A x \in Tokens : Owns(t, x)' => Owns(t, x) \/ x = k
    BY <2>2, <2>3, <2>6 DEF Owns
  <2>11. ~over => pw = password
    BY <1>r, <2>1, <2>2 DEF RefreshRight
  <2> QED
    BY <2>1, <2>2, <2>4, <2>6, <2>7, <2>8, <2>9, <2>10, <2>11, CreateKeeps
<1>2. ASSUME S!FinishLogin(t, k)
      PROVE  SessionsIInv'
  <2>1. PICK pw, over : /\ pw = call[t].pw /\ over = (call[t].pw # password)
                        /\ S!Create(k, pw, over)
    BY <1>2 DEF S!FinishLogin
  <2>2. /\ S!SetTokens(t, k) /\ call' = [call EXCEPT ![t] = S!NoCall]
        /\ UNCHANGED <<password, refresh, ended, lost>>
    BY <1>2 DEF S!FinishLogin
  <2>3. pw \in Nat
    BY <1>r, <2>1 DEF CallRows
  <2>4. /\ session[k] = "none" /\ session'[k] = "live"
        /\ session' \in [Tokens -> {"none", "live", "revoked", "expired"}]
        /\ \A x \in Tokens \ {k} : session'[x] = session[x] /\ known'[x] = known[x]
        /\ known' \in [Tokens -> Nat] /\ late \subseteq late'
    BY <1>t, <2>1, <2>3, CreatedRow
  <2>5. /\ StoreTypes' /\ store'[t] = k
        /\ \A x \in Tabs \ {t} : store'[x] = store[x]
    BY <1>t, <2>2, StoreSteps
  <2>6. SessionTypes'
    <3>1. call' \in [Tabs -> CallRows]
      BY <1>t, <2>2, CallSteps
    <3> QED
      BY <1>t, <2>2, <2>4, <2>5, <3>1 DEF SessionTypes, StoreTypes
  <2>7. PICK o, n : o = refresh[t].old /\ n = refresh[t].new
    OBVIOUS
  <2>8. ~Owns(t, k)
    BY <2>4 DEF SessionsIInv
  <2>9. RefreshRight(t)'
    <3>1. refresh[t].pc # "idle" => o \in Tokens \ {k}
      BY <1>r, <2>7, <2>8 DEF RefreshRight, Owns
    <3> QED
      BY <1>r, <2>2, <2>4, <2>7, <3>1 DEF RefreshRight
  <2>10. Kept(t)'
    <3>1. \A x \in Tokens : Good(x) => Good(x)'
      BY <2>2, <2>4 DEF Good
    <3>2. Good(k)'
      BY <2>4 DEF Good
    <3>3. /\ refresh[t].pc = "sent" => Good(o)'
          /\ refresh[t].pc \in {"replace", "answer"} => Good(n)'
      BY <1>r, <2>7, <3>1 DEF Kept, RefreshRight
    <3> QED
      BY <2>2, <2>5, <2>7, <3>2, <3>3 DEF Kept
  <2>11. \A x \in Tokens : Owns(t, x)' => Owns(t, x) \/ x = k
    BY <2>2, <2>5 DEF Owns
  <2>12. ~over => pw = password
    BY <2>1
  <2> QED
    BY <2>1, <2>2, <2>3, <2>5, <2>6, <2>9, <2>10, <2>11, <2>12, CreateKeeps
<1> QED
  BY <1>1, <1>2

LEMMA SessionsStep == SessionsIInv /\ S!Next => SessionsIInv'
<1> SUFFICES ASSUME SessionsIInv, S!Next PROVE SessionsIInv'
  OBVIOUS
<1>1. ASSUME NEW t \in Tabs, S!Refresh(t)
      PROVE  SessionsIInv'
  BY <1>1, RefreshSteps, CreatingSteps, ReplaceKeeps DEF S!Refresh
<1>2. ASSUME NEW t \in Tabs, S!UserCall(t)
      PROVE  SessionsIInv'
  BY <1>2, QuietCalls, CreatingSteps, EndingCalls DEF S!UserCall
<1>3. ASSUME NEW t \in Tabs, S!AccessExpires(t)
      PROVE  SessionsIInv'
  BY <1>3, QuietCalls
<1>4. ASSUME NEW k \in Tokens, S!Expire(k)
      PROVE  SessionsIInv'
  BY <1>4, ExpireKeeps
<1> QED
  BY <1>1, <1>2, <1>3, <1>4 DEF S!Next

LEMMA SessionsStutters ==
    ASSUME SessionsIInv, UNCHANGED sessionVars
    PROVE  SessionsIInv'
<1>1. UNCHANGED <<session, password, store, access, refresh, call, known, late, ended, lost>>
  BY DEF sessionVars
<1>2. SessionTypes'
  BY <1>1 DEF SessionsIInv, SessionTypes
<1>3. \A k \in Tokens : LiveKnows(k)'
  BY <1>1 DEF SessionsIInv, LiveKnows
<1>4. \A t \in Tabs : RefreshRight(t)' /\ Kept(t)'
  BY <1>1 DEF SessionsIInv, RefreshRight, Kept, Good
<1>5. \A t \in Tabs, k \in Tokens : Owns(t, k)' <=> Owns(t, k)
  BY <1>1 DEF Owns
<1>6. \A t, x \in Tabs, k \in Tokens : Owns(t, k)' /\ Owns(x, k)' => t = x
  BY <1>5 DEF SessionsIInv
<1>7. \A t \in Tabs, k \in Tokens : Owns(t, k)' => session'[k] # "none"
  BY <1>1, <1>5 DEF SessionsIInv
<1> QED
  BY <1>2, <1>3, <1>4, <1>6, <1>7 DEF SessionsIInv

\* The sessions of an administrator: a token is stored, sent or issued in one tab
\* only, and what a tab holds is live unless it expired, was ended, or was replaced.
THEOREM SessionsInvariance == Spec => [](part = "sessions" => SessionsIInv)
<1>1. Init => (part = "sessions" => SessionsIInv)
  BY SessionsFirst DEF Init
<1>2. ASSUME part = "sessions" => SessionsIInv, [Next]_allVars
      PROVE  (part = "sessions" => SessionsIInv)'
  <2>1. CASE Next
    <3>1. part' = part
      BY <2>1 DEF Next
    <3>2. ASSUME part = "sessions"
          PROVE  SessionsIInv'
      <4>1. S!Next
        BY <2>1, <3>2 DEF Next
      <4> QED
        BY <1>2, <3>2, <4>1, SessionsStep
    <3> QED
      BY <3>1, <3>2
  <2>2. CASE UNCHANGED allVars
    <3>1. part' = part /\ UNCHANGED sessionVars
      BY <2>2 DEF allVars
    <3> QED
      BY <1>2, <3>1, SessionsStutters
  <2> QED
    BY <1>2, <2>1, <2>2
<1> QED
  BY <1>1, <1>2, PTL DEF Spec

\* After the password is changed, every live session belongs to somebody who entered
\* the new one, but for those of a request that the change overtook.
THEOREM PasswordChangeEndsSessions == Spec => []PasswordChangeEndsAll
<1>1. (part = "sessions" => SessionsIInv) => PasswordChangeEndsAll
  BY DEF PasswordChangeEndsAll, SessionsIInv, LiveKnows, S!PasswordChangeEndsAll, S!Live
<1> QED
  BY <1>1, SessionsInvariance, PTL

\* The steps that may empty a store.
Empties(t) == \/ S!RefuseToken(t) \/ S!FailRefresh(t) \/ S!ServeLogout(t)
              \/ S!ChangePassword(t) \/ S!LoadFails(t)

LEMMA OthersKeepStore ==
    ASSUME SessionsIInv, S!Next, \A t \in Tabs : ~Empties(t)
    PROVE  \A t \in Tabs : store'[t] \in {store[t]} \cup Tokens
<1>t. SessionTypes
  BY DEF SessionsIInv
<1>1. ASSUME NEW t \in Tabs, NEW k \in Tokens, S!SetTokens(t, k)
      PROVE  \A x \in Tabs : store'[x] \in {store[x]} \cup Tokens
  BY <1>t, <1>1, StoreSteps
<1>2. ASSUME NEW t \in Tabs, S!Refresh(t)
      PROVE  \A x \in Tabs : store'[x] \in {store[x]} \cup Tokens
  <2>1. ASSUME S!AnswerRefresh(t)
        PROVE  \E k \in Tokens : S!SetTokens(t, k)
    BY <2>1 DEF S!AnswerRefresh, SessionsIInv, RefreshRight
  <2>2. ASSUME store' # store
        PROVE  S!AnswerRefresh(t)
    BY <1>2, <2>2 DEF S!Refresh, S!Poll, S!ReadToken, S!CreateToken, S!ReplaceToken,
                      S!LoseRefresh, Empties
  <2> QED
    BY <1>1, <2>1, <2>2
<1>3. ASSUME NEW t \in Tabs, S!UserCall(t)
      PROVE  \A x \in Tabs : store'[x] \in {store[x]} \cup Tokens
  <2>1. ASSUME store' # store
        PROVE  \E k \in Tokens : S!FinishLogin(t, k)
    BY <1>3, <2>1 DEF S!UserCall, S!Login, S!Call, S!VerifyPassword, S!RevokeOthers,
                      S!LoseCall, Empties
  <2> QED
    BY <1>1, <2>1 DEF S!FinishLogin
<1>4. ASSUME NEW t \in Tabs, S!AccessExpires(t)
      PROVE  store' = store
  BY <1>4 DEF S!AccessExpires
<1>5. ASSUME NEW k \in Tokens, S!Expire(k)
      PROVE  store' = store
  BY <1>5 DEF S!Expire
<1> QED
  BY <1>2, <1>3, <1>4, <1>5 DEF S!Next

\* The tabs of the panel do not log each other out (refreshAccessToken, clear): a
\* store that its user did not ask to empty is emptied only because the token it sent
\* had ended, expired or been replaced unheard, because the API answered the refresh of
\* a token it takes with an error, or because a page cannot load.
THEOREM TabsKeepTheirSessions == Spec => SessionsAreNotDropped
<1>1. ASSUME SessionsIInv, S!Next
      PROVE  S!DropsSessionForReason
  <2> SUFFICES ASSUME NEW t \in Tabs, store[t] # None, store'[t] = None
               PROVE  \/ /\ call[t].kind \in {"logout", "changePassword"}
                         /\ call'[t] = S!NoCall
                      \/ refresh[t].old \in ended \cup lost
                      \/ refresh[t] # S!NoRefresh /\ session[refresh[t].old] = "expired"
                      \/ S!Accepted(t)
                      \/ refresh[t] = S!NoRefresh /\ call[t] = S!NoCall
    BY DEF S!DropsSessionForReason
  <2>t. SessionTypes
    BY <1>1 DEF SessionsIInv
  <2>1. PICK x \in Tabs : Empties(x)
    BY <1>1, OthersKeepStore, IdleRows
  <2>2. S!Clear(x)
    BY <2>1 DEF Empties, S!RefuseToken, S!FailRefresh, S!ServeLogout, S!ChangePassword, S!LoadFails
  <2>3. x = t
    BY <2>t, <2>2, StoreSteps
  <2>4. CASE S!RefuseToken(t)
    <3>1. refresh[t].pc = "sent" /\ session[refresh[t].old] # "live"
      BY <2>4 DEF S!RefuseToken, S!Refreshable, S!Live
    <3>2. refresh[t] # S!NoRefresh
      BY <3>1, IdleRows
    <3>3. Good(refresh[t].old)
      BY <1>1, <3>1 DEF SessionsIInv, Kept
    <3> QED
      BY <3>1, <3>2, <3>3 DEF Good
  <2>5. CASE S!ServeLogout(t)
    BY <2>t, <2>5 DEF S!ServeLogout, S!Serves, SessionTypes
  <2>6. CASE S!ChangePassword(t)
    BY <2>t, <2>6 DEF S!ChangePassword, SessionTypes
  <2>7. CASE S!LoadFails(t)
    BY <2>7 DEF S!LoadFails
  <2>8. CASE S!FailRefresh(t)
    BY <2>8 DEF S!FailRefresh
  <2> QED
    BY <2>1, <2>3, <2>4, <2>5, <2>6, <2>7, <2>8 DEF Empties
<1>2. (part = "sessions" => SessionsIInv) /\ [Next]_allVars
        => [DropsSessionForReason]_allVars
  <2>1. (part = "sessions" => SessionsIInv) /\ Next => DropsSessionForReason
    BY <1>1 DEF Next, DropsSessionForReason
  <2> QED
    BY <2>1
<1> QED
  BY <1>2, SessionsInvariance, PTL DEF Spec, SessionsAreNotDropped
=============================================================================
