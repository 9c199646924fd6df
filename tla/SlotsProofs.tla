---------------------------- MODULE SlotsProofs ----------------------------
(***************************************************************************)
(* The device slots of a license, for every limit and every number of      *)
(* devices, accounts, challenges and requests: types, the limit, and who   *)
(* may take a slot from whom.  Then what is said about licenses: the keys  *)
(* of orders, the licenses made by hand, and the screens of the bot.       *)
(***************************************************************************)
EXTENDS MCSlots, FiniteSetTheorems, TLAPS

\* What a request carries from its reads to its writes.
Carries(w) ==
    /\ req[w].pc # "idle" => req[w].dev \in Devices
    /\ req[w].pc \in {"prepare", "challenge", "held", "cooldown", "replace"}
         => req[w].old \in Devices
    /\ req[w].pc \in {"assert", "recover", "held", "cooldown", "replace"}
         => req[w].acct \in Accounts

ChallengeNamesDevices ==
    \A t \in Tokens : challenge[t].state # "none" =>
        challenge[t].new \in Devices /\ challenge[t].old \in Devices

\* A request that confirms a challenge has found its row.
TokensCreated ==
    \A w \in Workers : req[w].token \in Tokens =>
        challenge[req[w].token].state # "none"

IInv ==
    /\ TypeOK
    /\ \A w \in Workers : Carries(w)
    /\ ChallengeNamesDevices
    /\ TokensCreated
    /\ LimitUnlessMissed

-----------------------------------------------------------------------------
\* A request's record keeps its type, whichever way a step changes it.
LEMMA RequestTypes ==
    ASSUME req \in [Workers -> Requests], NEW w \in Workers
    PROVE  /\ Finish(w) => req' \in [Workers -> Requests]
           /\ \A s \in Stages : Goto(w, s) => req' \in [Workers -> Requests]
           /\ \A s \in Stages, d \in Devices, old \in Devices \cup {None},
                 a \in Accounts \cup {None}, t \in Tokens \cup {None} :
                 Begun(s, d, old, a, t) \in Requests
<1>1. Idle \in Requests
  BY DEF Idle, Begun, Requests, Stages
<1>2. ASSUME NEW s \in Stages, Goto(w, s)
      PROVE  req' \in [Workers -> Requests]
  BY <1>2 DEF Goto, Requests
<1>3. ASSUME NEW s \in Stages, NEW d \in Devices, NEW old \in Devices \cup {None},
             NEW a \in Accounts \cup {None}, NEW t \in Tokens \cup {None}
      PROVE  Begun(s, d, old, a, t) \in Requests
  BY DEF Begun, Requests
<1> QED
  BY <1>1, <1>2, <1>3 DEF Finish

\* What a request carries is there from its first call on.
LEMMA CarriesStep ==
    ASSUME IInv, NEW w \in Workers,
           \/ \E s \in Stages, d \in Devices, old \in Devices \cup {None},
                 a \in Accounts \cup {None}, t \in Tokens \cup {None} :
                /\ req' = [req EXCEPT ![w] = Begun(s, d, old, a, t)]
                /\ s \in {"prepare", "challenge", "held", "cooldown", "replace"}
                     => old \in Devices
                /\ s \in {"assert", "recover", "held", "cooldown", "replace"}
                     => a \in Accounts
           \/ Finish(w)
           \/ At(w, "assert") /\ Goto(w, "recover")
           \/ At(w, "prepare") /\ Goto(w, "challenge")
           \/ At(w, "held") /\ Goto(w, "cooldown")
           \/ At(w, "cooldown") /\ Goto(w, "replace")
           \/ At(w, "find") /\ Goto(w, "disconnect")
    PROVE  /\ req' \in [Workers -> Requests]
           /\ \A v \in Workers : Carries(v)'
<1>t. req \in [Workers -> Requests] /\ \A v \in Workers : Carries(v)
  BY DEF IInv, TypeOK
<1>1. CASE \E s \in Stages, d \in Devices, old \in Devices \cup {None},
              a \in Accounts \cup {None}, t \in Tokens \cup {None} :
                /\ req' = [req EXCEPT ![w] = Begun(s, d, old, a, t)]
                /\ s \in {"prepare", "challenge", "held", "cooldown", "replace"}
                     => old \in Devices
                /\ s \in {"assert", "recover", "held", "cooldown", "replace"}
                     => a \in Accounts
  <2>1. PICK s \in Stages, d \in Devices, old \in Devices \cup {None},
             a \in Accounts \cup {None}, t \in Tokens \cup {None} :
                /\ req' = [req EXCEPT ![w] = Begun(s, d, old, a, t)]
                /\ s \in {"prepare", "challenge", "held", "cooldown", "replace"}
                     => old \in Devices
                /\ s \in {"assert", "recover", "held", "cooldown", "replace"}
                     => a \in Accounts
    BY <1>1
  <2>2. Begun(s, d, old, a, t) \in Requests
    BY <1>t, RequestTypes
  <2>3. \A v \in Workers : Carries(v)'
    BY <1>t, <2>1 DEF Carries, Begun
  <2> QED
    BY <1>t, <2>1, <2>2, <2>3
<1>2. CASE Finish(w)
  BY <1>2, <1>t, RequestTypes DEF Carries, Finish, Idle, Begun
<1>3. CASE \/ At(w, "assert") /\ Goto(w, "recover")
           \/ At(w, "prepare") /\ Goto(w, "challenge")
           \/ At(w, "held") /\ Goto(w, "cooldown")
           \/ At(w, "cooldown") /\ Goto(w, "replace")
           \/ At(w, "find") /\ Goto(w, "disconnect")
  <2>1. PICK s \in Stages : Goto(w, s) /\ req[w].pc # "idle"
    BY <1>3 DEF At, Stages
  <2>2. req' \in [Workers -> Requests]
    BY <1>t, <2>1, RequestTypes
  <2>3. \A v \in Workers : Carries(v)'
    BY <1>3, <1>t DEF Carries, At, Goto, Requests
  <2> QED
    BY <2>2, <2>3
<1> QED
  BY <1>1, <1>2, <1>3

-----------------------------------------------------------------------------
\* The steps that do not touch the slots.
LEMMA Sizes ==
    ASSUME IInv
    PROVE  /\ IsFiniteSet(Active)
           /\ Cardinality(Active) \in Nat
           /\ MaxDevices \in Nat
<1>1. Active \in SUBSET Devices
  BY DEF Active
<1> QED
  BY <1>1, SlotsAssumption, FS_Subset, FS_CardinalityType

\* An element more or less changes the size of a finite set by one at most.
LEMMA AddOne ==
    ASSUME NEW S, NEW x, IsFiniteSet(S)
    PROVE  Cardinality(S \cup {x}) <= Cardinality(S) + 1
<1>1. Cardinality(S) \in Nat
  BY FS_CardinalityType
<1>2. Cardinality(S \cup {x}) =
        IF x \in S THEN Cardinality(S) ELSE Cardinality(S) + 1
  BY FS_AddElement
<1> QED
  BY <1>1, <1>2

\* One device gains a slot where there is a free one.
LEMMA GainStep ==
    ASSUME IInv, NEW d \in Devices, ~NoFreeSlot,
           slot' = [slot EXCEPT ![d] = "active"]
    PROVE  Cardinality(Active') <= MaxDevices
<1>1. Active' = Active \cup {d}
  BY DEF Active, IInv, TypeOK
<1>2. Cardinality(Active \cup {d}) <= Cardinality(Active) + 1
  BY Sizes, AddOne
<1>3. Cardinality(Active \cup {d}) \in Nat
  BY Sizes, FS_AddElement, FS_CardinalityType
<1>4. ~(Cardinality(Active) >= MaxDevices)
  BY DEF NoFreeSlot
<1>5. Cardinality(Active \cup {d}) <= MaxDevices
  BY <1>2, <1>3, <1>4, Sizes
<1> QED
  BY <1>1, <1>5

\* A device that loses its slot makes the set smaller.
LEMMA LoseStep ==
    ASSUME IInv, NEW d \in Devices, slot' = [slot EXCEPT ![d] = "revoked"]
    PROVE  Cardinality(Active') <= Cardinality(Active)
<1>1. Active' \in SUBSET Active
  BY DEF Active, IInv, TypeOK
<1> QED
  BY <1>1, Sizes, FS_Subset

\* A replacement keeps the limit, unless there is no free slot and the old
\* device has none to give.
LEMMA SwapStep ==
    ASSUME IInv, NEW d \in Devices, NEW old \in Devices, Swap(d, old),
           d \notin Active, Cardinality(Active) <= MaxDevices,
           ~(NoFreeSlot /\ slot[old] # "active")
    PROVE  Cardinality(Active') <= MaxDevices
<1>t. slot \in [Devices -> SlotStates]
  BY DEF IInv, TypeOK
<1>1. CASE ~NoFreeSlot
  <2>1. slot' = [slot EXCEPT ![d] = "active"]
    BY <1>1, <1>t DEF Swap
  <2> QED
    BY <1>1, <2>1, GainStep
<1>2. CASE NoFreeSlot
  <2>1. old \in Active
    BY <1>2 DEF Active
  <2>2. slot' = [x \in Devices |->
                   IF x = d THEN "active"
                   ELSE IF x = old /\ slot[x] = "active" THEN "revoked"
                   ELSE slot[x]]
    BY <1>2 DEF Swap
  <2>3. Active' = (Active \ {old}) \cup {d}
    BY <2>1, <2>2 DEF Active
  <2>4. IsFiniteSet(Active \ {old})
    BY Sizes, FS_RemoveElement
  <2>5. Cardinality(Active \ {old}) = Cardinality(Active) - 1
    BY <2>1, Sizes, FS_RemoveElement
  <2>6. Cardinality((Active \ {old}) \cup {d}) <= Cardinality(Active \ {old}) + 1
    BY <2>4, AddOne
  <2>7. Cardinality((Active \ {old}) \cup {d}) \in Nat
    BY <2>4, FS_AddElement, FS_CardinalityType
  <2>8. Cardinality((Active \ {old}) \cup {d}) <= MaxDevices
    BY <2>5, <2>6, <2>7, Sizes
  <2> QED
    BY <2>3, <2>8
<1> QED
  BY <1>1, <1>2

-----------------------------------------------------------------------------
\* Which steps change the slots, and which the challenges.
LEMMA SlotSteps ==
    ASSUME [Next]_vars
    PROVE  \/ UNCHANGED <<slot, missed>>
           \/ \E w \in Workers : ActivateByKey(w) \/ RecoverSlot(w)
                                   \/ ReplaceDevice(w) \/ Disconnect(w)
           \/ \E d \in Devices : ClearDevice(d)
<1>1. ASSUME NEW w \in Workers, Begin(w)
      PROVE  UNCHANGED <<slot, missed>>
  BY <1>1 DEF Begin, ReadByKey, PrepareChallenge, BeginRecover, LoadChallenge,
       BeginGrantReplacement, BeginDisconnect, ledger
<1>2. ASSUME NEW w \in Workers, Continue(w)
      PROVE  \/ UNCHANGED <<slot, missed>>
             \/ ActivateByKey(w) \/ RecoverSlot(w)
             \/ ReplaceDevice(w) \/ Disconnect(w)
  BY <1>2 DEF Continue, RefuseKey, ReadForRecovery, RefuseRecovery,
       CreateChallenge, CheckHolder, CheckCooldown, RefuseReplacement, FindSlot,
       ledger
<1>3. CASE \E w \in Workers : Crash(w)
  BY <1>3 DEF Crash, ledger
<1>4. CASE RevokeLicense \/ LicenseExpires \/ DayPasses
             \/ (\E a \in Accounts \cup {None} : ChangeHolder(a))
             \/ (\E t \in Tokens : ChallengeExpires(t)) \/ UNCHANGED vars
  BY <1>4 DEF RevokeLicense, LicenseExpires, DayPasses, ChangeHolder,
       ChallengeExpires, ledger, vars
<1> QED
  BY <1>1, <1>2, <1>3, <1>4 DEF Next

LEMMA ChallengeSteps ==
    ASSUME [Next]_vars
    PROVE  \/ UNCHANGED challenge
           \/ \E w \in Workers : CreateChallenge(w) \/ ReplaceDevice(w)
           \/ \E t \in Tokens : ChallengeExpires(t)
<1>1. ASSUME NEW w \in Workers, Begin(w)
      PROVE  UNCHANGED challenge
  BY <1>1 DEF Begin, ReadByKey, PrepareChallenge, BeginRecover, LoadChallenge,
       BeginGrantReplacement, BeginDisconnect
<1>2. ASSUME NEW w \in Workers, Continue(w)
      PROVE  UNCHANGED challenge \/ CreateChallenge(w) \/ ReplaceDevice(w)
  BY <1>2 DEF Continue, ActivateByKey, RefuseKey, ReadForRecovery, RecoverSlot,
       RefuseRecovery, CheckHolder, CheckCooldown, RefuseReplacement, FindSlot,
       Disconnect
<1>3. CASE \E w \in Workers : Crash(w)
  BY <1>3 DEF Crash
<1>4. CASE RevokeLicense \/ LicenseExpires \/ DayPasses
             \/ (\E a \in Accounts \cup {None} : ChangeHolder(a))
             \/ (\E d \in Devices : ClearDevice(d)) \/ UNCHANGED vars
  BY <1>4 DEF RevokeLicense, LicenseExpires, DayPasses, ChangeHolder,
       ClearDevice, vars
<1> QED
  BY <1>1, <1>2, <1>3, <1>4 DEF Next

-----------------------------------------------------------------------------
\* The requests: every step gives one a record of the right type.
LEMMA RequestsStep ==
    ASSUME IInv, [Next]_vars
    PROVE  req' \in [Workers -> Requests] /\ \A v \in Workers : Carries(v)'
<1>t. TypeOK /\ ChallengeNamesDevices /\ \A v \in Workers : Carries(v)
  BY DEF IInv
<1>1. ASSUME NEW w \in Workers, Begin(w)
      PROVE  \E s \in Stages, d \in Devices, old \in Devices \cup {None},
                a \in Accounts \cup {None}, t \in Tokens \cup {None} :
               /\ req' = [req EXCEPT ![w] = Begun(s, d, old, a, t)]
               /\ s \in {"prepare", "challenge", "held", "cooldown", "replace"}
                    => old \in Devices
               /\ s \in {"assert", "recover", "held", "cooldown", "replace"}
                    => a \in Accounts
  <2>1. CASE \E d \in Devices : ReadByKey(w, d)
    BY <2>1 DEF ReadByKey, Stages
  <2>2. CASE \E d \in Devices : PrepareChallenge(w, d)
    BY <2>2 DEF PrepareChallenge, Stages, Active
  <2>3. CASE \E d \in Devices, a \in Accounts : BeginRecover(w, d, a)
    BY <2>3 DEF BeginRecover, Stages
  <2>4. CASE \E t \in Tokens, a \in Accounts : LoadChallenge(w, t, a)
    BY <2>4, <1>t DEF LoadChallenge, Stages, ChallengeNamesDevices
  <2>5. CASE \E d, old \in Devices, a \in Accounts :
               BeginGrantReplacement(w, d, old, a)
    BY <2>5 DEF BeginGrantReplacement, Stages
  <2>6. CASE \E d \in Devices, a \in Accounts \cup {None} :
               BeginDisconnect(w, d, a)
    BY <2>6 DEF BeginDisconnect, Stages
  <2> QED
    BY <1>1, <2>1, <2>2, <2>3, <2>4, <2>5, <2>6 DEF Begin
<1>2. ASSUME NEW w \in Workers, Continue(w) \/ Crash(w)
      PROVE  \/ Finish(w)
             \/ At(w, "assert") /\ Goto(w, "recover")
             \/ At(w, "prepare") /\ Goto(w, "challenge")
             \/ At(w, "held") /\ Goto(w, "cooldown")
             \/ At(w, "cooldown") /\ Goto(w, "replace")
             \/ At(w, "find") /\ Goto(w, "disconnect")
  BY <1>2 DEF Continue, Crash, ActivateByKey, RefuseKey, ReadForRecovery,
       RecoverSlot, RefuseRecovery, CreateChallenge, CheckHolder,
       CheckCooldown, ReplaceDevice, RefuseReplacement, FindSlot, Disconnect
<1>3. CASE \E w \in Workers : Begin(w) \/ Continue(w) \/ Crash(w)
  <2>1. PICK w \in Workers : Begin(w) \/ Continue(w) \/ Crash(w)
    BY <1>3
  <2>2. CASE Begin(w)
    BY <2>2, <1>1, CarriesStep
  <2>3. CASE Continue(w) \/ Crash(w)
    BY <2>3, <1>2, CarriesStep
  <2> QED
    BY <2>1, <2>2, <2>3
<1>4. CASE \/ RevokeLicense \/ LicenseExpires \/ DayPasses
           \/ \E a \in Accounts \cup {None} : ChangeHolder(a)
           \/ \E t \in Tokens : ChallengeExpires(t)
           \/ \E d \in Devices : ClearDevice(d)
           \/ UNCHANGED vars
  <2>1. req' = req
    BY <1>4 DEF RevokeLicense, LicenseExpires, DayPasses, ChangeHolder,
         ChallengeExpires, ClearDevice, vars
  <2> QED
    BY <2>1, <1>t DEF Carries, TypeOK
<1> QED
  BY <1>3, <1>4 DEF Next

-----------------------------------------------------------------------------
\* A challenge, once created, names the two devices for good.
LEMMA ChallengeNamesStep ==
    ASSUME IInv, [Next]_vars
    PROVE  challenge' \in [Tokens -> Challenges] /\ ChallengeNamesDevices'
<1>t. /\ challenge \in [Tokens -> Challenges] /\ ChallengeNamesDevices
      /\ req \in [Workers -> Requests] /\ \A v \in Workers : Carries(v)
  BY DEF IInv, TypeOK
<1>1. CASE UNCHANGED challenge
  BY <1>1, <1>t DEF ChallengeNamesDevices
<1>2. ASSUME NEW w \in Workers, CreateChallenge(w)
      PROVE  challenge' \in [Tokens -> Challenges] /\ ChallengeNamesDevices'
  <2>1. PICK t \in Tokens :
          challenge' = [challenge EXCEPT ![t] =
                          [state |-> "open", new |-> req[w].dev,
                           old |-> req[w].old]]
    BY <1>2 DEF CreateChallenge
  <2>2. req[w].dev \in Devices /\ req[w].old \in Devices
    BY <1>2, <1>t DEF CreateChallenge, Carries, At
  <2> QED
    BY <2>1, <2>2, <1>t DEF Challenges, ChallengeStates, ChallengeNamesDevices
<1>3. ASSUME NEW w \in Workers, ReplaceDevice(w)
      PROVE  challenge' \in [Tokens -> Challenges] /\ ChallengeNamesDevices'
  <2>1. CASE req[w].token = None
    BY <2>1, <1>3, <1>t DEF ReplaceDevice, ChallengeNamesDevices
  <2>2. CASE req[w].token # None
    <3>1. req[w].token \in Tokens
      BY <2>2, <1>t DEF Requests
    <3>2. challenge' = [challenge EXCEPT ![req[w].token].state = "used"]
      BY <2>2, <1>3 DEF ReplaceDevice
    <3>3. challenge' \in [Tokens -> Challenges]
      BY <3>1, <3>2, <1>t DEF Challenges, ChallengeStates
    <3>4. challenge[req[w].token].state # "none"
      BY <3>1 DEF IInv, TokensCreated
    <3> QED
      BY <3>1, <3>2, <3>3, <3>4, <1>t DEF Challenges, ChallengeNamesDevices
  <2> QED
    BY <2>1, <2>2
<1>4. ASSUME NEW t \in Tokens, ChallengeExpires(t)
      PROVE  challenge' \in [Tokens -> Challenges] /\ ChallengeNamesDevices'
  BY <1>4, <1>t DEF ChallengeExpires, Challenges, ChallengeStates,
       ChallengeNamesDevices
<1> QED
  BY <1>1, <1>2, <1>3, <1>4, ChallengeSteps

\* No row of a challenge is ever deleted.
LEMMA ChallengesStay ==
    ASSUME IInv, [Next]_vars, NEW t \in Tokens, challenge[t].state # "none"
    PROVE  challenge'[t].state # "none"
<1>t. /\ challenge \in [Tokens -> Challenges]
      /\ req \in [Workers -> Requests]
  BY DEF IInv, TypeOK
<1>1. ASSUME NEW w \in Workers, CreateChallenge(w)
      PROVE  challenge'[t].state # "none"
  BY <1>1, <1>t DEF CreateChallenge, NoChallenge
<1>2. ASSUME NEW w \in Workers, ReplaceDevice(w)
      PROVE  challenge'[t].state # "none"
  BY <1>2, <1>t DEF ReplaceDevice, Challenges
<1>3. ASSUME NEW u \in Tokens, ChallengeExpires(u)
      PROVE  challenge'[t].state # "none"
  BY <1>3, <1>t DEF ChallengeExpires, Challenges
<1> QED
  BY <1>1, <1>2, <1>3, ChallengeSteps

\* A request takes up a token only when it has found the row.
LEMMA TokensStep ==
    ASSUME IInv, [Next]_vars
    PROVE  TokensCreated'
<1>t. /\ req \in [Workers -> Requests] /\ req' \in [Workers -> Requests]
      /\ TokensCreated
  BY RequestsStep DEF IInv, TypeOK
<1>n. None \notin Tokens
  BY SlotsAssumption
<1>1. \A v \in Workers : req'[v].token \in Tokens =>
          req'[v].token = req[v].token \/ challenge[req'[v].token].state = "open"
  <2>1. ASSUME NEW w \in Workers, Begin(w)
        PROVE  \A v \in Workers : req'[v].token \in Tokens =>
                 \/ req'[v].token = req[v].token
                 \/ challenge[req'[v].token].state = "open"
    BY <2>1, <1>t, <1>n DEF Begin, ReadByKey, PrepareChallenge, BeginRecover,
         LoadChallenge, BeginGrantReplacement, BeginDisconnect, Begun
  <2>2. ASSUME NEW w \in Workers, Continue(w) \/ Crash(w)
        PROVE  \A v \in Workers : req'[v].token \in Tokens =>
                 req'[v].token = req[v].token
    <3>1. Finish(w) \/ \E s \in Stages : Goto(w, s)
      BY <2>2 DEF Continue, Crash, ActivateByKey, RefuseKey, ReadForRecovery,
           RecoverSlot, RefuseRecovery, CreateChallenge, CheckHolder, Stages,
           CheckCooldown, ReplaceDevice, RefuseReplacement, FindSlot, Disconnect
    <3> QED
      BY <3>1, <1>t, <1>n DEF Finish, Goto, Idle, Begun, Requests
  <2>3. CASE \/ RevokeLicense \/ LicenseExpires \/ DayPasses
             \/ \E a \in Accounts \cup {None} : ChangeHolder(a)
             \/ \E t \in Tokens : ChallengeExpires(t)
             \/ \E d \in Devices : ClearDevice(d)
             \/ UNCHANGED vars
    BY <2>3 DEF RevokeLicense, LicenseExpires, DayPasses, ChangeHolder,
         ChallengeExpires, ClearDevice, vars
  <2> QED
    BY <2>1, <2>2, <2>3 DEF Next
<1>2. \A v \in Workers : req'[v].token \in Tokens =>
          challenge[req'[v].token].state # "none"
  BY <1>1, <1>t DEF TokensCreated
<1> QED
  BY <1>2, ChallengesStay DEF TokensCreated

-----------------------------------------------------------------------------
ScalarTypes ==
    /\ status \in {"ACTIVE", "REVOKED"} /\ revoked \in BOOLEAN
    /\ expired \in BOOLEAN /\ holder \in Accounts \cup {None}
    /\ cooling \in BOOLEAN /\ today \in 0 .. 2 /\ missed \in BOOLEAN

\* Every part of the state keeps its type.
LEMMA TypeStep ==
    ASSUME IInv, [Next]_vars
    PROVE  TypeOK'
<1>t. TypeOK
  BY DEF IInv
<1>r. req' \in [Workers -> Requests] /\ challenge' \in [Tokens -> Challenges]
  BY RequestsStep, ChallengeNamesStep
<1>1. slot' \in [Devices -> SlotStates]
  <2>1. ASSUME NEW w \in Workers,
               ActivateByKey(w) \/ RecoverSlot(w) \/ Disconnect(w)
        PROVE  slot' \in [Devices -> SlotStates]
    BY <2>1, <1>t DEF ActivateByKey, RecoverSlot, Disconnect, TypeOK, SlotStates
  <2>2. ASSUME NEW w \in Workers, ReplaceDevice(w)
        PROVE  slot' \in [Devices -> SlotStates]
    BY <2>2, <1>t DEF ReplaceDevice, Swap, TypeOK, SlotStates
  <2>3. ASSUME NEW d \in Devices, ClearDevice(d)
        PROVE  slot' \in [Devices -> SlotStates]
    BY <2>3, <1>t DEF ClearDevice, TypeOK, SlotStates
  <2> QED
    BY <2>1, <2>2, <2>3, <1>t, SlotSteps DEF TypeOK
<1>2. ScalarTypes'
  <2>1. ASSUME NEW w \in Workers, Begin(w) \/ Crash(w)
        PROVE  UNCHANGED <<license, ledger, cooling>>
    BY <2>1 DEF Begin, Crash, ReadByKey, PrepareChallenge, BeginRecover,
         LoadChallenge, BeginGrantReplacement, BeginDisconnect
  <2>2. ASSUME NEW w \in Workers, Continue(w), ~ReplaceDevice(w)
        PROVE  /\ UNCHANGED <<revoked, expired, holder, today, missed>>
               /\ status' \in {status, "ACTIVE"}
               /\ cooling' = cooling \/ cooling' = (cooling \/ req[w].acct # None)
    BY <2>2 DEF Continue, ActivateByKey, RefuseKey, ReadForRecovery,
         RecoverSlot, RefuseRecovery, CreateChallenge, CheckHolder,
         CheckCooldown, RefuseReplacement, FindSlot, Disconnect, license, ledger
  <2>3. ASSUME NEW w \in Workers, ReplaceDevice(w)
        PROVE  ScalarTypes'
    <3>1. /\ status' = "ACTIVE" /\ UNCHANGED <<revoked, expired, holder>>
          /\ cooling' = cooling \/ cooling' = TRUE
      BY <2>3 DEF ReplaceDevice
    <3>2. missed' \in BOOLEAN
      BY <2>3, <1>t, Zenon DEF ReplaceDevice, TypeOK
    <3>3. today' = IF today = 2 THEN 2 ELSE today + 1
      BY <2>3 DEF ReplaceDevice
    <3>4. today' \in 0 .. 2
      BY <3>3, <1>t DEF TypeOK
    <3> QED
      BY <3>1, <3>2, <3>4, <1>t DEF ScalarTypes, TypeOK
  <2>4. CASE \/ RevokeLicense \/ LicenseExpires \/ DayPasses
             \/ \E a \in Accounts \cup {None} : ChangeHolder(a)
             \/ \E t \in Tokens : ChallengeExpires(t)
             \/ \E d \in Devices : ClearDevice(d)
             \/ UNCHANGED vars
    <3>1. CASE RevokeLicense
      BY <3>1, <1>t DEF RevokeLicense, ledger, TypeOK, ScalarTypes
    <3>2. CASE LicenseExpires
      BY <3>2, <1>t DEF LicenseExpires, ledger, TypeOK, ScalarTypes
    <3>3. CASE DayPasses
      <4>1. /\ UNCHANGED <<status, revoked, expired, holder, missed>>
            /\ cooling' = FALSE /\ today' = 0
        BY <3>3 DEF DayPasses, license
      <4>2. 0 \in 0 .. 2
        OBVIOUS
      <4> QED
        BY <4>1, <4>2, <1>t DEF TypeOK, ScalarTypes
    <3>4. CASE \E a \in Accounts \cup {None} : ChangeHolder(a)
      BY <3>4, <1>t DEF ChangeHolder, ledger, TypeOK, ScalarTypes
    <3>5. CASE \/ \E t \in Tokens : ChallengeExpires(t)
               \/ \E d \in Devices : ClearDevice(d)
               \/ UNCHANGED vars
      <4>1. UNCHANGED <<status, revoked, expired, holder, cooling, today, missed>>
        BY <3>5 DEF ChallengeExpires, ClearDevice, vars, ledger, license
      <4> QED
        BY <4>1, <1>t DEF TypeOK, ScalarTypes
    <3> QED
      BY <2>4, <3>1, <3>2, <3>3, <3>4, <3>5
  <2>5. ASSUME NEW w \in Workers, Begin(w) \/ Crash(w)
        PROVE  ScalarTypes'
    BY <2>1, <2>5, <1>t DEF ScalarTypes, TypeOK, license, ledger
  <2>6. ASSUME NEW w \in Workers, Continue(w), ~ReplaceDevice(w)
        PROVE  ScalarTypes'
    <3>1. cooling' \in BOOLEAN
      BY <2>2, <2>6, <1>t, Zenon DEF TypeOK
    <3> QED
      BY <2>2, <2>6, <3>1, <1>t DEF ScalarTypes, TypeOK
  <2> QED
    BY <2>3, <2>4, <2>5, <2>6 DEF Next
<1> QED
  BY <1>r, <1>1, <1>2 DEF TypeOK, ScalarTypes

-----------------------------------------------------------------------------
\* The limit: a step that gives a slot has counted the others in the same
\* transaction, or takes one away.
LEMMA LimitStep ==
    ASSUME IInv, [Next]_vars
    PROVE  LimitUnlessMissed'
<1>t. /\ LimitUnlessMissed /\ req \in [Workers -> Requests]
      /\ \A w \in Workers : Carries(w)
  BY DEF IInv, TypeOK
<1>1. CASE UNCHANGED <<slot, missed>>
  BY <1>1, <1>t DEF LimitUnlessMissed, Active
<1>2. ASSUME NEW w \in Workers, ActivateByKey(w) \/ RecoverSlot(w)
      PROVE  LimitUnlessMissed'
  <2>1. /\ req[w].dev \in Devices /\ ~NoFreeSlot
        /\ slot' = [slot EXCEPT ![req[w].dev] = "active"]
    BY <1>2, <1>t DEF ActivateByKey, RecoverSlot, MayActivate, Carries, At
  <2>2. Cardinality(Active') <= MaxDevices
    BY <2>1, GainStep
  <2> QED
    BY <2>2 DEF LimitUnlessMissed
<1>3. ASSUME NEW w \in Workers, ReplaceDevice(w)
      PROVE  LimitUnlessMissed'
  <2>1. /\ req[w].dev \in Devices /\ req[w].old \in Devices
        /\ req[w].dev \notin Active /\ Swap(req[w].dev, req[w].old)
    BY <1>3, <1>t DEF ReplaceDevice, Carries, At, Active
  <2>2. missed' = (missed \/ (NoFreeSlot /\ slot[req[w].old] # "active"))
    BY <1>3 DEF ReplaceDevice
  <2>3. CASE ~missed'
    <3>1. ~missed /\ ~(NoFreeSlot /\ slot[req[w].old] # "active")
      BY <2>2, <2>3
    <3>2. Cardinality(Active) <= MaxDevices
      BY <3>1, <1>t DEF LimitUnlessMissed
    <3>3. Cardinality(Active') <= MaxDevices
      BY <2>1, <3>1, <3>2, SwapStep
    <3> QED
      BY <3>3 DEF LimitUnlessMissed
  <2> QED
    BY <2>3 DEF LimitUnlessMissed
<1>4. ASSUME NEW d \in Devices, slot' = [slot EXCEPT ![d] = "revoked"],
             missed' = missed
      PROVE  LimitUnlessMissed'
  <2>1. Cardinality(Active') <= Cardinality(Active)
    BY <1>4, LoseStep
  <2>2. Active' \in SUBSET Devices
    BY DEF Active
  <2>3. Cardinality(Active') \in Nat
    BY <2>2, SlotsAssumption, FS_Subset, FS_CardinalityType
  <2> QED
    BY <1>4, <2>1, <2>3, <1>t, Sizes DEF LimitUnlessMissed
<1>5. ASSUME NEW w \in Workers, Disconnect(w)
      PROVE  LimitUnlessMissed'
  BY <1>4, <1>5, <1>t DEF Disconnect, Carries, At
<1>6. ASSUME NEW d \in Devices, ClearDevice(d)
      PROVE  LimitUnlessMissed'
  BY <1>4, <1>6 DEF ClearDevice
<1> QED
  BY <1>1, <1>2, <1>3, <1>5, <1>6, SlotSteps

-----------------------------------------------------------------------------
LEMMA InitInvariant == Init => IInv
<1> SUFFICES ASSUME Init PROVE IInv
  OBVIOUS
<1>1. TypeOK
  <2>1. Idle \in Requests
    BY DEF Idle, Begun, Requests, Stages
  <2>2. NoChallenge \in Challenges
    BY DEF NoChallenge, Challenges, ChallengeStates
  <2>3. 0 \in 0 .. 2
    OBVIOUS
  <2> QED
    BY <2>1, <2>2, <2>3 DEF Init, TypeOK, SlotStates
<1>2. \A w \in Workers : Carries(w) /\ req[w].token \notin Tokens
  BY SlotsAssumption DEF Init, Carries, Idle, Begun
<1>3. ChallengeNamesDevices
  BY DEF Init, ChallengeNamesDevices, NoChallenge
<1>4. Active = {}
  BY DEF Init, Active
<1>5. Cardinality(Active) = 0
  BY <1>4, FS_EmptySet
<1>6. LimitUnlessMissed
  BY <1>5, SlotsAssumption DEF LimitUnlessMissed
<1> QED
  BY <1>1, <1>2, <1>3, <1>6 DEF IInv, TokensCreated

\* The invariant the other theorems rest on is inductive.
THEOREM Invariance == Spec => []IInv
<1>1. IInv /\ [Next]_vars => IInv'
  BY RequestsStep, ChallengeNamesStep, TokensStep, TypeStep, LimitStep DEF IInv
<1> QED
  BY <1>1, InitInvariant, PTL DEF Spec

\* Every variable keeps its type: the rows of the license, its activations and
\* challenges, and the requests.
THEOREM TypeCorrect == Spec => []TypeOK
<1>1. IInv => TypeOK
  BY DEF IInv
<1> QED
  BY <1>1, Invariance, PTL

\* No order of activations, recoveries, replacements and disconnects gives more
\* devices a slot than the plan allows, as long as every replacement that finds
\* no free slot disconnects the device it names.
THEOREM LimitKept == Spec => []LimitUnlessMissed
<1>1. IInv => LimitUnlessMissed
  BY DEF IInv
<1> QED
  BY <1>1, Invariance, PTL

\* A device that was disconnected comes back only by a recovery or a
\* replacement on behalf of an account.
THEOREM HolderReconnects == Spec => OnlyHolderReconnects
<1>1. ASSUME IInv, [Next]_vars, NEW d \in Devices,
             slot[d] = "revoked", slot'[d] = "active"
      PROVE  \E w \in Workers : /\ req[w].pc \in {"recover", "replace"}
                                /\ req[w].dev = d
                                /\ req[w].acct \in Accounts
  <2> DEFINE Asked(w) == /\ req[w].pc \in {"recover", "replace"}
                         /\ req[w].dev = d /\ req[w].acct \in Accounts
  <2>t. /\ slot \in [Devices -> SlotStates] /\ \A w \in Workers : Carries(w)
    BY <1>1 DEF IInv, TypeOK
  <2>1. ASSUME NEW w \in Workers, ActivateByKey(w)
        PROVE  FALSE
    BY <1>1, <2>1, <2>t DEF ActivateByKey, MayActivate
  <2>2. ASSUME NEW w \in Workers, RecoverSlot(w)
        PROVE  Asked(w)
    BY <1>1, <2>2, <2>t DEF RecoverSlot, At, Carries
  <2>3. ASSUME NEW w \in Workers, ReplaceDevice(w)
        PROVE  Asked(w)
    BY <1>1, <2>3, <2>t DEF ReplaceDevice, Swap, At, Carries
  <2>4. ASSUME NEW w \in Workers, Disconnect(w)
        PROVE  FALSE
    BY <1>1, <2>4, <2>t DEF Disconnect
  <2>5. ASSUME NEW e \in Devices, ClearDevice(e)
        PROVE  FALSE
    BY <1>1, <2>5, <2>t DEF ClearDevice
  <2> QED
    BY <1>1, <2>1, <2>2, <2>3, <2>4, <2>5, SlotSteps
<1>2. IInv /\ [Next]_vars => ReconnectsOnRequest
  BY <1>1 DEF ReconnectsOnRequest
<1> QED
  BY <1>2, Invariance, PTL DEF Spec, OnlyHolderReconnects

\* A device makes room for another only where there is no free slot, and only
\* for a request that named both.
THEOREM EvictionNamed == Spec => NoSilentEviction
<1>1. ASSUME IInv, [Next]_vars, NEW d \in Devices, NEW e \in Devices,
             slot[d] = "active", slot'[d] # "active", e \in Active' \ Active
      PROVE  /\ NoFreeSlot
             /\ \E w \in Workers : At(w, "replace") /\ req[w].old = d
                                     /\ req[w].dev = e
  <2> DEFINE Asked(w) == At(w, "replace") /\ req[w].old = d /\ req[w].dev = e
  <2>t. slot \in [Devices -> SlotStates]
    BY <1>1 DEF IInv, TypeOK
  <2>e. slot[e] # "active" /\ slot'[e] = "active"
    BY <1>1 DEF Active
  <2>1. ASSUME NEW w \in Workers,
               ActivateByKey(w) \/ RecoverSlot(w) \/ Disconnect(w)
        PROVE  FALSE
    BY <1>1, <2>1, <2>t, <2>e DEF ActivateByKey, RecoverSlot, Disconnect
  <2>2. ASSUME NEW w \in Workers, ReplaceDevice(w)
        PROVE  NoFreeSlot /\ Asked(w)
    BY <1>1, <2>2, <2>t, <2>e DEF ReplaceDevice, Swap
  <2>3. ASSUME NEW f \in Devices, ClearDevice(f)
        PROVE  FALSE
    BY <1>1, <2>3, <2>t, <2>e DEF ClearDevice
  <2> QED
    BY <1>1, <2>1, <2>2, <2>3, SlotSteps
<1>2. IInv /\ [Next]_vars => EvictsOnRequest
  BY <1>1 DEF EvictsOnRequest
<1> QED
  BY <1>2, Invariance, PTL DEF Spec, NoSilentEviction

-----------------------------------------------------------------------------
\* The keys of paid orders, and who is told of them.  The devices stand for the orders.

JobStages == {"idle", "notify", "read", "issue", "complete", "tell"}
Jobs == [pc : JobStages, o : Devices \cup {None}]

KeyTypes ==
    /\ job \in [Workers -> Jobs]
    /\ \A w \in Workers : job[w].pc # "idle" => job[w].o \in Devices
    /\ key \in [Devices -> {"none", "active", "ended"}]
    /\ told \in [Devices -> 0 .. 2]
    /\ of \in [Devices -> Customers]

\* The approval that has issued the key of o and has not told it.
Announces(w, o) == job[w].o = o /\ job[w].pc \in {"complete", "tell"}

\* The key of an order is announced by the one approval that has issued it.
KeyRight(o) ==
    /\ \A v, w \in Workers : Announces(v, o) /\ Announces(w, o) => v = w
    /\ \A w \in Workers : Announces(w, o) => told[o] = 0 /\ key[o] # "none"
    /\ key[o] = "none" => told[o] = 0
    /\ told[o] <= 1
    /\ key[o] # "none" => told[o] = 1 \/ o \in unsaid \/ \E w \in Workers : Announces(w, o)

OwnKeyShown == \A x \in screens, o \in Devices : o \in {x[2], x[3]} => of[o] = x[1]

KeyIInv == KeyTypes /\ (\A o \in Devices : KeyRight(o)) /\ OwnKeyShown

\* An approval goes on, or ends; what it has issued it tells, or the customer is not told.
LEMMA KeyMoves ==
    ASSUME KeyIInv, NEW w \in Workers, NEW r \in Jobs, job' = [job EXCEPT ![w] = r],
           r.pc # "idle" => r.o \in Devices,
           UNCHANGED <<of, key, told, screens>>, unsaid \subseteq unsaid',
           r.pc \in {"complete", "tell"}
             => job[w].pc \in {"complete", "tell"} /\ r.o = job[w].o,
           job[w].pc \in {"complete", "tell"}
             => \/ r.pc \in {"complete", "tell"} /\ r.o = job[w].o
                \/ job[w].o \in unsaid'
    PROVE  KeyIInv'
<1>1. /\ job' \in [Workers -> Jobs] /\ job'[w] = r
      /\ \A v \in Workers \ {w} : job'[v] = job[v]
  BY DEF KeyIInv, KeyTypes
<1>2. KeyTypes'
  BY <1>1 DEF KeyIInv, KeyTypes
<1>3. ASSUME NEW o \in Devices
      PROVE  KeyRight(o)'
  <2>1. KeyRight(o)
    BY DEF KeyIInv
  <2>2. \A v \in Workers : Announces(v, o)' => Announces(v, o)
    BY <1>1 DEF Announces
  <2>3. \A v \in Workers : Announces(v, o) => Announces(v, o)' \/ o \in unsaid'
    BY <1>1 DEF Announces
  <2> QED
    BY <2>1, <2>2, <2>3 DEF KeyRight
<1>4. OwnKeyShown'
  BY DEF KeyIInv, OwnKeyShown
<1> QED
  BY <1>2, <1>3, <1>4 DEF KeyIInv

LEMMA KeyFirst ==
    ASSUME KeyIInv, NEW w \in Workers,
           \/ \E o \in Devices : K!StoreReceipt(w, o) \/ K!PressApprove(w, o) \/ K!PanelApprove(w, o)
           \/ K!NotifyAdmins(w) \/ K!ReadOrder(w)
    PROVE  KeyIInv'
<1>t. job \in [Workers -> Jobs] /\ (job[w].pc # "idle" => job[w].o \in Devices)
  BY DEF KeyIInv, KeyTypes
<1>1. \E r \in Jobs : /\ job' = [job EXCEPT ![w] = r]
                      /\ r.pc # "idle" => r.o \in Devices
                      /\ r.pc \notin {"complete", "tell"}
  <2>1. CASE \E o \in Devices : \E s \in {"notify", "read"} : K!Serve(w, s, o)
    <3>1. PICK o \in Devices, s \in {"notify", "read"} : K!Serve(w, s, o)
      BY <2>1
    <3>2. [pc |-> s, o |-> o] \in Jobs
      BY DEF Jobs, JobStages
    <3> QED
      BY <3>1, <3>2 DEF K!Serve
  <2>2. CASE K!Finish(w)
    <3>1. K!Idle \in Jobs /\ K!Idle.pc = "idle"
      BY DEF K!Idle, Jobs, JobStages
    <3> QED
      BY <2>2, <3>1 DEF K!Finish
  <2>3. CASE K!Goto(w, "issue") /\ job[w].pc # "idle"
    <3> DEFINE r == [job[w] EXCEPT !.pc = "issue"]
    <3>1. r \in Jobs /\ r.pc = "issue" /\ r.o \in Devices /\ job' = [job EXCEPT ![w] = r]
      BY <1>t, <2>3 DEF K!Goto, Jobs, JobStages
    <3> QED
      BY <3>1
  <2> QED
    BY <2>1, <2>2, <2>3 DEF K!StoreReceipt, K!PressApprove, K!PanelApprove, K!NotifyAdmins,
       K!ReadOrder, K!At
<1>2. /\ UNCHANGED <<of, key, told, screens, unsaid>>
      /\ job[w].pc \notin {"complete", "tell"}
  BY DEF K!StoreReceipt, K!PressApprove, K!PanelApprove, K!NotifyAdmins, K!ReadOrder, K!At
<1> QED
  BY <1>1, <1>2, KeyMoves

LEMMA KeyEnds ==
    ASSUME KeyIInv, NEW w \in Workers, K!Finish(w),
           UNCHANGED <<of, key, told, screens>>, unsaid \subseteq unsaid',
           job[w].pc \in {"complete", "tell"} => job[w].o \in unsaid'
    PROVE  KeyIInv'
<1>1. K!Idle \in Jobs /\ K!Idle.pc = "idle"
  BY DEF K!Idle, Jobs, JobStages
<1> QED
  BY <1>1, KeyMoves DEF K!Finish

\* The unique index lets one approval issue the license of an order.
LEMMA KeyIssued ==
    ASSUME KeyIInv, NEW w \in Workers, K!IssueKey(w)
    PROVE  KeyIInv'
<1>t. job \in [Workers -> Jobs] /\ job[w].pc = "issue" /\ job[w].o \in Devices
  BY DEF KeyIInv, KeyTypes, K!IssueKey, K!At
<1>u. UNCHANGED <<of, told, screens, unsaid>>
  BY DEF K!IssueKey
<1>1. CASE key[job[w].o] # "none"
  BY <1>1, <1>t, <1>u, KeyEnds DEF K!IssueKey, K!AfterDuplicate
<1>2. CASE key[job[w].o] = "none"
  <2> DEFINE p == job[w].o
  <2>1. key' = [key EXCEPT ![p] = "active"] /\ K!Goto(w, "complete")
    BY <1>2 DEF K!IssueKey
  <2>2. /\ job' \in [Workers -> Jobs]
        /\ job'[w].pc = "complete" /\ job'[w].o = p
        /\ \A v \in Workers \ {w} : job'[v] = job[v]
    BY <1>t, <2>1 DEF K!Goto, Jobs, JobStages
  <2>3. KeyTypes'
    BY <1>t, <1>u, <2>1, <2>2 DEF KeyIInv, KeyTypes
  <2>4. ASSUME NEW o \in Devices
        PROVE  KeyRight(o)'
    <3>1. KeyRight(o)
      BY DEF KeyIInv
    <3>2. CASE o = p
      <4>1. \A v \in Workers : ~Announces(v, o)
        BY <1>2, <3>1, <3>2 DEF KeyRight
      <4>2. \A v \in Workers : Announces(v, o)' => v = w
        BY <2>2, <4>1 DEF Announces
      <4>3. Announces(w, o)' /\ key'[o] # "none" /\ told'[o] = 0
        BY <1>t, <1>u, <1>2, <2>1, <2>2, <3>1, <3>2
        DEF Announces, KeyRight, KeyIInv, KeyTypes
      <4> QED
        BY <4>2, <4>3 DEF KeyRight
    <3>3. CASE o # p
      <4>1. key'[o] = key[o]
        BY <1>t, <2>1, <3>3 DEF KeyIInv, KeyTypes
      <4>2. \A v \in Workers : Announces(v, o)' <=> Announces(v, o)
        BY <1>t, <2>2, <3>3 DEF Announces
      <4> QED
        BY <1>u, <3>1, <4>1, <4>2 DEF KeyRight
    <3> QED
      BY <3>2, <3>3
  <2>5. OwnKeyShown'
    BY <1>u DEF KeyIInv, OwnKeyShown
  <2> QED
    BY <2>3, <2>4, <2>5 DEF KeyIInv
<1> QED
  BY <1>1, <1>2

LEMMA KeyCompleted ==
    ASSUME KeyIInv, NEW w \in Workers, K!Complete(w)
    PROVE  KeyIInv'
<1> DEFINE r == [job[w] EXCEPT !.pc = "tell"]
<1>1. /\ r \in Jobs /\ r.pc = "tell" /\ r.o = job[w].o /\ r.o \in Devices
      /\ job[w].pc = "complete" /\ job' = [job EXCEPT ![w] = r]
  BY DEF K!Complete, K!At, K!Goto, KeyIInv, KeyTypes, Jobs, JobStages
<1>2. UNCHANGED <<of, key, told, screens, unsaid>>
  BY DEF K!Complete
<1> HIDE DEF r
<1> QED
  BY <1>1, <1>2, KeyMoves

LEMMA KeyTold ==
    ASSUME KeyIInv, NEW w \in Workers, K!TellCustomer(w)
    PROVE  KeyIInv'
<1>t. /\ job \in [Workers -> Jobs] /\ job[w].pc = "tell" /\ job[w].o \in Devices
      /\ Announces(w, job[w].o)
  BY DEF KeyIInv, KeyTypes, K!TellCustomer, K!At, Announces
<1>u. UNCHANGED <<of, key, screens>> /\ K!Finish(w)
  BY DEF K!TellCustomer
<1>1. CASE unsaid' = unsaid \cup {job[w].o} /\ UNCHANGED told
  BY <1>1, <1>u, KeyEnds
<1>2. CASE told' = [told EXCEPT ![job[w].o] = IF @ = 2 THEN 2 ELSE @ + 1] /\ UNCHANGED unsaid
  <2> DEFINE p == job[w].o
  <2>1. told[p] = 0 /\ key[p] # "none"
    BY <1>t DEF KeyIInv, KeyRight
  <2>2. /\ told' \in [Devices -> 0 .. 2] /\ told'[p] = 1
        /\ \A o \in Devices \ {p} : told'[o] = told[o]
    BY <1>t, <1>2, <2>1 DEF KeyIInv, KeyTypes
  <2>3. /\ job' \in [Workers -> Jobs] /\ job'[w].pc = "idle"
        /\ \A v \in Workers \ {w} : job'[v] = job[v]
    BY <1>t, <1>u DEF K!Finish, K!Idle, Jobs, JobStages
  <2>4. KeyTypes'
    BY <1>u, <2>2, <2>3 DEF KeyIInv, KeyTypes
  <2>5. ASSUME NEW o \in Devices
        PROVE  KeyRight(o)'
    <3>1. KeyRight(o)
      BY DEF KeyIInv
    <3>2. CASE o = p
      <4>1. \A v \in Workers : ~Announces(v, o)'
        BY <1>t, <2>3, <3>1, <3>2 DEF KeyRight, Announces
      <4> QED
        BY <1>u, <2>1, <2>2, <3>2, <4>1 DEF KeyRight
    <3>3. CASE o # p
      <4>1. \A v \in Workers : Announces(v, o)' <=> Announces(v, o)
        BY <1>t, <2>3, <3>3 DEF Announces
      <4> QED
        BY <1>2, <1>u, <2>2, <3>1, <3>3, <4>1 DEF KeyRight
    <3> QED
      BY <3>2, <3>3
  <2>6. OwnKeyShown'
    BY <1>u DEF KeyIInv, OwnKeyShown
  <2> QED
    BY <2>4, <2>5, <2>6 DEF KeyIInv
<1> QED
  BY <1>1, <1>2 DEF K!TellCustomer

\* "My key", and what happens to an order or a license elsewhere.
LEMMA KeyElsewhere ==
    ASSUME KeyIInv,
           \/ \E o \in Devices : K!RejectOrder(o) \/ K!EndLicense(o)
           \/ \E c \in Customers : K!ShowMyKey(c)
    PROVE  KeyIInv'
<1>u. UNCHANGED <<of, job, told, unsaid>>
  BY DEF K!RejectOrder, K!EndLicense, K!ShowMyKey
<1>k. /\ key' \in [Devices -> {"none", "active", "ended"}]
      /\ \A o \in Devices : key'[o] = "none" <=> key[o] = "none"
  BY DEF K!RejectOrder, K!EndLicense, K!ShowMyKey, KeyIInv, KeyTypes
<1>1. KeyTypes'
  BY <1>u, <1>k DEF KeyIInv, KeyTypes
<1>2. ASSUME NEW o \in Devices
      PROVE  KeyRight(o)'
  <2>1. KeyRight(o)
    BY DEF KeyIInv
  <2> QED
    BY <1>u, <1>k, <2>1 DEF KeyRight, Announces
<1>3. OwnKeyShown'
  <2>1. CASE UNCHANGED screens
    BY <1>u, <2>1 DEF KeyIInv, OwnKeyShown
  <2>2. ASSUME NEW c \in Customers, K!ShowMyKey(c)
        PROVE  OwnKeyShown'
    <3>1. PICK o \in Devices, last \in Devices :
                 /\ K!IsLast(o, outbox, K!KeptOf(c)) /\ K!IsLast(last, later, K!ActiveOf(c))
                 /\ screens' = screens \cup {<<c, o, last>>}
      BY <2>2 DEF K!ShowMyKey
    <3>2. of[o] = c /\ of[last] = c
      BY <3>1 DEF K!IsLast, K!KeptOf, K!ActiveOf
    <3> QED
      BY <1>u, <3>1, <3>2 DEF KeyIInv, OwnKeyShown
  <2> QED
    BY <2>1, <2>2 DEF K!RejectOrder, K!EndLicense
<1> QED
  BY <1>1, <1>2, <1>3 DEF KeyIInv

LEMMA KeyStart ==
    ASSUME K!Init
    PROVE  KeyIInv
<1>1. KeyTypes
  BY DEF K!Init, KeyTypes, K!Idle, Jobs, JobStages
<1>2. \A o \in Devices : KeyRight(o)
  BY DEF K!Init, KeyRight, Announces, K!Idle
<1>3. OwnKeyShown
  BY DEF K!Init, OwnKeyShown
<1> QED
  BY <1>1, <1>2, <1>3 DEF KeyIInv

LEMMA KeyNext ==
    ASSUME KeyIInv, K!Next
    PROVE  KeyIInv'
<1>1. ASSUME NEW w \in Workers, K!Crash(w)
      PROVE  KeyIInv'
  <2>1. /\ K!Finish(w) /\ UNCHANGED <<of, key, told, screens>> /\ unsaid \subseteq unsaid'
        /\ job[w].pc \in {"complete", "tell"} => job[w].o \in unsaid'
    BY <1>1 DEF K!Crash
  <2> QED
    BY <2>1, KeyEnds
<1> QED
  BY <1>1, KeyFirst, KeyIssued, KeyCompleted, KeyTold, KeyElsewhere DEF K!Next

\* The key of a license is announced once, TelegramUpdateProcessor.handleAdminDecision and
\* TelegramLicenseDeliveryService, however many administrators approve the order at one
\* time, unless the announcement failed or was cut off; and "My key" shows nobody the key
\* of another.
THEOREM KeysAreAnnouncedOnce == SumSpec => []AnnouncedOnce
<1>1. SumInit => (part = "keys" => KeyIInv)
  BY KeyStart DEF SumInit
<1>2. (part = "keys" => KeyIInv) /\ [SumNext]_allVars => (part = "keys" => KeyIInv)'
  <2> SUFFICES ASSUME part = "keys" => KeyIInv, [SumNext]_allVars, part' = "keys"
               PROVE  KeyIInv'
    OBVIOUS
  <2>1. part = "keys" /\ KeyIInv
    BY DEF SumNext, allVars
  <2>2. CASE UNCHANGED allVars
    <3>1. UNCHANGED <<of, key, job, told, screens, unsaid>>
      BY <2>2 DEF allVars, keyVars
    <3> QED
      BY <2>1, <3>1 DEF KeyIInv, KeyTypes, KeyRight, OwnKeyShown, Announces
  <2>3. CASE SumNext
    BY <2>1, <2>3, KeyNext DEF SumNext
  <2> QED
    BY <2>2, <2>3
<1>3. (part = "keys" => KeyIInv) => AnnouncedOnce
  <2> SUFFICES ASSUME KeyIInv
               PROVE  K!AnnouncedOnce
    BY DEF AnnouncedOnce
  <2> QED
    BY DEF KeyIInv, KeyRight, OwnKeyShown, Announces, K!AnnouncedOnce
<1> QED
  BY <1>1, <1>2, <1>3, PTL DEF SumSpec

-----------------------------------------------------------------------------
\* Licenses made by hand.  The devices stand for the dialogs.

TapStages == {"idle", "period", "issue", "flow", "clear", "tell"}
Taps == [pc : TapStages, of : Devices \cup {None}]
Forms == [pc : {"closed", "open", "sent", "issued", "done", "failed"}, of : Devices \cup {None}]
Making == {"issue", "flow", "clear"}

DialogTypes ==
    /\ tap \in [Workers -> Taps]
    /\ draft.of \in Devices \cup {None}
    /\ draft.of # None => draft.step = "confirm"
    /\ form \in Forms
    /\ term \in [Devices -> {"MONTHLY", "YEARLY", None}]
    /\ issued \in [Devices -> 0 .. 2]
    /\ form.pc \in {"sent", "issued"} => form.of \in Devices

\* A dialog that nobody has begun is nowhere.
Unbegun(d) ==
    /\ draft.of # d /\ form.of # d /\ issued[d] = 0
    /\ \A w \in Workers : tap[w].of # d

\* A dialog in the bot has no form.  One handler makes its license; until it has ended
\* the dialog, the row names it, and from then on nothing does.
DialogRight(d) ==
    /\ form.of = d => draft.of # d /\ \A w \in Workers : tap[w].of # d
    /\ form.of = d /\ form.pc = "sent" => issued[d] = 0
    /\ \A v, w \in Workers : /\ tap[v].of = d /\ tap[v].pc \in Making
                             /\ tap[w].of = d /\ tap[w].pc \in Making
                             => v = w
    /\ \A w \in Workers : tap[w].of = d /\ tap[w].pc = "issue" => issued[d] = 0
    /\ draft.of = d /\ issued[d] > 0
         => \E w \in Workers : tap[w].of = d /\ tap[w].pc \in {"flow", "clear"}
    /\ issued[d] <= 1

DialogIInv ==
    /\ DialogTypes
    /\ \A d \in Devices : term[d] = None => Unbegun(d)
    /\ \A d \in Devices \ (twice \cup lost) : DialogRight(d)

LEMMA NoDialogIsNone == None \notin Devices /\ None \notin I!Periods
BY ScreensAssumption DEF I!IssueDialogAssumption

\* One handler goes on with the row r; no license is made.
LEMMA DialogMoves ==
    ASSUME DialogIInv, NEW w \in Workers, NEW r \in Taps, tap' = [tap EXCEPT ![w] = r],
           UNCHANGED <<form, term, issued>>, lost \subseteq lost', twice \subseteq twice',
           draft' = draft \/ draft'.of = None,
           \A d \in Devices : r.of = d => tap[w].of = d \/ draft.of = d,
           \A d \in Devices \ (twice' \cup lost') : r.of = d /\ r.pc \in Making =>
              \/ tap[w].of = d /\ tap[w].pc \in Making
              \/ \A v \in Workers \ {w} : ~(tap[v].of = d /\ tap[v].pc \in Making),
           \A d \in Devices \ (twice' \cup lost') : r.of = d /\ r.pc = "issue" => issued[d] = 0,
           \A d \in Devices \ (twice' \cup lost') :
              tap[w].of = d /\ tap[w].pc \in {"flow", "clear"}
                => draft'.of # d \/ (r.of = d /\ r.pc \in {"flow", "clear"})
    PROVE  DialogIInv'
<1>1. /\ tap' \in [Workers -> Taps] /\ tap'[w] = r
      /\ \A v \in Workers \ {w} : tap'[v] = tap[v]
  BY DEF DialogIInv, DialogTypes
<1>2. DialogTypes'
  BY <1>1 DEF DialogIInv, DialogTypes
<1>n. \A d \in Devices : draft'.of = d => draft.of = d
  BY NoDialogIsNone
<1>3. ASSUME NEW d \in Devices, term'[d] = None
      PROVE  Unbegun(d)'
  <2>1. Unbegun(d)
    BY <1>3 DEF DialogIInv
  <2> QED
    BY <1>1, <1>n, <2>1 DEF Unbegun
<1>4. ASSUME NEW d \in Devices \ (twice' \cup lost')
      PROVE  DialogRight(d)'
  <2>1. DialogRight(d)
    BY <1>4 DEF DialogIInv
  <2>2. form'.of = d => draft'.of # d /\ \A v \in Workers : tap'[v].of # d
    BY <1>1, <1>n, <2>1 DEF DialogRight
  <2>3. ASSUME NEW u \in Workers, NEW v \in Workers, tap'[u].of = d, tap'[u].pc \in Making,
               tap'[v].of = d, tap'[v].pc \in Making
        PROVE  u = v
    BY <1>1, <2>1, <2>3 DEF DialogRight
  <2>4. \A v \in Workers : tap'[v].of = d /\ tap'[v].pc = "issue" => issued'[d] = 0
    BY <1>1, <2>1 DEF DialogRight
  <2>5. draft'.of = d /\ issued'[d] > 0
         => \E v \in Workers : tap'[v].of = d /\ tap'[v].pc \in {"flow", "clear"}
    <3> SUFFICES ASSUME draft'.of = d, issued[d] > 0
                 PROVE  \E v \in Workers : tap'[v].of = d /\ tap'[v].pc \in {"flow", "clear"}
      OBVIOUS
    <3>1. PICK v \in Workers : tap[v].of = d /\ tap[v].pc \in {"flow", "clear"}
      BY <1>n, <2>1 DEF DialogRight
    <3>2. CASE v = w
      BY <1>1, <3>1, <3>2
    <3>3. CASE v # w
      BY <1>1, <3>1, <3>3
    <3> QED
      BY <3>2, <3>3
  <2> QED
    BY <2>1, <2>2, <2>3, <2>4, <2>5 DEF DialogRight
<1> QED
  BY <1>2, <1>3, <1>4 DEF DialogIInv

\* The handlers that make no license.
LEMMA DialogTaps ==
    ASSUME DialogIInv, NEW w \in Workers,
           I!AskConfirm(w) \/ I!CheckFlow(w) \/ I!ClearFlow(w) \/ I!TellKey(w) \/ I!Crash(w)
    PROVE  DialogIInv'
<1>t. tap[w] \in Taps /\ draft.of \in Devices \cup {None}
  BY DEF DialogIInv, DialogTypes
<1>i. I!Idle \in Taps /\ I!Idle.of = None /\ I!Idle.pc = "idle"
  BY DEF I!Idle, Taps, TapStages
<1>u. UNCHANGED <<form, term, issued>>
  BY DEF I!AskConfirm, I!CheckFlow, I!ClearFlow, I!TellKey, I!Crash
<1>1. CASE I!AskConfirm(w) \/ I!TellKey(w) \/ I!Crash(w)
  <2>1. /\ tap' = [tap EXCEPT ![w] = I!Idle] /\ UNCHANGED draft
        /\ lost \subseteq lost' /\ twice \subseteq twice'
    BY <1>1 DEF I!AskConfirm, I!TellKey, I!Crash, I!Finish
  <2>2. \A d \in Devices : I!Idle.of # d
    BY <1>i, NoDialogIsNone
  <2>3. \A d \in Devices \ (twice' \cup lost') :
           ~(tap[w].of = d /\ tap[w].pc \in {"flow", "clear"})
    BY <1>1, <1>t, NoDialogIsNone DEF I!AskConfirm, I!TellKey, I!Crash, I!At
  <2> QED
    BY <1>i, <1>u, <2>1, <2>2, <2>3, DialogMoves
<1>2. CASE I!CheckFlow(w) \/ I!ClearFlow(w)
  <2>1. PICK s \in {"clear", "tell"} :
           /\ I!Goto(w, s) /\ tap[w].pc \in {"flow", "clear"}
           /\ UNCHANGED <<lost, twice>>
           /\ draft' = draft \/ draft'.of = None
           /\ s = "tell" => draft'.of = None
    <3>1. CASE I!CheckFlow(w) /\ I!FlowIsOpen(draft.step)
      BY <3>1 DEF I!CheckFlow, I!At
    <3>2. CASE I!CheckFlow(w) /\ ~I!FlowIsOpen(draft.step)
      <4>1. draft.of = None
        BY <3>2 DEF I!FlowIsOpen, I!Outside, DialogIInv, DialogTypes
      <4> QED
        BY <3>2, <4>1 DEF I!CheckFlow, I!At
    <3>3. CASE I!ClearFlow(w)
      BY <3>3 DEF I!ClearFlow, I!At, I!Draft
    <3> QED
      BY <1>2, <3>1, <3>2, <3>3
  <2> DEFINE r == [tap[w] EXCEPT !.pc = s]
  <2>2. r \in Taps /\ r.pc = s /\ r.of = tap[w].of /\ tap' = [tap EXCEPT ![w] = r]
    BY <1>t, <2>1 DEF I!Goto, Taps, TapStages
  <2> HIDE DEF r
  <2>3. \A d \in Devices : draft'.of = d => s = "clear"
    BY <2>1, NoDialogIsNone
  <2>4. \A d \in Devices \ (twice' \cup lost') :
              tap[w].of = d /\ tap[w].pc \in {"flow", "clear"}
                => draft'.of # d \/ (r.of = d /\ r.pc \in {"flow", "clear"})
    BY <2>1, <2>2, <2>3
  <2>5. r.pc # "issue" /\ tap[w].pc \in Making
    BY <2>1, <2>2 DEF Making
  <2> QED
    BY <1>u, <2>1, <2>2, <2>4, <2>5, DialogMoves
<1> QED
  BY <1>1, <1>2

\* "Create" takes the dialog of the row, which has made its license only while a handler
\* that will end it is under way.
LEMMA DialogPressed ==
    ASSUME DialogIInv, NEW w \in Workers, I!PressCreate(w)
    PROVE  DialogIInv'
<1>0. [pc |-> "issue", of |-> I!Source] \in Taps
  BY DEF I!Source, DialogIInv, DialogTypes, Taps, TapStages
<1>p. PICK r \in Taps : r = [pc |-> "issue", of |-> I!Source]
  BY <1>0
<1>1. /\ tap[w].pc = "idle" /\ tap' = [tap EXCEPT ![w] = r]
      /\ UNCHANGED <<draft, form, term, issued, lost>>
      /\ twice' = twice \cup {d \in {I!Source} \ {None} : I!Beside(w, d)}
  BY <1>p DEF I!PressCreate, I!At
<1>2. r.pc = "issue" /\ r.of = I!Source
  BY <1>p
<1>3. \A d \in Devices : r.of = d => draft.of = d
  BY <1>2, NoDialogIsNone DEF I!Source
<1>4. ASSUME NEW d \in Devices \ (twice' \cup lost'), r.of = d
      PROVE  /\ \A v \in Workers \ {w} : ~(tap[v].of = d /\ tap[v].pc \in Making)
             /\ issued[d] = 0
  <2>1. ~I!Beside(w, d)
    BY <1>1, <1>2, <1>4, NoDialogIsNone
  <2>2. \A v \in Workers \ {w} : ~(tap[v].of = d /\ tap[v].pc \in Making)
    BY <2>1 DEF I!Beside, Making
  <2>3. DialogRight(d) /\ draft.of = d
    BY <1>1, <1>3, <1>4 DEF DialogIInv
  <2>4. ~(issued[d] > 0)
    BY <1>1, <2>2, <2>3 DEF DialogRight, Making
  <2>5. issued[d] \in 0 .. 2
    BY DEF DialogIInv, DialogTypes
  <2> QED
    BY <2>2, <2>4, <2>5
<1>5. twice \subseteq twice' /\ lost \subseteq lost' /\ draft' = draft
  BY <1>1
<1>6. \A d \in Devices : ~(tap[w].of = d /\ tap[w].pc \in {"flow", "clear"})
  BY <1>1
<1>7. \A d \in Devices \ (twice' \cup lost') : r.of = d =>
        issued[d] = 0 /\ \A v \in Workers \ {w} : ~(tap[v].of = d /\ tap[v].pc \in Making)
  BY <1>4
<1>8. \A d \in Devices \ (twice' \cup lost') : r.of = d /\ r.pc \in Making =>
         \A v \in Workers \ {w} : ~(tap[v].of = d /\ tap[v].pc \in Making)
  BY <1>7
<1>9. UNCHANGED <<form, term, issued>> /\ tap' = [tap EXCEPT ![w] = r]
  BY <1>1
<1>a. \A d \in Devices : r.of = d => tap[w].of = d \/ draft.of = d
  BY <1>3
<1>b. \A d \in Devices \ (twice' \cup lost') : r.of = d /\ r.pc = "issue" => issued[d] = 0
  BY <1>7
<1>c. \A d \in Devices \ (twice' \cup lost') :
              tap[w].of = d /\ tap[w].pc \in {"flow", "clear"}
                => draft'.of # d \/ (r.of = d /\ r.pc \in {"flow", "clear"})
  BY <1>6
<1> QED
  BY <1>5, <1>8, <1>9, <1>a, <1>b, <1>c, DialogMoves

\* The license of the dialog d is made by its handler,
LEMMA DialogIssued ==
    ASSUME DialogIInv, NEW w \in Workers, I!IssueLicense(w)
    PROVE  DialogIInv'
<1> DEFINE d == tap[w].of
           r == [tap[w] EXCEPT !.pc = "flow"]
<1>t. tap \in [Workers -> Taps] /\ issued \in [Devices -> 0 .. 2]
  BY DEF DialogIInv, DialogTypes
<1>1. /\ tap[w].pc = "issue" /\ issued' = I!Counted(d)
      /\ UNCHANGED <<draft, form, term, lost, twice>>
      /\ r \in Taps /\ r.pc = "flow" /\ r.of = d /\ tap' = [tap EXCEPT ![w] = r]
  BY <1>t DEF I!IssueLicense, I!At, I!Goto, Taps, TapStages
<1>2. /\ issued' \in [Devices -> 0 .. 2]
      /\ \A e \in Devices \ {d} : issued'[e] = issued[e]
      /\ \A e \in Devices : e = d /\ issued[e] = 0 => issued'[e] = 1
  BY <1>t, <1>1 DEF I!Counted
<1>3. /\ tap' \in [Workers -> Taps] /\ tap'[w] = r
      /\ \A v \in Workers \ {w} : tap'[v] = tap[v]
  BY <1>t, <1>1
<1>4. DialogTypes'
  BY <1>1, <1>2, <1>3 DEF DialogIInv, DialogTypes
<1>5. ASSUME NEW e \in Devices, term'[e] = None
      PROVE  Unbegun(e)'
  <2>1. Unbegun(e) /\ e # d
    BY <1>1, <1>5 DEF DialogIInv, Unbegun
  <2> QED
    BY <1>1, <1>2, <1>3, <2>1 DEF Unbegun
<1>6. ASSUME NEW e \in Devices \ (twice' \cup lost')
      PROVE  DialogRight(e)'
  <2>1. DialogRight(e)
    BY <1>1, <1>6 DEF DialogIInv
  <2>2. CASE e # d
    BY <1>1, <1>2, <1>3, <2>1, <2>2 DEF DialogRight, Making
  <2>3. CASE e = d
    <3>1. issued[e] = 0 /\ issued'[e] = 1 /\ form.of # e
      BY <1>1, <1>2, <2>1, <2>3 DEF DialogRight
    <3>2. \A v \in Workers \ {w} : ~(tap'[v].of = e /\ tap'[v].pc \in Making)
      BY <1>1, <1>3, <2>1, <2>3 DEF DialogRight, Making
    <3>3. tap'[w].of = e /\ tap'[w].pc = "flow"
      BY <1>1, <1>3, <2>3
    <3> QED
      BY <1>1, <3>1, <3>2, <3>3 DEF DialogRight, Making
  <2> QED
    BY <2>2, <2>3
<1> QED
  BY <1>4, <1>5, <1>6 DEF DialogIInv

\* or by its form.
LEMMA DialogByForm ==
    ASSUME DialogIInv, I!CreateManual
    PROVE  DialogIInv'
<1> DEFINE d == form.of
<1>t. /\ form \in Forms /\ issued \in [Devices -> 0 .. 2]
      /\ form.pc = "sent" /\ d \in Devices
  BY DEF DialogIInv, DialogTypes, I!CreateManual
<1>1. /\ issued' = I!Counted(d) /\ UNCHANGED <<draft, tap, term, lost, twice>>
      /\ form' \in Forms /\ form'.pc = "issued" /\ form'.of = d
  BY <1>t DEF I!CreateManual, Forms
<1>2. /\ issued' \in [Devices -> 0 .. 2]
      /\ \A e \in Devices \ {d} : issued'[e] = issued[e]
      /\ issued[d] = 0 => issued'[d] = 1
  BY <1>t, <1>1 DEF I!Counted
<1>3. DialogTypes'
  BY <1>t, <1>1, <1>2 DEF DialogIInv, DialogTypes
<1>4. ASSUME NEW e \in Devices, term'[e] = None
      PROVE  Unbegun(e)'
  <2>1. Unbegun(e) /\ e # d
    BY <1>1, <1>4 DEF DialogIInv, Unbegun
  <2> QED
    BY <1>1, <1>2, <2>1 DEF Unbegun
<1>5. ASSUME NEW e \in Devices \ (twice' \cup lost')
      PROVE  DialogRight(e)'
  <2>1. DialogRight(e)
    BY <1>1, <1>5 DEF DialogIInv
  <2>2. CASE e # d
    BY <1>1, <1>2, <2>1, <2>2 DEF DialogRight
  <2>3. CASE e = d
    <3>1. issued[e] = 0 /\ issued'[e] = 1 /\ draft.of # e /\ \A v \in Workers : tap[v].of # e
      BY <1>t, <1>2, <2>1, <2>3 DEF DialogRight
    <3> QED
      BY <1>1, <3>1 DEF DialogRight
  <2> QED
    BY <2>2, <2>3
<1> QED
  BY <1>3, <1>4, <1>5 DEF DialogIInv

\* A new dialog d begins, by a choice of a duration in the bot or a form that is sent.
LEMMA DialogBegins ==
    ASSUME DialogIInv, NEW d \in Devices, NEW p \in I!Periods, term[d] = None,
           term' = [term EXCEPT ![d] = p], UNCHANGED <<issued, lost, twice>>,
           \/ /\ form' = [pc |-> "sent", of |-> d] /\ UNCHANGED <<draft, tap>>
           \/ /\ \E w \in Workers : /\ tap' = [tap EXCEPT ![w] = [pc |-> "period", of |-> d]]
                                    /\ tap[w].pc = "idle"
              /\ draft' = I!Draft("confirm", d) /\ UNCHANGED form
    PROVE  DialogIInv'
<1>t. /\ tap \in [Workers -> Taps] /\ form \in Forms /\ issued \in [Devices -> 0 .. 2]
      /\ term \in [Devices -> {"MONTHLY", "YEARLY", None}] /\ Unbegun(d)
  BY DEF DialogIInv, DialogTypes
<1>1. /\ term' \in [Devices -> {"MONTHLY", "YEARLY", None}] /\ term'[d] # None
      /\ \A e \in Devices \ {d} : term'[e] = term[e]
  BY <1>t, NoDialogIsNone DEF I!Periods
<1>2. CASE form' = [pc |-> "sent", of |-> d] /\ UNCHANGED <<draft, tap>>
  <2>1. form' \in Forms /\ form'.pc = "sent" /\ form'.of = d
    BY <1>2 DEF Forms
  <2>2. DialogTypes'
    BY <1>1, <1>2, <2>1 DEF DialogIInv, DialogTypes
  <2>3. ASSUME NEW e \in Devices, term'[e] = None
        PROVE  Unbegun(e)'
    BY <1>1, <1>2, <2>1, <2>3 DEF DialogIInv, Unbegun
  <2>4. ASSUME NEW e \in Devices \ (twice' \cup lost')
        PROVE  DialogRight(e)'
    <3>1. DialogRight(e)
      BY <2>4 DEF DialogIInv
    <3>2. e = d => issued[e] = 0 /\ draft.of # e /\ \A v \in Workers : tap[v].of # e
      BY <1>t DEF Unbegun
    <3> QED
      BY <1>2, <2>1, <3>1, <3>2 DEF DialogRight
  <2> QED
    BY <2>2, <2>3, <2>4 DEF DialogIInv
<1>3. ASSUME NEW w \in Workers, tap' = [tap EXCEPT ![w] = [pc |-> "period", of |-> d]],
             tap[w].pc = "idle", draft' = I!Draft("confirm", d), UNCHANGED form
      PROVE  DialogIInv'
  <2>1. /\ tap' \in [Workers -> Taps] /\ tap'[w].pc = "period" /\ tap'[w].of = d
        /\ \A v \in Workers \ {w} : tap'[v] = tap[v]
    BY <1>t, <1>3 DEF Taps, TapStages
  <2>2. draft'.of = d /\ draft'.step = "confirm"
    BY <1>3 DEF I!Draft
  <2>3. DialogTypes'
    BY <1>1, <1>3, <2>1, <2>2 DEF DialogIInv, DialogTypes
  <2>4. ASSUME NEW e \in Devices, term'[e] = None
        PROVE  Unbegun(e)'
    BY <1>1, <1>3, <2>1, <2>2, <2>4 DEF DialogIInv, Unbegun
  <2>5. ASSUME NEW e \in Devices \ (twice' \cup lost')
        PROVE  DialogRight(e)'
    <3>1. DialogRight(e)
      BY <2>5 DEF DialogIInv
    <3>2. e = d => issued[e] = 0 /\ form.of # e /\ \A v \in Workers : tap[v].of # e
      BY <1>t DEF Unbegun
    <3>3. \A v \in Workers : tap'[v].pc \in {"issue", "flow", "clear"} => v # w /\ tap'[v] = tap[v]
      BY <2>1
    <3>4. \A v \in Workers : tap[v].pc \in {"flow", "clear"} => tap'[v] = tap[v]
      BY <1>3, <2>1
    <3>5. \A v \in Workers : e # d /\ tap'[v].of = e => tap[v].of = e
      BY <2>1
    <3> QED
      BY <1>3, <2>1, <2>2, <3>1, <3>2, <3>3, <3>4, <3>5 DEF DialogRight, Making
  <2> QED
    BY <2>3, <2>4, <2>5 DEF DialogIInv
<1> QED
  BY <1>2, <1>3

\* The row is written by another step or flow, and what the form does besides.
LEMMA DialogLeaves ==
    ASSUME DialogIInv, UNCHANGED <<tap, term, issued, twice>>,
           \/ draft' = draft
           \/ draft'.of = None,
           \/ UNCHANGED <<form, lost>>
           \/ I!OpenForm \/ I!ShowKey \/ I!FailForm
    PROVE  DialogIInv'
<1>n. /\ draft'.of \in {draft.of, None} /\ (draft'.of # None => draft' = draft)
      /\ \A d \in Devices : draft'.of = d => draft.of = d
  BY NoDialogIsNone
<1>1. /\ form' \in Forms /\ lost \subseteq lost'
      /\ form'.pc \in {"sent", "issued"} => form'.of \in Devices
      /\ \A d \in Devices : form'.of = d => form.of = d
      /\ form'.pc = "sent" => form' = form
  BY NoDialogIsNone DEF I!OpenForm, I!ShowKey, I!FailForm, DialogIInv, DialogTypes, Forms
<1>2. DialogTypes'
  BY <1>n, <1>1 DEF DialogIInv, DialogTypes
<1>3. ASSUME NEW d \in Devices, term'[d] = None
      PROVE  Unbegun(d)'
  BY <1>n, <1>1, <1>3 DEF DialogIInv, Unbegun
<1>4. ASSUME NEW d \in Devices \ (twice' \cup lost')
      PROVE  DialogRight(d)'
  <2>1. DialogRight(d)
    BY <1>1, <1>4 DEF DialogIInv
  <2> QED
    BY <1>n, <1>1, <2>1 DEF DialogRight
<1> QED
  BY <1>2, <1>3, <1>4 DEF DialogIInv

LEMMA DialogStart ==
    ASSUME I!Init
    PROVE  DialogIInv
<1>1. DialogTypes
  BY DEF I!Init, DialogTypes, I!Idle, I!Draft, Taps, TapStages, Forms
<1>2. \A d \in Devices : Unbegun(d) /\ DialogRight(d)
  BY NoDialogIsNone DEF I!Init, Unbegun, DialogRight, I!Idle, I!Draft, Making
<1> QED
  BY <1>1, <1>2 DEF DialogIInv

LEMMA DialogNext ==
    ASSUME DialogIInv, I!Next
    PROVE  DialogIInv'
<1>1. CASE I!OpenDialog \/ I!PickPlan \/ I!LeaveDialog
  <2>1. draft'.of = None /\ UNCHANGED <<form, tap, term, issued, lost, twice>>
    BY <1>1 DEF I!OpenDialog, I!PickPlan, I!LeaveDialog, I!WriteDraft, I!Draft
  <2> QED
    BY <2>1, DialogLeaves
<1>2. ASSUME NEW w \in Workers, NEW p \in I!Periods, I!PickPeriod(w, p)
      PROVE  DialogIInv'
  <2>1. PICK d \in I!Fresh : /\ draft' = I!Draft("confirm", d)
                             /\ term' = [term EXCEPT ![d] = p]
                             /\ tap' = [tap EXCEPT ![w] = [pc |-> "period", of |-> d]]
    BY <1>2 DEF I!PickPeriod
  <2>2. /\ d \in Devices /\ term[d] = None /\ tap[w].pc = "idle"
        /\ UNCHANGED <<form, issued, lost, twice>>
    BY <1>2 DEF I!PickPeriod, I!Fresh, I!At
  <2> QED
    BY <2>1, <2>2, DialogBegins
<1>3. ASSUME NEW p \in I!Periods, I!SubmitForm(p)
      PROVE  DialogIInv'
  <2>1. PICK d \in I!Fresh : /\ form' = [pc |-> "sent", of |-> d]
                             /\ term' = [term EXCEPT ![d] = p]
    BY <1>3 DEF I!SubmitForm
  <2>2. d \in Devices /\ term[d] = None /\ UNCHANGED <<draft, tap, issued, lost, twice>>
    BY <1>3 DEF I!SubmitForm, I!Fresh
  <2> QED
    BY <2>1, <2>2, DialogBegins
<1>4. CASE I!OpenForm \/ I!ShowKey \/ I!FailForm
  <2>1. UNCHANGED <<draft, tap, term, issued, twice>>
    BY <1>4 DEF I!OpenForm, I!ShowKey, I!FailForm
  <2> QED
    BY <1>4, <2>1, DialogLeaves
<1> QED
  BY <1>1, <1>2, <1>3, <1>4, DialogTaps, DialogPressed, DialogIssued, DialogByForm DEF I!Next

\* A choice of a duration, in the dialog of the bot or the form of the panel, makes one
\* license, however often "create" is pressed and whatever takes the session row
\* meanwhile, unless two presses were handled at one time or a call failed.
THEOREM DialogsMakeOneLicense == SumSpec => []OncePerDialog
<1>1. SumInit => (part = "dialog" => DialogIInv)
  BY DialogStart DEF SumInit
<1>2. (part = "dialog" => DialogIInv) /\ [SumNext]_allVars => (part = "dialog" => DialogIInv)'
  <2> SUFFICES ASSUME part = "dialog" => DialogIInv, [SumNext]_allVars, part' = "dialog"
               PROVE  DialogIInv'
    OBVIOUS
  <2>1. part = "dialog" /\ DialogIInv
    BY DEF SumNext, allVars
  <2>2. CASE UNCHANGED allVars
    <3>1. UNCHANGED <<draft, form, tap, term, issued, lost, twice>>
      BY <2>2 DEF allVars, issueVars
    <3> QED
      BY <2>1, <3>1, DialogLeaves
  <2>3. CASE SumNext
    BY <2>1, <2>3, DialogNext DEF SumNext
  <2> QED
    BY <2>2, <2>3
<1>3. (part = "dialog" => DialogIInv) => OncePerDialog
  <2> SUFFICES ASSUME DialogIInv, NEW d \in Devices \ (twice \cup lost)
               PROVE  ~(issued[d] > 1)
    BY DEF OncePerDialog, I!OncePerDialog
  <2>1. issued[d] <= 1 /\ issued[d] \in 0 .. 2
    BY DEF DialogIInv, DialogTypes, DialogRight
  <2> QED
    BY <2>1
<1> QED
  BY <1>1, <1>2, <1>3, PTL DEF SumSpec

-----------------------------------------------------------------------------
\* The screens of licenses in the bot.

Updates == [pc : {"idle", "find", "disconnect", "revoke", "activate"},
            who : Customers \cup {None}, dev : Phones \cup {None}]

Question(d) == B!Button("disconnect", d)

\* Who can still disconnect a device, by a button of the chat or by an update in
\* progress, was asked about it.
ScreensIInv ==
    /\ update \in [Workers -> Updates]
    /\ chat \in [Customers -> SUBSET B!Buttons]
    /\ device \in [Phones -> {"none", "active", "revoked"}]
    /\ gone \in [Phones -> Customers \cup {None}]
    /\ \A w \in Workers : update[w].pc \in {"find", "disconnect"}
                            => update[w].dev \in Phones /\ <<update[w].who, update[w].dev>> \in asked
    /\ \A w \in Workers : update[w].pc = "activate" => update[w].dev \in Phones
    /\ \A a \in Customers, d \in Phones : Question(d) \in chat[a] => <<a, d>> \in asked
    /\ \A d \in Phones : gone[d] # None => <<gone[d], d>> \in asked

LEMMA ScreenUpdates ==
    ASSUME ScreensIInv, NEW w \in Workers, NEW r \in Updates, update' = [update EXCEPT ![w] = r],
           r.pc \in {"find", "disconnect"} => r.dev \in Phones /\ <<r.who, r.dev>> \in asked,
           r.pc = "activate" => r.dev \in Phones,
           UNCHANGED <<chat, asked>>,
           device' \in [Phones -> {"none", "active", "revoked"}],
           gone' \in [Phones -> Customers \cup {None}],
           \A d \in Phones : \/ gone'[d] \in {gone[d], None}
                             \/ <<gone'[d], d>> \in asked
    PROVE  ScreensIInv'
<1>1. /\ update' \in [Workers -> Updates] /\ update'[w] = r
      /\ \A v \in Workers \ {w} : update'[v] = update[v]
  BY DEF ScreensIInv
<1>2. \A v \in Workers : update'[v].pc \in {"find", "disconnect"}
        => update'[v].dev \in Phones /\ <<update'[v].who, update'[v].dev>> \in asked'
  BY <1>1 DEF ScreensIInv
<1>3. \A v \in Workers : update'[v].pc = "activate" => update'[v].dev \in Phones
  BY <1>1 DEF ScreensIInv
<1>4. \A d \in Phones : gone'[d] # None => <<gone'[d], d>> \in asked'
  BY DEF ScreensIInv
<1>5. \A a \in Customers, d \in Phones : (Question(d) \in chat[a])' => <<a, d>> \in asked'
  BY DEF ScreensIInv, Question, B!Button
<1> QED
  BY <1>1, <1>2, <1>3, <1>4, <1>5 DEF ScreensIInv

LEMMA ScreenHandlers ==
    ASSUME ScreensIInv, NEW w \in Workers,
           \/ B!FindDevice(w) \/ B!Disconnect(w) \/ B!PressRevoke(w) \/ B!RevokeLicense(w)
           \/ B!Activate(w) \/ B!Crash(w)
           \/ \E d \in Phones : B!BeginActivate(w, d)
           \/ \E a \in Customers, d \in Phones : B!PressDisconnect(w, a, d)
    PROVE  ScreensIInv'
<1>t. /\ update[w] \in Updates /\ device \in [Phones -> {"none", "active", "revoked"}]
      /\ gone \in [Phones -> Customers \cup {None}]
  BY DEF ScreensIInv
<1>i. B!Idle \in Updates /\ B!Idle.pc = "idle"
  BY DEF B!Idle, Updates
<1>1. CASE B!FindDevice(w) \/ B!PressRevoke(w)
  <2>1. CASE update' = [update EXCEPT ![w] = B!Idle]
    BY <1>1, <1>t, <1>i, <2>1, ScreenUpdates DEF B!FindDevice, B!PressRevoke, B!rows
  <2>2. ASSUME NEW s \in {"disconnect", "revoke"}, B!Goto(w, s),
               s = "disconnect" => update[w].pc = "find"
        PROVE  ScreensIInv'
    <3> DEFINE r == [update[w] EXCEPT !.pc = s]
    <3>1. /\ r \in Updates /\ r.pc = s /\ r.who = update[w].who /\ r.dev = update[w].dev
          /\ update' = [update EXCEPT ![w] = r]
      BY <1>t, <2>2 DEF B!Goto, Updates
    <3> HIDE DEF r
    <3>2. r.pc \in {"find", "disconnect"} => r.dev \in Phones /\ <<r.who, r.dev>> \in asked
      BY <2>2, <3>1 DEF ScreensIInv
    <3>3. UNCHANGED <<chat, asked, device, gone>> /\ r.pc # "activate"
      BY <1>1, <2>2, <3>1 DEF B!FindDevice, B!PressRevoke, B!rows
    <3> QED
      BY <1>t, <3>1, <3>2, <3>3, ScreenUpdates
  <2> QED
    BY <1>1, <2>1, <2>2 DEF B!FindDevice, B!PressRevoke, B!At, B!Finish
<1>2. CASE B!Disconnect(w)
  <2>1. /\ update[w].dev \in Phones /\ <<update[w].who, update[w].dev>> \in asked
        /\ update' = [update EXCEPT ![w] = B!Idle] /\ UNCHANGED <<chat, asked>>
        /\ device' = [device EXCEPT ![update[w].dev] = "revoked"]
        /\ gone' = [gone EXCEPT ![update[w].dev] = update[w].who]
    BY <1>2 DEF B!Disconnect, B!At, B!Finish, ScreensIInv
  <2>2. /\ device' \in [Phones -> {"none", "active", "revoked"}]
        /\ gone' \in [Phones -> Customers \cup {None}]
        /\ \A d \in Phones : gone'[d] = gone[d] \/ <<gone'[d], d>> \in asked
    BY <1>t, <2>1 DEF Updates
  <2> QED
    BY <1>i, <2>1, <2>2, ScreenUpdates
<1>3. CASE B!RevokeLicense(w) \/ B!Activate(w) \/ B!Crash(w)
  <2>1. /\ update' = [update EXCEPT ![w] = B!Idle] /\ UNCHANGED <<chat, asked>>
    BY <1>3 DEF B!RevokeLicense, B!Activate, B!Crash, B!Finish
  <2>2. /\ device' \in [Phones -> {"none", "active", "revoked"}]
        /\ gone' \in [Phones -> Customers \cup {None}]
        /\ \A d \in Phones : gone'[d] \in {gone[d], None}
    BY <1>3, <1>t DEF B!RevokeLicense, B!Activate, B!Crash, B!rows, B!At, ScreensIInv
  <2> QED
    BY <1>i, <2>1, <2>2, ScreenUpdates
<1>4. ASSUME NEW d \in Phones, B!BeginActivate(w, d)
      PROVE  ScreensIInv'
  <2>0. [pc |-> "activate", who |-> None, dev |-> d] \in Updates
    BY DEF Updates
  <2>1. PICK r \in Updates : r = [pc |-> "activate", who |-> None, dev |-> d]
    BY <2>0
  <2>2. update' = [update EXCEPT ![w] = r] /\ UNCHANGED <<chat, asked, device, gone>>
    BY <1>4, <2>1 DEF B!BeginActivate, B!Serve, B!rows
  <2> QED
    BY <1>t, <2>1, <2>2, ScreenUpdates
<1>5. ASSUME NEW a \in Customers, NEW d \in Phones, B!PressDisconnect(w, a, d)
      PROVE  ScreensIInv'
  <2>0. [pc |-> "find", who |-> a, dev |-> d] \in Updates
    BY DEF Updates
  <2>1. PICK r \in Updates : r = [pc |-> "find", who |-> a, dev |-> d]
    BY <2>0
  <2>2. update' = [update EXCEPT ![w] = r] /\ UNCHANGED <<chat, asked, device, gone>>
    BY <1>5, <2>1 DEF B!PressDisconnect, B!Serve, B!rows
  <2>3. <<a, d>> \in asked
    BY <1>5 DEF B!PressDisconnect, B!Has, ScreensIInv, Question
  <2> QED
    BY <1>t, <2>1, <2>2, <2>3, ScreenUpdates
<1> QED
  BY <1>1, <1>2, <1>3, <1>4, <1>5

\* A screen is sent; only the one that asks has the button that disconnects.
LEMMA ScreenShown ==
    ASSUME ScreensIInv, NEW a \in Customers, NEW buttons \in SUBSET B!Buttons,
           B!Show(a, buttons),
           UNCHANGED asked /\ (\A d \in Phones : Question(d) \notin buttons)
    PROVE  ScreensIInv'
<1>1. /\ chat' \in [Customers -> SUBSET B!Buttons] /\ chat'[a] = chat[a] \cup buttons
      /\ \A b \in Customers \ {a} : chat'[b] = chat[b]
      /\ UNCHANGED <<device, gone, update>>
  BY DEF B!Show, B!rows, ScreensIInv
<1>2. \A b \in Customers, d \in Phones : Question(d)' = Question(d)
  BY DEF Question, B!Button
<1>3. \A b \in Customers, d \in Phones : Question(d) \in chat'[b] => <<b, d>> \in asked
  BY <1>1 DEF ScreensIInv
<1> QED
  BY <1>1, <1>2, <1>3 DEF ScreensIInv

LEMMA ScreensOfCustomer ==
    ASSUME ScreensIInv, NEW a \in Customers,
           \/ B!ShowMyLicenses(a) \/ B!ShowLicenseDetail(a) \/ B!ShowLicenseDevices(a)
           \/ \E d \in Phones : B!ShowDevice(a, d) \/ B!ShowDisconnectConfirm(a, d)
    PROVE  ScreensIInv'
<1>1. CASE B!ShowMyLicenses(a)
  <2>1. B!ListButtons \in SUBSET B!Buttons /\ \A d \in Phones : Question(d) \notin B!ListButtons
    BY DEF B!ListButtons, B!Button, B!Buttons, Question
  <2> QED
    BY <1>1, <2>1, ScreenShown DEF B!ShowMyLicenses
<1>2. CASE B!ShowLicenseDetail(a)
  <2> DEFINE buttons == IF held = a THEN {B!Button("devices", None)} ELSE {}
  <2>0. buttons \in SUBSET B!Buttons /\ \A d \in Phones : Question(d) \notin buttons
    BY DEF B!Button, B!Buttons, Question
  <2>1. PICK s \in SUBSET B!Buttons : s = buttons /\ \A d \in Phones : Question(d) \notin s
    BY <2>0
  <2> QED
    BY <1>2, <2>1, ScreenShown DEF B!ShowLicenseDetail
<1>3. CASE B!ShowLicenseDevices(a)
  <2> DEFINE buttons == {B!Button("device", d) : d \in B!Active}
  <2>0. buttons \in SUBSET B!Buttons /\ \A d \in Phones : Question(d) \notin buttons
    <3>1. \A d \in Phones : B!Button("device", d) \in B!Buttons
      BY DEF B!Button, B!Buttons
    <3>2. \A d, e \in Phones : Question(d) # B!Button("device", e)
      BY DEF B!Button, Question
    <3>3. B!Active \subseteq Phones
      BY DEF B!Active
    <3> QED
      BY <3>1, <3>2, <3>3
  <2>1. PICK s \in SUBSET B!Buttons : s = buttons /\ \A d \in Phones : Question(d) \notin s
    BY <2>0
  <2> QED
    BY <1>3, <2>1, ScreenShown DEF B!ShowLicenseDevices
<1>4. ASSUME NEW d \in Phones, B!ShowDevice(a, d)
      PROVE  ScreensIInv'
  <2>1. {B!Button("confirm", d)} \in SUBSET B!Buttons
        /\ \A e \in Phones : Question(e) \notin {B!Button("confirm", d)}
    BY DEF B!Button, B!Buttons, Question
  <2> QED
    BY <1>4, <2>1, ScreenShown DEF B!ShowDevice
<1>5. ASSUME NEW d \in Phones, B!ShowDisconnectConfirm(a, d)
      PROVE  ScreensIInv'
  <2>1. /\ asked' = asked \cup {<<a, d>>}
        /\ chat' = [chat EXCEPT ![a] = @ \cup {Question(d)}]
        /\ UNCHANGED <<device, gone, update>>
    BY <1>5 DEF B!ShowDisconnectConfirm, B!MayBeAsked, B!Show, B!rows, Question
  <2>2. Question(d) \in B!Buttons
    BY DEF Question, B!Button, B!Buttons
  <2>3. /\ chat' \in [Customers -> SUBSET B!Buttons] /\ chat'[a] = chat[a] \cup {Question(d)}
        /\ \A b \in Customers \ {a} : chat'[b] = chat[b]
    BY <2>1, <2>2 DEF ScreensIInv
  <2>4. \A e \in Phones : Question(e) = Question(d) => e = d
    BY DEF Question, B!Button
  <2>5. \A b \in Customers, e \in Phones : Question(e) \in chat'[b] => <<b, e>> \in asked'
    BY <2>1, <2>3, <2>4 DEF ScreensIInv
  <2>6. \A e \in Phones : Question(e)' = Question(e)
    BY DEF Question, B!Button
  <2> QED
    BY <2>1, <2>3, <2>5, <2>6 DEF ScreensIInv
<1> QED
  BY <1>1, <1>2, <1>3, <1>4, <1>5

LEMMA ScreensStart ==
    ASSUME B!Init
    PROVE  ScreensIInv
<1>1. B!Idle \in Updates /\ B!Idle.pc = "idle"
  BY DEF B!Idle, Updates
<1>2. /\ update = [w \in Workers |-> B!Idle] /\ chat = [a \in Customers |-> {}]
      /\ gone = [d \in Phones |-> None] /\ device \in [Phones -> {"none", "active"}]
  BY DEF B!Init
<1> QED
  BY <1>1, <1>2 DEF ScreensIInv

\* The rows and the chat of the customers stay, or a slot is given back.
LEMMA ScreensStay ==
    ASSUME ScreensIInv, UNCHANGED <<chat, update, asked>>,
           UNCHANGED <<device, gone>> \/ \E d \in Phones : B!GiveBack(d)
    PROVE  ScreensIInv'
<1>1. /\ device' \in [Phones -> {"none", "active", "revoked"}]
      /\ gone' \in [Phones -> Customers \cup {None}]
      /\ \A d \in Phones : gone'[d] \in {gone[d], None}
  BY DEF ScreensIInv, B!GiveBack
<1>2. \A d \in Phones : Question(d)' = Question(d)
  BY DEF Question, B!Button
<1> QED
  BY <1>1, <1>2 DEF ScreensIInv

LEMMA ScreensNext ==
    ASSUME ScreensIInv, B!Next
    PROVE  ScreensIInv'
<1>1. CASE \/ B!ShowList \/ B!ShowDetail \/ B!ShowDevices \/ B!ShowRevokeConfirm
           \/ B!ChangeHolder
  <2>1. UNCHANGED <<chat, update, asked, device, gone>>
    BY <1>1 DEF B!ShowList, B!ShowDetail, B!ShowDevices, B!ShowRevokeConfirm, B!ShowInOffice,
       B!ChangeHolder, B!rows
  <2> QED
    BY <2>1, ScreensStay
<1>2. ASSUME NEW d \in Phones, B!GiveBack(d)
      PROVE  ScreensIInv'
  <2>1. UNCHANGED <<chat, update, asked>>
    BY <1>2 DEF B!GiveBack
  <2> QED
    BY <1>2, <2>1, ScreensStay
<1> QED
  BY <1>1, <1>2, ScreensOfCustomer, ScreenHandlers DEF B!Next

\* A device loses its slot to a customer, revokeDeviceAsHolder, only after the bot has
\* asked this customer about this device while he held the license: of any number of
\* customers, devices, buttons in old messages and updates in progress.
THEOREM HoldersAreAsked == SumSpec => []AskedBeforeLost
<1>1. SumInit => (part = "screens" => ScreensIInv)
  BY ScreensStart DEF SumInit
<1>2. (part = "screens" => ScreensIInv) /\ [SumNext]_allVars => (part = "screens" => ScreensIInv)'
  <2> SUFFICES ASSUME part = "screens" => ScreensIInv, [SumNext]_allVars, part' = "screens"
               PROVE  ScreensIInv'
    OBVIOUS
  <2>1. part = "screens" /\ ScreensIInv
    BY DEF SumNext, allVars
  <2>2. CASE UNCHANGED allVars
    <3>1. UNCHANGED <<chat, update, asked, device, gone>>
      BY <2>2 DEF allVars, screenVars
    <3> QED
      BY <2>1, <3>1, ScreensStay
  <2>3. CASE SumNext
    BY <2>1, <2>3, ScreensNext DEF SumNext
  <2> QED
    BY <2>2, <2>3
<1>3. (part = "screens" => ScreensIInv) => AskedBeforeLost
  BY DEF ScreensIInv, AskedBeforeLost, B!AskedBeforeLost
<1> QED
  BY <1>1, <1>2, <1>3, PTL DEF SumSpec

=============================================================================
