------------------------ MODULE TelegramAccessProofs ------------------------
(***************************************************************************)
(* Telegram authentication for any number of accounts, challenges, links,  *)
(* grants and concurrent requests, any number of codes and any limit of    *)
(* attempts: what a grant proves, who becomes the holder of a license, and *)
(* how many guesses a code stands.  Then the links that the bot keeps      *)
(* until a language is chosen, for any number of links and updates.        *)
(***************************************************************************)
EXTENDS MCTelegramAccess, TLAPS

\* An account that entered a code which was sent to it to link the license.
Entered(a) ==
    \E g \in Grants : /\ grant[g].acct = a
                      /\ challenge[grant[g].of].purpose = "LINK_ACCOUNT"

\* A code in force was made for the account the challenge is bound to.
ChallengeIsSound(c) ==
    /\ challenge[c].state = "none" => wrong[c] = 0
    /\ challenge[c].code # 0 =>
         /\ challenge[c].acct \in Accounts
         /\ sent[c][challenge[c].code] = challenge[c].acct

GrantIsSound(g) ==
    grant[g] # NoGrant =>
        /\ grant[g].of \in Challenges
        /\ challenge[grant[g].of].state # "none"
        /\ grant[g].code \in Codes
        /\ grant[g].acct \in Accounts
        /\ sent[grant[g].of][grant[g].code] = grant[g].acct

\* What a request r remembers of the rows it has read.
Remembers(r) ==
    /\ r.pc \in {"bind", "wrong", "lock", "right"} =>
         /\ r.on \in Challenges
         /\ challenge[r.on].state # "none"
    /\ r.pc = "bind" => r.acct \in Accounts
    /\ r.pc = "wrong" =>
         /\ r.n \in 1 .. MaxAttempts
         /\ r.on \notin overlap => wrong[r.on] < r.n
    /\ r.pc = "right" =>
         /\ r.n \in Codes
         /\ r.acct \in Accounts
         /\ sent[r.on][r.n] = r.acct
    /\ r.pc \in {"judge", "write"} =>
         /\ r.acct \in Accounts
         /\ r.on \in Links \/ Entered(r.acct)
    /\ r.pc = "write" => purchaser \in {None, r.acct}

\* Two requests that judge codes of one challenge overlap, and without them
\* the attempts on record are no fewer than those made.
Judges(w, c) == req[w].pc \in {"wrong", "right"} /\ req[w].on = c
AttemptsAreCounted(c) ==
    c \notin overlap =>
        /\ wrong[c] <= challenge[c].attempts
        /\ \A v, w \in Workers : Judges(v, c) /\ Judges(w, c) => v = w

IInv ==
    /\ TypeOK
    /\ \A c \in Challenges : ChallengeIsSound(c) /\ AttemptsAreCounted(c)
    /\ \A g \in Grants : GrantIsSound(g)
    /\ \A w \in Workers : Remembers(req[w])
    /\ HolderIsProven

\* What no step undoes: the purpose of a challenge, a grant, a code on record.
RowsStay ==
    /\ \A c \in Challenges : challenge[c].state # "none" =>
         /\ challenge'[c].state # "none"
         /\ challenge'[c].purpose = challenge[c].purpose
    /\ \A g \in Grants : grant[g] # NoGrant => grant'[g] = grant[g]
    /\ \A c \in Challenges, n \in Codes :
         sent[c][n] \in Accounts => sent'[c][n] = sent[c][n]
    /\ overlap \subseteq overlap'
    /\ linkedBy \subseteq linkedBy'
    /\ purchaser' = purchaser

-----------------------------------------------------------------------------
LEMMA NoneIsNothing == /\ None \notin Accounts
                       /\ None \notin Challenges
                       /\ None \notin Links
BY AccessAssumption

LEMMA Numbers == /\ MaxAttempts \in Nat /\ MaxAttempts > 0
                 /\ MaxCodes \in Nat /\ MaxCodes > 0
BY AccessAssumption

LEMMA IdleRequest == Idle \in Requests /\ Idle.pc = "idle"
<1>1. 0 \in 0 .. MaxAttempts + MaxCodes
  BY Numbers
<1> QED
  BY <1>1 DEF Idle, Requests, Stages

\* A code that was entered stays entered.
LEMMA EnteredStays ==
    ASSUME IInv, RowsStay, NEW a \in Accounts, Entered(a)
    PROVE  Entered(a)'
<1>1. PICK g \in Grants : /\ grant[g].acct = a
                          /\ challenge[grant[g].of].purpose = "LINK_ACCOUNT"
  BY DEF Entered
<1>2. grant[g] # NoGrant
  BY <1>1, NoneIsNothing DEF NoGrant
<1>3. grant[g].of \in Challenges /\ challenge[grant[g].of].state # "none"
  BY <1>2 DEF IInv, GrantIsSound
<1> QED
  BY <1>1, <1>2, <1>3 DEF RowsStay, Entered

\* A request that takes no step goes on remembering what is true.
LEMMA OthersRemember ==
    ASSUME IInv, RowsStay, NEW v \in Workers, req'[v] = req[v],
           \A c \in Challenges \ overlap' : Judges(v, c) => wrong'[c] <= wrong[c],
           wrong' \in [Challenges -> 0 .. MaxAttempts + 1]
    PROVE  Remembers(req[v])'
<1> DEFINE r == req[v]
<1> USE DEF IInv
<1>1. Remembers(r) /\ r \in Requests
  BY DEF TypeOK
<1>2. r.pc = "wrong" =>
         /\ r.n \in 1 .. MaxAttempts
         /\ r.on \notin overlap' => wrong'[r.on] < r.n
  <2> SUFFICES ASSUME r.pc = "wrong", r.on \notin overlap'
               PROVE  wrong'[r.on] < r.n
    BY <1>1 DEF Remembers
  <2>1. r.on \in Challenges \ overlap' /\ Judges(v, r.on)
    BY <1>1 DEF Remembers, Judges
  <2>2. wrong[r.on] < r.n /\ r.n \in Nat
    BY <1>1, Numbers DEF Remembers, RowsStay
  <2>3. wrong'[r.on] <= wrong[r.on] /\ wrong'[r.on] \in Nat /\ wrong[r.on] \in Nat
    BY <2>1, Numbers DEF TypeOK
  <2> QED
    BY <2>2, <2>3
<1>3. r.pc = "right" =>
         /\ r.n \in Codes
         /\ r.acct \in Accounts
         /\ sent'[r.on][r.n] = r.acct
  BY <1>1 DEF Remembers, RowsStay
<1>4. r.pc \in {"judge", "write"} =>
         /\ r.acct \in Accounts
         /\ r.on \in Links \/ Entered(r.acct)'
  <2> SUFFICES ASSUME r.pc \in {"judge", "write"}, r.on \notin Links
               PROVE  Entered(r.acct)'
    BY <1>1 DEF Remembers
  <2>1. PICK a \in Accounts : a = r.acct /\ Entered(a)
    BY <1>1 DEF Remembers
  <2>2. Entered(a)'
    BY <2>1, EnteredStays
  <2>3. req'[v].acct = a
    BY <2>1
  <2> QED
    BY <2>2, <2>3 DEF Entered
<1>5. r.pc = "write" => purchaser' \in {None, r.acct}
  BY <1>1 DEF Remembers, RowsStay
<1>6. r.pc \in {"bind", "wrong", "lock", "right"} =>
         /\ r.on \in Challenges
         /\ challenge'[r.on].state # "none"
  BY <1>1 DEF Remembers, RowsStay
<1>7. r.pc = "bind" => r.acct \in Accounts
  BY <1>1 DEF Remembers
<1>8. req'[v] = r
  OBVIOUS
<1> QED
  BY <1>2, <1>3, <1>4, <1>5, <1>6, <1>7, <1>8 DEF Remembers, Entered

\* A holder who is proven stays so while the license keeps its holder.
LEMMA HolderStaysProven ==
    ASSUME IInv, RowsStay, holder' = holder, assigned' = assigned
    PROVE  HolderIsProven'
<1> SUFFICES ASSUME holder # None, ~assigned
             PROVE  /\ purchaser # None => holder = purchaser
                    /\ \/ holder = purchaser
                       \/ holder \in linkedBy'
                       \/ Entered(holder)'
  BY DEF HolderIsProven, Entered, RowsStay
<1>1. PICK a \in Accounts : a = holder
  BY DEF IInv, TypeOK
<1>2. /\ purchaser # None => holder = purchaser
      /\ holder = purchaser \/ holder \in linkedBy \/ Entered(a)
  BY <1>1 DEF IInv, HolderIsProven, Entered
<1>3. Entered(a) => Entered(a)'
  BY EnteredStays
<1>4. Entered(a)' => Entered(holder)'
  BY <1>1 DEF Entered
<1> QED
  BY <1>2, <1>3, <1>4 DEF RowsStay

\* A grant proves what it proved.
LEMMA GrantsStaySound ==
    ASSUME IInv, RowsStay, NEW g \in Grants, grant'[g] = grant[g]
    PROVE  GrantIsSound(g)'
BY DEF IInv, RowsStay, GrantIsSound

-----------------------------------------------------------------------------
\* Steps by what they change.

\* One request reads, and remembers what it has read.
LEMMA RequestStep ==
    ASSUME IInv, NEW w \in Workers, NEW r \in Requests,
           req' = [req EXCEPT ![w] = r],
           UNCHANGED <<license, challenge, grant, sent, wrong, claims>>,
           link' \in LinkRows, overlap \subseteq overlap', overlap' \subseteq Challenges,
           Remembers(r),
           \A v \in Workers \ {w}, c \in Challenges \ overlap' :
               Judges(v, c) => ~(r.pc \in {"wrong", "right"} /\ r.on = c)
    PROVE  IInv'
<1> USE DEF license, claims
<1>1. TypeOK'
  BY DEF IInv, TypeOK
<1>v. \A v \in Workers : req'[v] = IF v = w THEN r ELSE req[v]
  BY DEF IInv, TypeOK
<1>s. RowsStay
  BY DEF RowsStay
<1>2. \A c \in Challenges : ChallengeIsSound(c)'
  BY DEF IInv, ChallengeIsSound
<1>3. \A c \in Challenges : AttemptsAreCounted(c)'
  <2> SUFFICES ASSUME NEW c \in Challenges, c \notin overlap'
               PROVE  /\ wrong[c] <= challenge[c].attempts
                      /\ \A x, y \in Workers : (Judges(x, c) /\ Judges(y, c))' => x = y
    BY DEF AttemptsAreCounted
  <2>1. /\ wrong[c] <= challenge[c].attempts
        /\ \A x, y \in Workers : Judges(x, c) /\ Judges(y, c) => x = y
    BY DEF IInv, AttemptsAreCounted
  <2>2. \A x \in Workers \ {w} : Judges(x, c)' <=> Judges(x, c)
    BY <1>v DEF Judges
  <2>3. Judges(w, c)' <=> r.pc \in {"wrong", "right"} /\ r.on = c
    BY <1>v DEF Judges
  <2> QED
    BY <2>1, <2>2, <2>3
<1>4. \A g \in Grants : GrantIsSound(g)'
  BY <1>s, GrantsStaySound
<1>5. \A v \in Workers : Remembers(req[v])'
  <2> SUFFICES ASSUME NEW v \in Workers
               PROVE  Remembers(req[v])'
    OBVIOUS
  <2>1. CASE v = w
    <3>1. req'[v] = r
      BY <1>v, <2>1
    <3> QED
      BY <3>1 DEF Remembers, Entered
  <2>2. CASE v # w
    <3>1. \A c \in Challenges : wrong'[c] <= wrong[c]
      BY Numbers DEF IInv, TypeOK
    <3> QED
      BY <1>1, <1>v, <1>s, <2>2, <3>1, OthersRemember DEF TypeOK
  <2> QED
    BY <2>1, <2>2
<1>6. HolderIsProven'
  BY <1>s, HolderStaysProven
<1> QED
  BY <1>1, <1>2, <1>3, <1>4, <1>5, <1>6 DEF IInv

LEMMA FinishStep ==
    ASSUME IInv, NEW w \in Workers, Finish(w), link' \in LinkRows,
           UNCHANGED <<license, challenge, grant, sent, guesses, claims>>
    PROVE  IInv'
<1>1. Remembers(Idle)
  BY IdleRequest DEF Remembers
<1>2. overlap' \subseteq Challenges
  BY DEF IInv, TypeOK, guesses
<1> QED
  BY <1>1, <1>2, IdleRequest, RequestStep DEF Finish, guesses

\* The license, or a link of it, changes by another hand.
LEMMA LicenseStep ==
    ASSUME IInv, TypeOK', HolderIsProven',
           UNCHANGED <<purchaser, challenge, grant, req, sent, guesses, linkedBy>>
    PROVE  IInv'
<1> USE DEF guesses
<1>s. RowsStay
  BY DEF RowsStay
<1>1. \A c \in Challenges : (ChallengeIsSound(c) /\ AttemptsAreCounted(c))'
  BY DEF IInv, ChallengeIsSound, AttemptsAreCounted, Judges
<1>2. \A g \in Grants : GrantIsSound(g)'
  BY <1>s, GrantsStaySound
<1>3. \A c \in Challenges : wrong'[c] <= wrong[c]
  BY Numbers DEF IInv, TypeOK
<1>4. \A v \in Workers : Remembers(req[v])'
  BY <1>s, <1>3, OthersRemember DEF TypeOK
<1> QED
  BY <1>1, <1>2, <1>4 DEF IInv

\* One challenge changes, and with it the request that changes it.
ChangesChallenge(c) ==
    /\ \A d \in Challenges \ {c} : challenge'[d] = challenge[d] /\ wrong'[d] = wrong[d]
    /\ challenge'[c].purpose = challenge[c].purpose \/ challenge[c].state = "none"
    /\ challenge'[c].state # "none"
    /\ challenge'[c].code # 0 =>
         /\ challenge'[c].acct \in Accounts
         /\ sent'[c][challenge'[c].code] = challenge'[c].acct
    /\ \A d \in Challenges, n \in Codes :
         sent[d][n] \in Accounts => sent'[d][n] = sent[d][n]
    /\ c \notin overlap =>
         /\ wrong'[c] <= challenge'[c].attempts
         /\ \A v \in Workers : req'[v] = req[v] /\ Judges(v, c) => wrong'[c] <= wrong[c]
    /\ \A v \in Workers :
         \/ req'[v] = req[v]
         \/ req'[v].pc \notin {"wrong", "right"} /\ Remembers(req[v])'
    /\ \A g \in Grants :
         \/ grant'[g] = grant[g]
         \/ grant[g] = NoGrant /\ GrantIsSound(g)'
    /\ UNCHANGED <<license, link, overlap, claims>>

LEMMA ChallengeStep ==
    ASSUME IInv, TypeOK', NEW c \in Challenges, ChangesChallenge(c)
    PROVE  IInv'
<1> USE DEF license, claims, ChangesChallenge
<1>s. RowsStay
  <2>1. \A d \in Challenges : challenge[d].state # "none" =>
          challenge'[d].state # "none" /\ challenge'[d].purpose = challenge[d].purpose
    OBVIOUS
  <2>2. \A g \in Grants : grant[g] # NoGrant => grant'[g] = grant[g]
    OBVIOUS
  <2> QED
    BY <2>1, <2>2 DEF RowsStay
<1>1. \A d \in Challenges : ChallengeIsSound(d)'
  <2> SUFFICES ASSUME NEW d \in Challenges
               PROVE  ChallengeIsSound(d)'
    OBVIOUS
  <2>1. CASE d = c
    BY <2>1 DEF ChallengeIsSound
  <2>2. CASE d # c
    <3>1. challenge'[d] = challenge[d] /\ wrong'[d] = wrong[d] /\ ChallengeIsSound(d)
      BY <2>2 DEF IInv
    <3>2. challenge[d].code \in 0 .. MaxCodes
      BY DEF IInv, TypeOK, ChallengeRows
    <3>3. challenge[d].code # 0 => challenge[d].code \in Codes
      BY <3>2, Numbers DEF Codes
    <3> QED
      BY <3>1, <3>3 DEF ChallengeIsSound
  <2> QED
    BY <2>1, <2>2
<1>2. \A d \in Challenges : AttemptsAreCounted(d)'
  <2> SUFFICES ASSUME NEW d \in Challenges, d \notin overlap
               PROVE  /\ wrong'[d] <= challenge'[d].attempts
                      /\ \A v, w \in Workers : (Judges(v, d) /\ Judges(w, d))' => v = w
    BY DEF AttemptsAreCounted
  <2>1. AttemptsAreCounted(d)
    BY DEF IInv
  <2>2. \A v \in Workers : Judges(v, d)' => Judges(v, d)
    BY DEF Judges
  <2>3. wrong'[d] <= challenge'[d].attempts
    BY <2>1 DEF AttemptsAreCounted
  <2> QED
    BY <2>1, <2>2, <2>3 DEF AttemptsAreCounted
<1>3. \A g \in Grants : GrantIsSound(g)'
  BY <1>s, GrantsStaySound
<1>4. \A v \in Workers : Remembers(req[v])'
  <2> SUFFICES ASSUME NEW v \in Workers, req'[v] = req[v]
               PROVE  Remembers(req[v])'
    OBVIOUS
  <2>1. \A d \in Challenges \ overlap' : Judges(v, d) => wrong'[d] <= wrong[d]
    <3> SUFFICES ASSUME NEW d \in Challenges \ overlap', Judges(v, d)
                 PROVE  wrong'[d] <= wrong[d]
      OBVIOUS
    <3>1. CASE d = c
      BY <3>1
    <3>2. CASE d # c
      <4>1. wrong'[d] = wrong[d] /\ wrong[d] \in Nat
        BY <3>2, Numbers DEF IInv, TypeOK
      <4> QED
        BY <4>1
    <3> QED
      BY <3>1, <3>2
  <2> QED
    BY <1>s, <2>1, OthersRemember DEF TypeOK
<1>5. HolderIsProven'
  BY <1>s, HolderStaysProven
<1> QED
  BY <1>1, <1>2, <1>3, <1>4, <1>5 DEF IInv

-----------------------------------------------------------------------------
\* Requests that begin and read.

LEMMA AskStep ==
    ASSUME IInv, NEW w \in Workers, Ask(w)
    PROVE  IInv'
<1> USE DEF IInv
<1>t. link' \in LinkRows /\ overlap' \subseteq Challenges
  BY DEF Ask, OpenChallenge, EnterWrongCode, EnterCode, ConfirmLink, MarkOverlap, TypeOK,
     guesses
<1>1. ASSUME NEW c \in Challenges, NEW a \in Accounts, OpenChallenge(w, c, a)
      PROVE  IInv'
  <2> DEFINE r == [pc |-> "bind", on |-> c, acct |-> a, n |-> 0]
  <2>1. r \in Requests
    BY Numbers DEF Requests, Stages
  <2>2. Remembers(r)
    BY <1>1 DEF OpenChallenge, Remembers
  <2> QED
    BY <1>1, <1>t, <2>1, <2>2, RequestStep DEF OpenChallenge, Begin, guesses
<1>2. ASSUME NEW c \in Challenges, EnterWrongCode(w, c)
      PROVE  IInv'
  <2> DEFINE k == challenge[c].attempts + 1
             r == [pc |-> "wrong", on |-> c, acct |-> None, n |-> k]
  <2>1. k \in 1 .. MaxAttempts /\ k \in 0 .. MaxAttempts + MaxCodes
    BY <1>2, Numbers DEF EnterWrongCode, MayTry, TypeOK, ChallengeRows
  <2>2. r \in Requests
    BY <2>1 DEF Requests, Stages
  <2>3. c \notin overlap => wrong[c] < k
    BY Numbers DEF AttemptsAreCounted, TypeOK, ChallengeRows
  <2>4. Remembers(r)
    BY <1>2, <2>1, <2>3 DEF EnterWrongCode, MayTry, Remembers
  <2>5. overlap' = IF Judging(c) THEN overlap \cup {c} ELSE overlap
    BY <1>2 DEF EnterWrongCode, MarkOverlap
  <2>6. \A v \in Workers \ {w} : Judges(v, c) => c \in overlap'
    BY <2>5 DEF Judging, Judges
  <2>7. \A v \in Workers \ {w}, d \in Challenges \ overlap' :
          Judges(v, d) => ~(r.pc \in {"wrong", "right"} /\ r.on = d)
    BY <2>6
  <2> HIDE DEF k
  <2>8. /\ req' = [req EXCEPT ![w] = r]
        /\ UNCHANGED <<license, challenge, grant, sent, wrong, claims>>
        /\ overlap \subseteq overlap'
    BY <1>2, <2>5 DEF EnterWrongCode, Begin, k
  <2> QED
    BY <1>t, <2>2, <2>4, <2>7, <2>8, RequestStep
<1>3. ASSUME NEW c \in Challenges, EnterCode(w, c)
      PROVE  IInv'
  <2> DEFINE k == challenge[c].code
             r == [pc |-> "right", on |-> c, acct |-> challenge[c].acct, n |-> k]
  <2>1. k \in Codes /\ k \in 0 .. MaxAttempts + MaxCodes
    BY <1>3, Numbers DEF EnterCode, MayTry, TypeOK, ChallengeRows, Codes
  <2>2. /\ challenge[c].acct \in Accounts
        /\ sent[c][k] = challenge[c].acct
        /\ challenge[c].state # "none"
    BY <1>3 DEF EnterCode, MayTry, ChallengeIsSound
  <2>3. r \in Requests
    BY <2>1, <2>2 DEF Requests, Stages
  <2>4. Remembers(r)
    BY <2>1, <2>2 DEF Remembers
  <2>5. overlap' = IF Judging(c) THEN overlap \cup {c} ELSE overlap
    BY <1>3 DEF EnterCode, MarkOverlap
  <2>6. \A v \in Workers \ {w} : Judges(v, c) => c \in overlap'
    BY <2>5 DEF Judging, Judges
  <2>7. \A v \in Workers \ {w}, d \in Challenges \ overlap' :
          Judges(v, d) => ~(r.pc \in {"wrong", "right"} /\ r.on = d)
    BY <2>6
  <2>8. /\ req' = [req EXCEPT ![w] = r]
        /\ UNCHANGED <<license, challenge, grant, sent, wrong, claims>>
        /\ overlap \subseteq overlap'
    BY <1>3, <2>5 DEF EnterCode, Begin
  <2> QED
    BY <1>t, <2>3, <2>4, <2>7, <2>8, RequestStep
<1>4. ASSUME NEW k \in Links, NEW a \in Accounts, ConfirmLink(w, k, a)
      PROVE  IInv'
  <2> DEFINE r == [pc |-> "judge", on |-> k, acct |-> a, n |-> 0]
  <2>1. r \in Requests
    BY Numbers DEF Requests, Stages
  <2>2. Remembers(r)
    BY DEF Remembers
  <2> QED
    BY <1>4, <1>t, <2>1, <2>2, RequestStep DEF ConfirmLink, Begin, guesses
<1> QED
  BY <1>1, <1>2, <1>3, <1>4 DEF Ask

\* The license is read: who may become its holder remembers why.
LEMMA JudgeLinkStep ==
    ASSUME IInv, NEW w \in Workers, JudgeLink(w)
    PROVE  IInv'
<1> USE DEF IInv
<1>1. /\ req[w].pc = "judge"
      /\ Remembers(req[w]) /\ req[w] \in Requests
      /\ UNCHANGED <<license, challenge, grant, sent, guesses, claims>>
  BY DEF JudgeLink, At, TypeOK
<1>2. link' \in LinkRows
  BY DEF JudgeLink, Uses, TypeOK, LinkRows
<1>3. CASE Finish(w)
  BY <1>1, <1>2, <1>3, FinishStep
<1>4. CASE FreeFor(req[w].acct) /\ Goto(w, "write")
  <2> DEFINE r == [req[w] EXCEPT !.pc = "write"]
  <2>1. /\ r \in Requests /\ r.pc = "write"
        /\ r.acct = req[w].acct /\ r.on = req[w].on
    BY <1>1 DEF Requests, Stages
  <2>2. Remembers(r)
    BY <1>1, <1>4, <2>1 DEF Remembers, FreeFor
  <2>3. req' = [req EXCEPT ![w] = r]
    BY <1>4 DEF Goto
  <2>4. overlap' \subseteq Challenges /\ overlap \subseteq overlap' /\ UNCHANGED wrong
    BY <1>1 DEF TypeOK, guesses
  <2>5. r.pc \notin {"wrong", "right"}
    BY <2>1
  <2> HIDE DEF r
  <2> QED
    BY <1>1, <1>2, <2>1, <2>2, <2>3, <2>4, <2>5, RequestStep
<1> QED
  BY <1>3, <1>4 DEF JudgeLink

-----------------------------------------------------------------------------
\* Steps that write a challenge.

LEMMA IssueCodeStep ==
    ASSUME IInv, NEW w \in Workers, IssueCode(w)
    PROVE  IInv'
<1> USE DEF IInv
<1>1. PICK c \in Challenges, a \in Accounts :
        /\ c = req[w].on /\ a = req[w].acct
        /\ challenge[c].state # "none"
  BY DEF IssueCode, At, Remembers
<1>2. PICK n \in Unsent(c) :
        /\ challenge' = [challenge EXCEPT ![c] =
                           [challenge[c] EXCEPT !.acct = a, !.code = n, !.attempts = 0]]
        /\ sent' = [sent EXCEPT ![c][n] = a]
        /\ wrong' = [wrong EXCEPT ![c] = 0]
  BY <1>1 DEF IssueCode
<1>3. n \in Codes /\ n \in 0 .. MaxCodes /\ sent[c][n] = None
  BY Numbers DEF Unsent, Codes
<1>4. /\ req' = [req EXCEPT ![w] = Idle]
      /\ UNCHANGED <<license, link, grant, overlap, claims>>
  BY DEF IssueCode, Finish
<1>5. /\ challenge'[c].state = challenge[c].state
      /\ challenge'[c].purpose = challenge[c].purpose
      /\ challenge'[c].acct = a /\ challenge'[c].code = n /\ challenge'[c].attempts = 0
      /\ \A d \in Challenges \ {c} : challenge'[d] = challenge[d]
      /\ wrong'[c] = 0
      /\ \A d \in Challenges \ {c} : wrong'[d] = wrong[d]
  BY <1>2 DEF TypeOK, ChallengeRows
<1>6. /\ sent'[c][n] = a
      /\ \A d \in Challenges, m \in Codes :
           sent[d][m] \in Accounts => sent'[d][m] = sent[d][m]
  BY <1>2, <1>3, NoneIsNothing DEF TypeOK
<1>7. TypeOK'
  <2>0. 0 \in 0 .. MaxAttempts /\ 0 \in 0 .. MaxAttempts + 1
    BY Numbers
  <2> DEFINE row == [challenge[c] EXCEPT !.acct = a, !.code = n, !.attempts = 0]
  <2>c. challenge[c] \in ChallengeRows
    BY DEF TypeOK
  <2>r. row \in ChallengeRows
    BY <1>3, <2>0, <2>c DEF ChallengeRows
  <2>e. challenge' = [challenge EXCEPT ![c] = row]
    BY <1>2
  <2> HIDE DEF row
  <2>1. challenge' \in [Challenges -> ChallengeRows]
    BY <2>e, <2>r DEF TypeOK
  <2>2. sent' \in [Challenges -> [Codes -> Accounts \cup {None}]]
    BY <1>2, <1>3 DEF TypeOK
  <2>3. wrong' \in [Challenges -> 0 .. MaxAttempts + 1]
    BY <1>2, <2>0 DEF TypeOK
  <2>4. req' \in [Workers -> Requests]
    BY <1>4, IdleRequest DEF TypeOK
  <2> QED
    BY <1>4, <2>1, <2>2, <2>3, <2>4 DEF TypeOK, license, claims
<1>8. \A v \in Workers : req'[v] = req[v] \/ req'[v].pc = "idle"
  BY <1>4, IdleRequest DEF TypeOK
<1>9. \A v \in Workers : req'[v] = req[v] \/ Remembers(req[v])'
  BY <1>8 DEF Remembers
<1>10. wrong'[c] <= challenge'[c].attempts /\ wrong'[c] <= wrong[c]
  <2>1. wrong[c] \in Nat
    BY Numbers DEF TypeOK
  <2> QED
    BY <1>5, <2>1
<1>11. challenge'[c].state # "none" /\ challenge'[c].purpose = challenge[c].purpose
  BY <1>1, <1>5
<1>12. challenge'[c].code # 0 =>
         /\ challenge'[c].acct \in Accounts
         /\ sent'[c][challenge'[c].code] = challenge'[c].acct
  BY <1>5, <1>6
<1>13. \A v \in Workers : req'[v] = req[v] \/ req'[v].pc \notin {"wrong", "right"}
  BY <1>8
<1>14. \A g \in Grants : grant'[g] = grant[g]
  BY <1>4
<1>15. UNCHANGED <<license, link, overlap, claims>>
  BY <1>4
<1>16. /\ \A d \in Challenges \ {c} : challenge'[d] = challenge[d]
       /\ \A d \in Challenges \ {c} : wrong'[d] = wrong[d]
  BY <1>5
<1>17. \A d \in Challenges, m \in Codes :
         sent[d][m] \in Accounts => sent'[d][m] = sent[d][m]
  BY <1>6
<1>18. ChangesChallenge(c)
  BY <1>9, <1>10, <1>11, <1>12, <1>13, <1>14, <1>15, <1>16, <1>17 DEF ChangesChallenge
<1> QED
  BY <1>7, <1>18, ChallengeStep

\* The attempt is counted by the number that was read before it.
LEMMA CountAttemptStep ==
    ASSUME IInv, NEW w \in Workers, CountAttempt(w)
    PROVE  IInv'
<1> USE DEF IInv
<1>1. PICK c \in Challenges, k \in 1 .. MaxAttempts :
        /\ c = req[w].on /\ k = req[w].n
        /\ challenge[c].state # "none"
        /\ c \notin overlap => wrong[c] < k
  BY DEF CountAttempt, At, Remembers
<1>2. /\ challenge' = [challenge EXCEPT ![c].attempts = k]
      /\ wrong' = [wrong EXCEPT ![c] = IF wrong[c] > MaxAttempts
                                       THEN wrong[c] ELSE wrong[c] + 1]
      /\ UNCHANGED <<license, link, grant, sent, overlap, claims>>
  BY <1>1 DEF CountAttempt
<1>3. k \in 0 .. MaxAttempts /\ k \in Nat /\ wrong[c] \in 0 .. MaxAttempts + 1
  BY Numbers DEF TypeOK
<1>4. /\ challenge'[c].state = challenge[c].state
      /\ challenge'[c].purpose = challenge[c].purpose
      /\ challenge'[c].acct = challenge[c].acct
      /\ challenge'[c].code = challenge[c].code
      /\ challenge'[c].attempts = k
      /\ \A d \in Challenges \ {c} : challenge'[d] = challenge[d]
      /\ wrong'[c] = IF wrong[c] > MaxAttempts THEN wrong[c] ELSE wrong[c] + 1
      /\ \A d \in Challenges \ {c} : wrong'[d] = wrong[d]
  BY <1>2 DEF TypeOK, ChallengeRows
<1>5. wrong'[c] \in 0 .. MaxAttempts + 1
  BY <1>3, <1>4, Numbers
<1>6. c \notin overlap => wrong'[c] <= challenge'[c].attempts
  BY <1>1, <1>3, <1>4, Numbers
<1>7. /\ req' \in [Workers -> Requests]
      /\ \A v \in Workers : \/ v # w /\ req'[v] = req[v]
                            \/ v = w /\ req'[v].pc = "idle"
                            \/ v = w /\ req'[v].pc = "lock" /\ req'[v].on = c
  <2>1. CASE Finish(w)
    BY <2>1, IdleRequest DEF Finish, TypeOK
  <2>2. CASE Goto(w, "lock")
    <3> DEFINE r == [req[w] EXCEPT !.pc = "lock"]
    <3>1. r \in Requests /\ r.pc = "lock" /\ r.on = c
      BY <1>1 DEF TypeOK, Requests, Stages
    <3>2. req' = [req EXCEPT ![w] = r]
      BY <2>2 DEF Goto
    <3> QED
      BY <3>1, <3>2 DEF TypeOK
  <2> QED
    BY <2>1, <2>2 DEF CountAttempt
<1>8. TypeOK'
  <2>1. challenge' \in [Challenges -> ChallengeRows]
    BY <1>2, <1>3 DEF TypeOK, ChallengeRows
  <2>2. wrong' \in [Challenges -> 0 .. MaxAttempts + 1]
    BY <1>2, <1>4, <1>5 DEF TypeOK
  <2> QED
    BY <1>2, <1>7, <2>1, <2>2 DEF TypeOK, license, claims
<1>9. \A v \in Workers : req'[v] = req[v] \/ Remembers(req[v])'
  BY <1>1, <1>4, <1>7 DEF Remembers
<1>10. \A v \in Workers : req'[v] = req[v] /\ Judges(v, c) /\ c \notin overlap
                             => wrong'[c] <= wrong[c]
  <2> SUFFICES ASSUME NEW v \in Workers, Judges(v, c), c \notin overlap
               PROVE  v = w
    BY <1>7 DEF CountAttempt, At, Judges
  <2>1. Judges(w, c)
    BY <1>1 DEF CountAttempt, At, Judges
  <2> QED
    BY <2>1 DEF AttemptsAreCounted
<1>11. challenge'[c].code # 0 =>
         /\ challenge'[c].acct \in Accounts
         /\ sent'[c][challenge'[c].code] = challenge'[c].acct
  BY <1>2, <1>4 DEF ChallengeIsSound
<1>12. /\ \A d \in Challenges, n \in Codes :
            sent[d][n] \in Accounts => sent'[d][n] = sent[d][n]
       /\ \A g \in Grants : grant'[g] = grant[g]
  BY <1>2
<1>13. \A v \in Workers : req'[v] = req[v] \/ req'[v].pc \notin {"wrong", "right"}
  BY <1>7
<1>14. challenge'[c].state # "none" /\ challenge'[c].purpose = challenge[c].purpose
  BY <1>1, <1>4
<1>15. UNCHANGED <<license, link, overlap, claims>>
  BY <1>2
<1>16. /\ \A d \in Challenges \ {c} : challenge'[d] = challenge[d]
       /\ \A d \in Challenges \ {c} : wrong'[d] = wrong[d]
  BY <1>4
<1>17. ChangesChallenge(c)
  BY <1>6, <1>9, <1>10, <1>11, <1>12, <1>13, <1>14, <1>15, <1>16 DEF ChangesChallenge
<1> QED
  BY <1>8, <1>17, ChallengeStep

LEMMA LockChallengeStep ==
    ASSUME IInv, NEW w \in Workers, LockChallenge(w)
    PROVE  IInv'
<1> USE DEF IInv
<1>1. PICK c \in Challenges : c = req[w].on /\ challenge[c].state # "none"
  BY DEF LockChallenge, At, Remembers
<1>2. /\ challenge' = [challenge EXCEPT ![c].state =
                         IF challenge[c].state = "verified" THEN challenge[c].state
                         ELSE "locked"]
      /\ req' = [req EXCEPT ![w] = Idle]
      /\ UNCHANGED <<license, link, grant, sent, wrong, overlap, claims>>
  BY <1>1 DEF LockChallenge, Finish, guesses
<1>3. challenge[c] \in ChallengeRows
  BY DEF TypeOK
<1>4. /\ challenge'[c].state \in {"verified", "locked"}
      /\ challenge'[c].purpose = challenge[c].purpose
      /\ challenge'[c].acct = challenge[c].acct
      /\ challenge'[c].code = challenge[c].code
      /\ challenge'[c].attempts = challenge[c].attempts
      /\ \A d \in Challenges \ {c} : challenge'[d] = challenge[d]
  BY <1>2, <1>3 DEF TypeOK, ChallengeRows
<1>5. TypeOK'
  <2>1. challenge' \in [Challenges -> ChallengeRows]
    BY <1>2, <1>3 DEF TypeOK, ChallengeRows
  <2>2. req' \in [Workers -> Requests]
    BY <1>2, IdleRequest DEF TypeOK
  <2> QED
    BY <1>2, <2>1, <2>2 DEF TypeOK, license, claims
<1>6. \A v \in Workers : \/ req'[v] = req[v]
                         \/ req'[v].pc \notin {"wrong", "right"} /\ Remembers(req[v])'
  BY <1>2, IdleRequest DEF TypeOK, Remembers
<1>7. c \notin overlap =>
        /\ wrong'[c] <= challenge'[c].attempts
        /\ \A v \in Workers : req'[v] = req[v] /\ Judges(v, c) => wrong'[c] <= wrong[c]
  <2>1. wrong[c] \in Nat
    BY Numbers DEF TypeOK
  <2> QED
    BY <1>2, <1>4, <2>1 DEF AttemptsAreCounted
<1>8. challenge'[c].code # 0 =>
        /\ challenge'[c].acct \in Accounts
        /\ sent'[c][challenge'[c].code] = challenge'[c].acct
  BY <1>2, <1>4 DEF ChallengeIsSound
<1>9. ChangesChallenge(c)
  BY <1>2, <1>4, <1>6, <1>7, <1>8 DEF ChangesChallenge
<1> QED
  BY <1>5, <1>9, ChallengeStep

\* The grant names the account that was sent the code.
LEMMA GiveGrantStep ==
    ASSUME IInv, NEW w \in Workers, NEW g \in Grants, GiveGrant(w, g)
    PROVE  IInv'
<1> USE DEF IInv
<1>1. PICK c \in Challenges, a \in Accounts, n \in Codes :
        /\ c = req[w].on /\ a = req[w].acct /\ n = req[w].n
        /\ challenge[c].state # "none"
        /\ sent[c][n] = a
  BY DEF GiveGrant, At, Remembers
<1> DEFINE row == [challenge[c] EXCEPT !.state = "verified", !.code = 0]
           new == [of |-> c, acct |-> a, code |-> n]
           r == IF LinksHolder(c)
                THEN [pc |-> "judge", on |-> c, acct |-> a, n |-> 0] ELSE Idle
<1>2. /\ challenge' = [challenge EXCEPT ![c] = row]
      /\ grant[g] = NoGrant
      /\ grant' = [grant EXCEPT ![g] = new]
      /\ req' = [req EXCEPT ![w] = r]
      /\ UNCHANGED <<license, link, sent, wrong, overlap, claims>>
  BY <1>1 DEF GiveGrant, GrantAccount, Begin, Finish, guesses
<1>3. challenge[c] \in ChallengeRows
  BY DEF TypeOK
<1>4. /\ row \in ChallengeRows
      /\ row.state = "verified" /\ row.code = 0
      /\ row.purpose = challenge[c].purpose
      /\ row.attempts = challenge[c].attempts
  <2>1. 0 \in 0 .. MaxCodes
    BY Numbers
  <2> QED
    BY <1>3, <2>1 DEF ChallengeRows
<1>5. new \in GrantRows /\ new.of = c /\ new.acct = a /\ new.code = n
  <2>1. n \in 0 .. MaxCodes
    BY Numbers DEF Codes
  <2> QED
    BY <2>1 DEF GrantRows
<1>6. r \in Requests
  BY IdleRequest, Numbers DEF Requests, Stages
<1>7. r.pc = "idle" \/ /\ LinksHolder(c)
                       /\ r.pc = "judge" /\ r.on = c /\ r.acct = a
  BY IdleRequest
<1> HIDE DEF row, new, r
<1>8. /\ challenge'[c] = row
      /\ \A d \in Challenges \ {c} : challenge'[d] = challenge[d]
      /\ grant'[g] = new
      /\ \A h \in Grants \ {g} : grant'[h] = grant[h]
      /\ \A v \in Workers : req'[v] = IF v = w THEN r ELSE req[v]
  BY <1>2 DEF TypeOK
<1>9. TypeOK'
  <2>1. challenge' \in [Challenges -> ChallengeRows]
    BY <1>2, <1>4 DEF TypeOK
  <2>2. grant' \in [Grants -> GrantRows]
    BY <1>2, <1>5 DEF TypeOK
  <2>3. req' \in [Workers -> Requests]
    BY <1>2, <1>6 DEF TypeOK
  <2> QED
    BY <1>2, <2>1, <2>2, <2>3 DEF TypeOK, license, claims
<1>10. GrantIsSound(g)'
  BY <1>1, <1>2, <1>4, <1>5, <1>8 DEF GrantIsSound
<1>11. LinksHolder(c) => Entered(a)'
  BY <1>4, <1>5, <1>8 DEF LinksHolder, Entered
<1>12. r.pc \notin {"wrong", "right"} /\ Remembers(req[w])'
  <2>1. req'[w] = r
    BY <1>8
  <2>2. CASE r.pc = "idle"
    BY <2>1, <2>2 DEF Remembers
  <2>3. CASE LinksHolder(c) /\ r.pc = "judge" /\ r.acct = a
    <3>1. req'[w].pc = "judge" /\ req'[w].acct = a
      BY <2>1, <2>3
    <3>2. Entered(a)'
      BY <1>11, <2>3
    <3> QED
      BY <2>1, <3>1, <3>2 DEF Remembers, Entered
  <2> QED
    BY <1>7, <2>2, <2>3
<1>13. c \notin overlap =>
        /\ wrong'[c] <= challenge'[c].attempts
        /\ \A v \in Workers : req'[v] = req[v] /\ Judges(v, c) => wrong'[c] <= wrong[c]
  <2>1. wrong[c] \in Nat
    BY Numbers DEF TypeOK
  <2> QED
    BY <1>2, <1>4, <1>8, <2>1 DEF AttemptsAreCounted
<1>14. /\ \A h \in Grants : \/ grant'[h] = grant[h]
                            \/ grant[h] = NoGrant /\ GrantIsSound(h)'
       /\ \A v \in Workers : \/ req'[v] = req[v]
                             \/ req'[v].pc \notin {"wrong", "right"} /\ Remembers(req[v])'
  BY <1>2, <1>8, <1>10, <1>12
<1>15. ChangesChallenge(c)
  BY <1>2, <1>4, <1>8, <1>13, <1>14 DEF ChangesChallenge
<1> QED
  BY <1>9, <1>15, ChallengeStep

LEMMA CreateChallengeStep ==
    ASSUME IInv, NEW c \in Challenges, NEW p \in Purposes, CreateChallenge(c, p)
    PROVE  IInv'
<1> USE DEF IInv
<1> DEFINE row == [NoChallenge EXCEPT !.state = "open", !.purpose = p]
<1>1. /\ challenge[c].state = "none"
      /\ challenge' = [challenge EXCEPT ![c] = row]
      /\ UNCHANGED <<license, link, grant, req, sent, wrong, overlap, claims>>
  BY DEF CreateChallenge, guesses
<1>2. row \in ChallengeRows /\ row.state = "open" /\ row.code = 0 /\ row.attempts = 0
  <2>1. 0 \in 0 .. MaxCodes /\ 0 \in 0 .. MaxAttempts
    BY Numbers
  <2> QED
    BY <2>1 DEF ChallengeRows, NoChallenge
<1> HIDE DEF row
<1>3. /\ challenge'[c] = row
      /\ \A d \in Challenges \ {c} : challenge'[d] = challenge[d]
      /\ challenge' \in [Challenges -> ChallengeRows]
  BY <1>1, <1>2 DEF TypeOK
<1>4. TypeOK'
  BY <1>1, <1>3 DEF TypeOK, license, claims
<1>5. wrong[c] = 0
  BY <1>1 DEF ChallengeIsSound
<1>6. ChangesChallenge(c)
  BY <1>1, <1>2, <1>3, <1>5 DEF ChangesChallenge
<1> QED
  BY <1>4, <1>6, ChallengeStep

LEMMA ExpireChallengeStep ==
    ASSUME IInv, NEW c \in Challenges, ExpireChallenge(c)
    PROVE  IInv'
<1> USE DEF IInv
<1> DEFINE row == [challenge[c] EXCEPT !.state = "expired"]
<1>1. /\ challenge' = [challenge EXCEPT ![c] = row]
      /\ UNCHANGED <<license, link, grant, req, sent, wrong, overlap, claims>>
  BY DEF ExpireChallenge, guesses
<1>2. challenge[c] \in ChallengeRows
  BY DEF TypeOK
<1>3. /\ row \in ChallengeRows /\ row.state = "expired"
      /\ row.purpose = challenge[c].purpose /\ row.acct = challenge[c].acct
      /\ row.code = challenge[c].code /\ row.attempts = challenge[c].attempts
  BY <1>2 DEF ChallengeRows
<1> HIDE DEF row
<1>4. /\ challenge'[c] = row
      /\ \A d \in Challenges \ {c} : challenge'[d] = challenge[d]
      /\ challenge' \in [Challenges -> ChallengeRows]
  BY <1>1, <1>3 DEF TypeOK
<1>5. TypeOK'
  BY <1>1, <1>4 DEF TypeOK, license, claims
<1>6. c \notin overlap =>
        /\ wrong'[c] <= challenge'[c].attempts
        /\ \A v \in Workers : req'[v] = req[v] /\ Judges(v, c) => wrong'[c] <= wrong[c]
  <2>1. wrong[c] \in Nat
    BY Numbers DEF TypeOK
  <2> QED
    BY <1>1, <1>3, <1>4, <2>1 DEF AttemptsAreCounted
<1>7. challenge'[c].code # 0 =>
        /\ challenge'[c].acct \in Accounts
        /\ sent'[c][challenge'[c].code] = challenge'[c].acct
  BY <1>1, <1>3, <1>4 DEF ChallengeIsSound
<1>8. ChangesChallenge(c)
  BY <1>1, <1>3, <1>4, <1>6, <1>7 DEF ChangesChallenge
<1> QED
  BY <1>5, <1>8, ChallengeStep

-----------------------------------------------------------------------------
\* Steps that write the license.

\* The account that becomes the holder is the one the license was judged for.
LEMMA WriteHolderStep ==
    ASSUME IInv, NEW w \in Workers, WriteHolder(w)
    PROVE  IInv'
<1> USE DEF IInv
<1>1. PICK a \in Accounts : /\ a = req[w].acct
                            /\ req[w].on \in Links \/ Entered(a)
                            /\ purchaser \in {None, a}
  BY DEF WriteHolder, At, Remembers, Entered
<1>2. /\ holder' = a
      /\ req' = [req EXCEPT ![w] = Idle]
      /\ req[w].on \in Links => a \in linkedBy'
      /\ linkedBy \subseteq linkedBy' /\ linkedBy' \subseteq Accounts
      /\ UNCHANGED <<purchaser, usable, active, challenge, grant, sent, wrong, overlap,
                     assigned>>
  BY <1>1 DEF WriteHolder, Finish, TypeOK, guesses
<1>s. RowsStay
  BY <1>2 DEF RowsStay
<1>3. TypeOK'
  <2>1. link' \in LinkRows
    BY DEF WriteHolder, Uses, TypeOK, LinkRows
  <2>2. req' \in [Workers -> Requests]
    BY <1>2, IdleRequest DEF TypeOK
  <2> QED
    BY <1>2, <2>1, <2>2 DEF TypeOK
<1>v. \A v \in Workers : req'[v] = req[v] \/ req'[v].pc = "idle"
  BY <1>2, IdleRequest DEF TypeOK
<1>4. \A c \in Challenges : (ChallengeIsSound(c) /\ AttemptsAreCounted(c))'
  <2>1. \A c \in Challenges, v \in Workers : Judges(v, c)' => Judges(v, c)
    BY <1>v DEF Judges
  <2> QED
    BY <1>2, <2>1 DEF ChallengeIsSound, AttemptsAreCounted
<1>5. \A g \in Grants : GrantIsSound(g)'
  BY <1>2, <1>s, GrantsStaySound
<1>6. \A v \in Workers : Remembers(req[v])'
  <2> SUFFICES ASSUME NEW v \in Workers
               PROVE  Remembers(req[v])'
    OBVIOUS
  <2>1. \A c \in Challenges : wrong'[c] <= wrong[c]
    BY <1>2, Numbers DEF TypeOK
  <2>2. CASE req'[v] = req[v]
    BY <1>3, <1>s, <2>1, <2>2, OthersRemember DEF TypeOK
  <2>3. CASE req'[v].pc = "idle"
    BY <2>3 DEF Remembers
  <2> QED
    BY <1>v, <2>2, <2>3
<1>7. HolderIsProven'
  <2>1. Entered(a) => Entered(a)'
    BY <1>s, EnteredStays
  <2>2. Entered(a)' => \E g \in Grants : /\ grant'[g].acct = holder'
                                         /\ challenge'[grant'[g].of].purpose = "LINK_ACCOUNT"
    BY <1>2 DEF Entered
  <2> QED
    BY <1>1, <1>2, <2>1, <2>2 DEF HolderIsProven
<1> QED
  BY <1>3, <1>4, <1>5, <1>6, <1>7

LEMMA LicenseSteps ==
    ASSUME IInv,
           \/ \E a \in Accounts : AssignHolder(a)
           \/ UnlinkHolder
           \/ ChangeSlot
           \/ EndLicense
           \/ \E k \in Links : CreateLink(k) \/ ExpireLink(k)
    PROVE  IInv'
<1> USE DEF IInv
<1>1. ASSUME NEW a \in Accounts, AssignHolder(a)
      PROVE  IInv'
  <2>1. TypeOK'
    BY <1>1 DEF AssignHolder, TypeOK, guesses
  <2>2. HolderIsProven'
    BY <1>1 DEF AssignHolder, HolderIsProven
  <2> QED
    BY <1>1, <2>1, <2>2, LicenseStep DEF AssignHolder
<1>2. CASE UnlinkHolder
  <2>1. TypeOK'
    BY <1>2 DEF UnlinkHolder, TypeOK, guesses, claims
  <2>2. HolderIsProven'
    BY <1>2 DEF UnlinkHolder, HolderIsProven
  <2> QED
    BY <1>2, <2>1, <2>2, LicenseStep DEF UnlinkHolder, claims
<1>s. ASSUME UNCHANGED <<holder, purchaser, challenge, grant, req, sent, guesses, claims>>,
             TypeOK'
      PROVE  IInv'
  <2>1. RowsStay
    BY <1>s DEF RowsStay, guesses, claims
  <2>2. HolderIsProven'
    BY <1>s, <2>1, HolderStaysProven DEF claims
  <2> QED
    BY <1>s, <2>2, LicenseStep DEF claims
<1>3. CASE ChangeSlot
  <2>1. active' \in BOOLEAN
    BY <1>3 DEF ChangeSlot
  <2>2. TypeOK'
    BY <1>3, <2>1 DEF ChangeSlot, TypeOK, guesses, claims
  <2> QED
    BY <1>3, <1>s, <2>2 DEF ChangeSlot
<1>4. CASE EndLicense
  <2>1. TypeOK'
    BY <1>4 DEF EndLicense, TypeOK, guesses, claims
  <2> QED
    BY <1>4, <1>s, <2>1 DEF EndLicense
<1>5. ASSUME NEW k \in Links, CreateLink(k) \/ ExpireLink(k)
      PROVE  IInv'
  <2>1. link' \in LinkRows
    BY <1>5 DEF CreateLink, ExpireLink, TypeOK, LinkRows
  <2>2. TypeOK'
    BY <1>5, <2>1 DEF CreateLink, ExpireLink, TypeOK, license, guesses, claims
  <2> QED
    BY <1>5, <1>s, <2>2 DEF CreateLink, ExpireLink, license
<1> QED
  BY <1>1, <1>2, <1>3, <1>4, <1>5

-----------------------------------------------------------------------------
\* The invariant holds at first and is kept.

LEMMA FirstState == Init => IInv
<1> SUFFICES ASSUME Init
             PROVE  IInv
  OBVIOUS
<1> USE DEF Init
<1>1. NoChallenge \in ChallengeRows /\ NoGrant \in GrantRows
  <2>1. 0 \in 0 .. MaxCodes /\ 0 \in 0 .. MaxAttempts
    BY Numbers
  <2> QED
    BY <2>1 DEF NoChallenge, ChallengeRows, NoGrant, GrantRows
<1>2. TypeOK
  <2>1. 0 \in 0 .. MaxAttempts + 1
    BY Numbers
  <2> QED
    BY <1>1, <2>1, IdleRequest DEF TypeOK, LinkRows
<1>3. \A c \in Challenges : ChallengeIsSound(c) /\ AttemptsAreCounted(c)
  BY IdleRequest, Numbers DEF ChallengeIsSound, AttemptsAreCounted, NoChallenge, Judges
<1>4. \A g \in Grants : GrantIsSound(g)
  BY DEF GrantIsSound
<1>5. \A w \in Workers : Remembers(req[w])
  BY IdleRequest DEF Remembers
<1>6. HolderIsProven
  BY DEF HolderIsProven
<1> QED
  BY <1>2, <1>3, <1>4, <1>5, <1>6 DEF IInv

LEMMA NextStep == IInv /\ [Next]_vars => IInv'
<1> SUFFICES ASSUME IInv, [Next]_vars
             PROVE  IInv'
  OBVIOUS
<1>1. ASSUME NEW w \in Workers, Serve(w)
      PROVE  IInv'
  BY <1>1, IssueCodeStep, CountAttemptStep, LockChallengeStep, GiveGrantStep,
     JudgeLinkStep, WriteHolderStep DEF Serve
<1>2. ASSUME NEW w \in Workers, Crash(w)
      PROVE  IInv'
  <2>1. link' \in LinkRows
    BY <1>2 DEF Crash, IInv, TypeOK
  <2> QED
    BY <1>2, <2>1, FinishStep DEF Crash
<1>3. ASSUME NEW c \in Challenges, ExpireChallenge(c)
      PROVE  IInv'
  BY <1>3, ExpireChallengeStep
<1>4. ASSUME NEW c \in Challenges, NEW p \in Purposes, CreateChallenge(c, p)
      PROVE  IInv'
  BY <1>4, CreateChallengeStep
<1>5. CASE UNCHANGED vars
  <2>1. TypeOK'
    BY <1>5 DEF vars, IInv, TypeOK
  <2>2. HolderIsProven'
    BY <1>5 DEF vars, IInv, HolderIsProven
  <2> QED
    BY <1>5, <2>1, <2>2, LicenseStep DEF vars, guesses
<1> QED
  BY <1>1, <1>2, <1>3, <1>4, <1>5, AskStep, LicenseSteps DEF Next

\* Every reachable state satisfies the inductive invariant.
THEOREM Invariance == Spec => []IInv
BY FirstState, NextStep, PTL DEF Spec

\* The columns and the requests in progress keep their types.
THEOREM TypeCorrect == Spec => []TypeOK
<1>1. IInv => TypeOK
  BY DEF IInv
<1> QED
  BY <1>1, Invariance, PTL

\* Whatever accounts open one deep link at the same time, the grant that a code
\* yields names the account the code was sent to.
THEOREM GrantsProveAccounts == Spec => []GrantProvesAccount
<1>1. IInv => GrantProvesAccount
  BY DEF IInv, GrantIsSound, GrantProvesAccount
<1> QED
  BY <1>1, Invariance, PTL

\* The license of a purchaser has no other holder, and every holder but one an
\* administrator assigned has proven himself by a link or by a code.
THEOREM HoldersAreProven == Spec => []HolderIsProven
<1>1. IInv => HolderIsProven
  BY DEF IInv
<1> QED
  BY <1>1, Invariance, PTL

\* However many codes are issued and whatever crashes, a code stands at most
\* MaxAttempts wrong guesses unless two are judged at the same time.
THEOREM FewGuesses == Spec => []GuessesAreBounded
<1>1. IInv => GuessesAreBounded
  <2> SUFFICES ASSUME IInv, NEW c \in Challenges \ overlap
               PROVE  wrong[c] <= MaxAttempts
    BY DEF GuessesAreBounded
  <2>1. /\ wrong[c] <= challenge[c].attempts
        /\ wrong[c] \in Nat
        /\ challenge[c].attempts \in 0 .. MaxAttempts
    BY Numbers DEF IInv, AttemptsAreCounted, TypeOK, ChallengeRows
  <2> QED
    BY <2>1, Numbers
<1> QED
  BY <1>1, Invariance, PTL

-----------------------------------------------------------------------------
\* The links that the bot keeps until a language is chosen.

AllLinks == Accounts \cup Links
Linkless == {"idle", "press", "createFirst", "choose", "context", "goHome", "leave"}
Linked == {"find", "create", "defer", "answer", "check", "clear"}
Handlers == [pc : Linkless \cup Linked, link : AllLinks \cup {None}]
Taking == {"check", "clear"}

LinkTypes ==
    /\ update \in [Workers -> Handlers]
    /\ session \in {"none", "nav"} \cup AllLinks
    /\ answered \in [AllLinks -> 0 .. 2]
    /\ opened \subseteq AllLinks
    /\ account \in D!AccountRow

HandlerRow(r) ==
    /\ r.pc \in Linkless => r.link = None
    /\ r.pc \in Linked => r.link \in AllLinks

\* A link is in the hands of one handler, or in the session; the handler that takes it
\* from there is the only one for which it is in both.  Once it is answered it is in
\* neither.
LinkRight(l) ==
    /\ \A v, w \in Workers : update[v].link = l /\ update[w].link = l => v = w
    /\ \A w \in Workers : session = l /\ update[w].link = l => update[w].pc \in Taking
    /\ answered[l] > 0 => session # l /\ \A w \in Workers : update[w].link # l
    /\ answered[l] <= 1

\* A link that was not opened is nowhere.
Unopened(l) == session # l /\ answered[l] = 0 /\ \A w \in Workers : update[w].link # l

LinkIInv ==
    /\ LinkTypes
    /\ \A w \in Workers : HandlerRow(update[w])
    /\ \A l \in AllLinks \ opened : Unopened(l)
    /\ \A l \in AllLinks \ doubled : LinkRight(l)
    /\ \A l \in opened : l \in given \/ answered[l] > 0 \/ session = l
                           \/ \E w \in Workers : update[w].link = l

LEMMA LinkNames == {None, "none", "nav"} \cap AllLinks = {}
BY LinksAssumption DEF D!DeepLinksAssumption, AllLinks

LEMMA IdleHandler == D!Idle \in Handlers /\ D!Idle.pc = "idle" /\ D!Idle.link = None
BY DEF D!Idle, Handlers, Linkless

\* One handler goes on with the row r; no link is opened or answered.
LEMMA LinkMoves ==
    ASSUME LinkIInv, NEW w \in Workers, NEW r \in Handlers, update' = [update EXCEPT ![w] = r],
           HandlerRow(r), session' \in {"none", "nav"} \cup AllLinks,
           UNCHANGED <<answered, opened>>, doubled \subseteq doubled', given \subseteq given',
           account' \in D!AccountRow,
           \A l \in AllLinks : r.link = l =>
              \/ update[w].link = l
              \/ session = l /\ (l \in doubled' \/ \A v \in Workers \ {w} : update[v].link # l),
           \A l \in AllLinks : session' = l => session = l \/ (update[w].link = l /\ r.link # l),
           \A l \in AllLinks \ doubled' : session' = l /\ r.link = l => r.pc \in Taking,
           \A l \in AllLinks : session = l \/ update[w].link = l
                                 => session' = l \/ r.link = l \/ l \in given'
    PROVE  LinkIInv'
<1>1. /\ update' \in [Workers -> Handlers] /\ update'[w] = r
      /\ \A v \in Workers \ {w} : update'[v] = update[v]
  BY DEF LinkIInv, LinkTypes
<1>2. LinkTypes'
  BY <1>1 DEF LinkIInv, LinkTypes
<1>3. \A v \in Workers : HandlerRow(update[v])'
  <2>1. \A v \in Workers : HandlerRow(update'[v])
    BY <1>1 DEF LinkIInv
  <2> QED
    BY <2>1 DEF HandlerRow
<1>4. ASSUME NEW l \in AllLinks \ opened'
      PROVE  Unopened(l)'
  <2>1. Unopened(l)
    BY DEF LinkIInv
  <2>2. r.link # l /\ session' # l
    BY <2>1 DEF Unopened
  <2>3. \A v \in Workers : update'[v].link # l
    BY <1>1, <2>1, <2>2 DEF Unopened
  <2> QED
    BY <2>1, <2>2, <2>3 DEF Unopened
<1>5. ASSUME NEW l \in AllLinks \ doubled'
      PROVE  LinkRight(l)'
  <2>1. LinkRight(l)
    BY DEF LinkIInv
  <2>2. ASSUME NEW v \in Workers, NEW u \in Workers, update'[v].link = l, update'[u].link = l
        PROVE  v = u
    <3>1. CASE v = w \/ u = w
      BY <1>1, <2>1, <2>2, <3>1 DEF LinkRight
    <3>2. CASE v # w /\ u # w
      BY <1>1, <2>1, <2>2, <3>2 DEF LinkRight
    <3> QED
      BY <3>1, <3>2
  <2>3. ASSUME NEW v \in Workers, session' = l, update'[v].link = l
        PROVE  update'[v].pc \in Taking
    <3>1. CASE v = w
      BY <1>1, <2>3, <3>1
    <3>2. CASE v # w
      BY <1>1, <2>1, <2>3, <3>2 DEF LinkRight
    <3> QED
      BY <3>1, <3>2
  <2>4. ASSUME answered[l] > 0
        PROVE  session' # l /\ \A v \in Workers : update'[v].link # l
    BY <1>1, <2>1, <2>4 DEF LinkRight
  <2> QED
    BY <2>1, <2>2, <2>3, <2>4 DEF LinkRight
<1>6. ASSUME NEW l \in opened'
      PROVE  l \in given' \/ answered'[l] > 0 \/ session' = l
               \/ \E v \in Workers : update'[v].link = l
  <2>0. l \in opened /\ l \in AllLinks
    BY DEF LinkIInv, LinkTypes
  <2>1. CASE l \in given \/ answered[l] > 0
    BY <2>1
  <2>2. CASE session = l \/ update[w].link = l
    BY <1>1, <2>0, <2>2
  <2>3. ASSUME NEW v \in Workers \ {w}, update[v].link = l
        PROVE  update'[v].link = l
    BY <1>1, <2>3
  <2> QED
    BY <2>0, <2>1, <2>2, <2>3 DEF LinkIInv
<1> QED
  BY <1>2, <1>3, <1>4, <1>5, <1>6 DEF LinkIInv

\* A handler goes from stage to stage with its link, or without one.
LEMMA LinkStages ==
    ASSUME LinkIInv, NEW w \in Workers,
           NEW st \in Linkless \cup Linked, D!Goto(w, st), UNCHANGED <<session, opened, answered>>,
           doubled \subseteq doubled', given \subseteq given', account' \in D!AccountRow,
           update[w].pc \in Linked <=> st \in Linked,
           \/ update[w].pc \notin Taking
           \/ st \in Taking
           \/ session \notin AllLinks
    PROVE  LinkIInv'
<1>q. PICK q \in Handlers : q = update[w] /\ HandlerRow(q)
  BY DEF LinkIInv, LinkTypes
<1> DEFINE r == [q EXCEPT !.pc = st]
<1>1. r \in Handlers /\ r.pc = st /\ r.link = q.link /\ update' = [update EXCEPT ![w] = r]
  BY <1>q DEF Handlers, D!Goto
<1> HIDE DEF r
<1>2. HandlerRow(r)
  <2>1. Linkless \cap Linked = {}
    BY DEF Linkless, Linked
  <2>2. q.pc \in Linkless \cup Linked
    BY DEF Handlers
  <2> QED
    BY <1>q, <1>1, <2>1, <2>2 DEF HandlerRow
<1>3. ASSUME NEW l \in AllLinks \ doubled', session' = l, r.link = l
      PROVE  r.pc \in Taking
  <2>1. LinkRight(l) /\ session = l /\ update[w].link = l
    BY <1>q, <1>1, <1>3 DEF LinkIInv
  <2>2. update[w].pc \in Taking
    BY <2>1 DEF LinkRight
  <2> QED
    BY <1>1, <2>1, <2>2
<1>4. session' \in {"none", "nav"} \cup AllLinks
  BY DEF LinkIInv, LinkTypes
<1>5. /\ \A l \in AllLinks : r.link = l => update[w].link = l
      /\ \A l \in AllLinks : session' = l => session = l
      /\ \A l \in AllLinks : session = l \/ update[w].link = l => session' = l \/ r.link = l
  BY <1>q, <1>1
<1> QED
  BY <1>1, <1>2, <1>3, <1>4, <1>5, LinkMoves

\* A handler ends: its link is answered for, kept, or given up.
LEMMA LinkEnds ==
    ASSUME LinkIInv, NEW w \in Workers, D!Finish(w), UNCHANGED <<answered, opened, doubled>>,
           session' \in {"none", "nav"} \cup AllLinks, given \subseteq given',
           account' \in D!AccountRow,
           \A l \in AllLinks : session' = l => session = l \/ update[w].link = l,
           \A l \in AllLinks : session = l \/ update[w].link = l => session' = l \/ l \in given'
    PROVE  LinkIInv'
<1>n. None \notin AllLinks
  BY LinkNames
<1>1. update' = [update EXCEPT ![w] = D!Idle]
  BY DEF D!Finish
<1>2. HandlerRow(D!Idle) /\ \A l \in AllLinks : D!Idle.link # l
  BY <1>n, IdleHandler DEF HandlerRow, Linked
<1> QED
  BY <1>1, <1>2, IdleHandler, LinkMoves

\* A link is opened and kept.
LEMMA LinkSteps ==
    ASSUME LinkIInv, NEW w \in Workers
    PROVE  /\ D!FindAccount(w) => LinkIInv'
           /\ D!CreateAccount(w) => LinkIInv'
           /\ D!DeferLink(w) => LinkIInv'
           /\ D!Crash(w) => LinkIInv'
<1>n. None \notin AllLinks /\ "none" \notin AllLinks /\ "nav" \notin AllLinks
  BY LinkNames
<1>t. session \in {"none", "nav"} \cup AllLinks /\ account \in D!AccountRow
  BY DEF LinkIInv, LinkTypes
<1>l. update[w].pc \in Linked => update[w].link \in AllLinks
  BY DEF LinkIInv, HandlerRow
<1>1. ASSUME D!FindAccount(w)
      PROVE  LinkIInv'
  <2>1. /\ update[w].pc = "find" /\ UNCHANGED <<session, opened, answered, given, doubled>>
        /\ UNCHANGED account
        /\ D!Goto(w, "create") \/ D!Goto(w, "defer") \/ D!Goto(w, "answer")
    <3>1. CASE account = "none"
      BY <1>1, <3>1 DEF D!FindAccount, D!At, D!Tables, D!Told
    <3>2. CASE account = "new"
      BY <1>1, <3>2 DEF D!FindAccount, D!At, D!Tables, D!Told
    <3>3. CASE account = "ready"
      BY <1>1, <3>3 DEF D!FindAccount, D!At, D!Tables, D!Told
    <3> QED
      BY <1>t, <3>1, <3>2, <3>3 DEF D!AccountRow
  <2> QED
    BY <1>t, <2>1, LinkStages DEF Linked, Linkless, Taking
<1>2. ASSUME D!CreateAccount(w)
      PROVE  LinkIInv'
  <2>1. update[w].pc = "create" /\ UNCHANGED <<session, opened, answered, doubled>>
    BY <1>2 DEF D!CreateAccount, D!At
  <2>2. CASE account' = "new" /\ D!Goto(w, "defer") /\ UNCHANGED given
    BY <2>1, <2>2, LinkStages DEF Linked, Linkless, Taking, D!AccountRow
  <2>3. CASE UNCHANGED account /\ D!Finish(w) /\ D!GiveUp(w)
    <3>1. given \subseteq given' /\ (session = update[w].link \/ update[w].link \in given')
      BY <1>l, <2>1, <2>3 DEF D!GiveUp, Linked, AllLinks
    <3> QED
      BY <1>t, <2>1, <2>3, <3>1, LinkEnds
  <2> QED
    BY <1>2, <2>2, <2>3 DEF D!CreateAccount
<1>3. ASSUME D!DeferLink(w)
      PROVE  LinkIInv'
  <2>1. /\ update[w].pc = "defer" /\ UNCHANGED <<account, opened, answered, doubled>>
        /\ session' = update[w].link /\ D!Finish(w)
        /\ given' = given \cup ({session} \cap AllLinks)
    BY <1>3 DEF D!DeferLink, D!At, D!Deferred, D!SetSession, AllLinks
  <2>2. update[w].link \in AllLinks
    BY <1>l, <2>1 DEF Linked
  <2>3. \A m \in AllLinks : session = m => m \in given'
    BY <2>1
  <2> QED
    BY <1>t, <2>1, <2>2, <2>3, LinkEnds
<1>4. ASSUME D!Crash(w)
      PROVE  LinkIInv'
  <2>1. UNCHANGED <<account, session, opened, answered, doubled>> /\ D!Finish(w) /\ D!GiveUp(w)
    BY <1>4 DEF D!Crash, D!Tables
  <2>2. given \subseteq given'
    BY <2>1 DEF D!GiveUp
  <2>3. \A m \in AllLinks : update[w].link = m => session = m \/ m \in given'
    BY <2>1 DEF D!GiveUp, AllLinks
  <2> QED
    BY <1>t, <2>1, <2>2, <2>3, LinkEnds
<1> QED
  BY <1>1, <1>2, <1>3, <1>4

\* A link is answered: no other handler has it, and the session does not.
LEMMA LinkAnswers ==
    ASSUME LinkIInv, NEW w \in Workers, D!Answer(w),
           \/ UNCHANGED <<session, given>>
           \/ session' = "nav" /\ given' = given \cup ({session} \cap AllLinks)
    PROVE  LinkIInv'
<1>n. None \notin AllLinks /\ "none" \notin AllLinks /\ "nav" \notin AllLinks
  BY LinkNames
<1>t. LinkTypes
  BY DEF LinkIInv
<1>q. PICK m \in AllLinks : m = update[w].link
  BY DEF LinkIInv, HandlerRow, D!Answer, D!At, Linked
<1>1. /\ update[w].pc = "answer" /\ update' = [update EXCEPT ![w] = D!Idle]
      /\ UNCHANGED <<account, opened, doubled>>
      /\ answered' = [answered EXCEPT ![m] = IF @ = 2 THEN 2 ELSE @ + 1]
  BY <1>q DEF D!Answer, D!At, D!Finish
<1>2. /\ update' \in [Workers -> Handlers] /\ update'[w] = D!Idle
      /\ \A v \in Workers \ {w} : update'[v] = update[v]
  BY <1>1, <1>t, IdleHandler DEF LinkTypes
<1>3. /\ answered' \in [AllLinks -> 0 .. 2] /\ answered'[m] > 0
      /\ answered[m] = 0 => answered'[m] = 1
      /\ \A l \in AllLinks \ {m} : answered'[l] = answered[l]
  <2>1. answered[m] \in 0 .. 2
    BY <1>t DEF LinkTypes
  <2>2. (IF answered[m] = 2 THEN 2 ELSE answered[m] + 1) \in 1 .. 2
    BY <2>1
  <2> QED
    BY <1>1, <1>t, <2>1, <2>2 DEF LinkTypes
<1>4. session' \in {"none", "nav"} \cup AllLinks /\ session' \in {session, "nav"}
  BY <1>t DEF LinkTypes
<1>5. LinkTypes'
  BY <1>t, <1>1, <1>2, <1>3, <1>4 DEF LinkTypes
<1>6. \A v \in Workers : HandlerRow(update[v])'
  <2>1. \A v \in Workers : HandlerRow(update'[v])
    BY <1>2, IdleHandler DEF LinkIInv, HandlerRow, Linked
  <2> QED
    BY <2>1 DEF HandlerRow
<1>7. ASSUME NEW l \in AllLinks \ opened'
      PROVE  Unopened(l)'
  <2>1. Unopened(l) /\ l # m
    BY <1>1, <1>q DEF LinkIInv, Unopened
  <2> QED
    BY <1>2, <1>3, <1>4, <1>n, <2>1, IdleHandler DEF Unopened
<1>8. ASSUME NEW l \in AllLinks \ doubled'
      PROVE  LinkRight(l)'
  <2>1. LinkRight(l)
    BY <1>1 DEF LinkIInv
  <2>2. D!Idle.link # l
    BY <1>n, IdleHandler
  <2>3. CASE l = m
    <3>1. /\ session # m /\ \A v \in Workers \ {w} : update[v].link # m
          /\ ~(answered[m] > 0)
      BY <1>1, <1>q, <2>1, <2>3 DEF LinkRight, Taking
    <3>2. answered[m] = 0
      BY <1>t, <3>1 DEF LinkTypes
    <3>3. session' # m /\ \A v \in Workers : update'[v].link # m
      BY <1>2, <1>4, <1>n, <2>2, <2>3, <3>1
    <3> QED
      BY <1>3, <2>3, <3>2, <3>3 DEF LinkRight
  <2>4. CASE l # m
    BY <1>2, <1>3, <1>4, <1>n, <2>1, <2>2, <2>4 DEF LinkRight
  <2> QED
    BY <2>3, <2>4
<1>9. ASSUME NEW l \in opened'
      PROVE  l \in given' \/ answered'[l] > 0 \/ session' = l
               \/ \E v \in Workers : update'[v].link = l
  <2>0. l \in opened /\ l \in AllLinks
    BY <1>1, <1>t DEF LinkTypes
  <2>1. CASE l = m
    BY <1>3, <2>1
  <2>2. CASE l # m
    <3>1. l \in given => l \in given'
      OBVIOUS
    <3>2. session = l => session' = l \/ l \in given'
      BY <2>0
    <3>3. \A v \in Workers : update[v].link = l => update'[v].link = l
      BY <1>2, <1>q, <2>2
    <3> QED
      BY <1>3, <2>0, <2>2, <3>1, <3>2, <3>3 DEF LinkIInv
  <2> QED
    BY <2>1, <2>2
<1> QED
  BY <1>5, <1>6, <1>7, <1>8, <1>9 DEF LinkIInv

\* A link is opened.
LEMMA LinkOpens ==
    ASSUME LinkIInv, NEW w \in Workers, NEW m \in AllLinks, D!OpenLink(w, m)
    PROVE  LinkIInv'
<1>t. LinkTypes
  BY DEF LinkIInv
<1> DEFINE r == [D!Idle EXCEPT !.pc = "find", !.link = m]
<1>1. r \in Handlers /\ r.pc = "find" /\ r.link = m
  BY DEF D!Idle, Handlers, Linked
<1>2. /\ update[w].pc = "idle" /\ m \notin opened /\ update' = [update EXCEPT ![w] = r]
      /\ opened' = opened \cup {m}
      /\ UNCHANGED <<account, session, answered, given, doubled>>
  BY DEF D!OpenLink, D!At, D!Tables
<1> HIDE DEF r
<1>3. /\ update' \in [Workers -> Handlers] /\ update'[w] = r
      /\ \A v \in Workers \ {w} : update'[v] = update[v]
  BY <1>t, <1>1, <1>2 DEF LinkTypes
<1>4. Unopened(m) /\ HandlerRow(r) /\ update[w].link \notin AllLinks
  <2>1. update[w].link = None
    BY <1>2 DEF LinkIInv, HandlerRow, Linkless
  <2> QED
    BY <1>1, <1>2, <2>1, LinkNames DEF LinkIInv, HandlerRow, Linkless
<1>5. LinkTypes'
  BY <1>t, <1>2, <1>3 DEF LinkTypes
<1>6. \A v \in Workers : HandlerRow(update[v])'
  <2>1. \A v \in Workers : HandlerRow(update'[v])
    BY <1>3, <1>4 DEF LinkIInv
  <2> QED
    BY <2>1 DEF HandlerRow
<1>7. ASSUME NEW l \in AllLinks \ opened'
      PROVE  Unopened(l)'
  <2>1. Unopened(l) /\ l # m
    BY <1>2 DEF LinkIInv
  <2> QED
    BY <1>1, <1>2, <1>3, <2>1 DEF Unopened
<1>8. ASSUME NEW l \in AllLinks \ doubled'
      PROVE  LinkRight(l)'
  <2>1. LinkRight(l)
    BY <1>2 DEF LinkIInv
  <2>2. CASE l = m
    BY <1>1, <1>2, <1>3, <1>4, <2>2 DEF LinkRight, Unopened
  <2>3. CASE l # m
    BY <1>1, <1>2, <1>3, <2>1, <2>3 DEF LinkRight
  <2> QED
    BY <2>2, <2>3
<1>9. ASSUME NEW l \in opened'
      PROVE  l \in given' \/ answered'[l] > 0 \/ session' = l
               \/ \E v \in Workers : update'[v].link = l
  <2>1. CASE l = m
    BY <1>1, <1>3, <2>1
  <2>2. CASE l # m
    <3>1. l \in opened /\ l \in AllLinks
      BY <1>2, <1>t, <2>2 DEF LinkTypes
    <3>2. \A v \in Workers : update[v].link = l => update'[v].link = l
      BY <1>3, <1>4, <3>1
    <3> QED
      BY <1>2, <3>1, <3>2 DEF LinkIInv
  <2> QED
    BY <2>1, <2>2
<1> QED
  BY <1>5, <1>6, <1>7, <1>8, <1>9 DEF LinkIInv

\* The row is written or deleted meanwhile.
LEMMA LinkLeaves ==
    ASSUME LinkIInv, UNCHANGED <<account, update, opened, answered, doubled>>,
           \/ UNCHANGED <<session, given>>
           \/ session' \in {"none", "nav"} /\ given' = given \cup ({session} \cap AllLinks)
    PROVE  LinkIInv'
<1>n. "none" \notin AllLinks /\ "nav" \notin AllLinks
  BY LinkNames
<1>1. LinkTypes'
  BY DEF LinkIInv, LinkTypes
<1>2. \A v \in Workers : HandlerRow(update[v])'
  BY DEF LinkIInv, HandlerRow
<1>3. \A l \in AllLinks : session' = l => session = l
  BY <1>n
<1>4. \A l \in AllLinks \ opened' : Unopened(l)'
  BY <1>3 DEF LinkIInv, Unopened
<1>5. ASSUME NEW l \in AllLinks \ doubled'
      PROVE  LinkRight(l)'
  <2>1. LinkRight(l)
    BY DEF LinkIInv
  <2> QED
    BY <1>3, <2>1 DEF LinkRight
<1>6. ASSUME NEW l \in opened'
      PROVE  l \in given' \/ answered'[l] > 0 \/ session' = l
               \/ \E v \in Workers : update'[v].link = l
  <2>1. l \in opened /\ l \in AllLinks
    BY DEF LinkIInv, LinkTypes
  <2>2. (session = l => session' = l \/ l \in given') /\ (l \in given => l \in given')
    BY <2>1
  <2> QED
    BY <2>1, <2>2 DEF LinkIInv
<1> QED
  BY <1>1, <1>2, <1>4, <1>5, <1>6 DEF LinkIInv

\* The button of language takes the link from the session.
LEMMA LinkResumes ==
    ASSUME LinkIInv, NEW w \in Workers
    PROVE  /\ D!SetLanguage(w) => LinkIInv'
           /\ D!ReadContext(w) => LinkIInv'
           /\ D!CheckContext(w) => LinkIInv'
           /\ D!ClearContext(w) => LinkIInv'
           /\ D!LeaveFlow(w) => LinkIInv'
<1>n. None \notin AllLinks /\ "none" \notin AllLinks /\ "nav" \notin AllLinks
  BY LinkNames
<1>t. session \in {"none", "nav"} \cup AllLinks /\ account \in D!AccountRow
  BY DEF LinkIInv, LinkTypes
<1>q. PICK q \in Handlers : q = update[w] /\ HandlerRow(q)
  BY DEF LinkIInv, LinkTypes
<1>r. \A m : D!Resume(m) \in {"find", "answer"}
  BY DEF D!Resume
<1>1. ASSUME D!SetLanguage(w)
      PROVE  LinkIInv'
  BY <1>1, LinkStages DEF D!SetLanguage, D!At, D!Told, D!AccountRow, Linked, Linkless, Taking
<1>2. ASSUME D!ReadContext(w)
      PROVE  LinkIInv'
  <2>1. q.pc = "context" /\ UNCHANGED <<account, session, opened, answered, given>>
    BY <1>2, <1>q DEF D!ReadContext, D!At, D!Tables
  <2>2. q.link = None
    BY <1>q, <2>1 DEF HandlerRow, Linkless
  <2>3. CASE session \in AllLinks
    <3> DEFINE r == [pc |-> "check", link |-> session]
    <3>1. /\ update' = [update EXCEPT ![w] = r]
          /\ doubled' = IF \E v \in Workers \ {w} : /\ update[v].pc \in {"check", "clear"}
                                                    /\ update[v].link = session
                        THEN doubled \cup {session} ELSE doubled
      BY <1>2, <2>3 DEF D!ReadContext, AllLinks
    <3>2. r \in Handlers /\ r.pc = "check" /\ r.link = session
      BY <2>3 DEF Handlers, Linked
    <3> HIDE DEF r
    <3>3. HandlerRow(r)
      BY <2>3, <3>2 DEF HandlerRow, Linkless
    <3>4. session \in doubled' \/ \A v \in Workers \ {w} : update[v].link # session
      <4>1. CASE session \in doubled
        BY <3>1, <4>1
      <4>2. CASE session \notin doubled
        BY <2>3, <3>1, <4>2 DEF LinkIInv, LinkRight, Taking
      <4> QED
        BY <4>1, <4>2
    <3>5. /\ \A m \in AllLinks : r.link = m =>
                session = m /\ (m \in doubled' \/ \A v \in Workers \ {w} : update[v].link # m)
          /\ \A m \in AllLinks : session' = m => session = m
          /\ r.pc \in Taking
          /\ \A m \in AllLinks : session = m \/ update[w].link = m => session' = m
      BY <1>n, <1>q, <2>1, <2>2, <3>2, <3>4 DEF Taking
    <3>6. doubled \subseteq doubled'
      BY <3>1
    <3> QED
      BY <1>t, <2>1, <3>1, <3>2, <3>3, <3>5, <3>6, LinkMoves
  <2>4. CASE session \notin AllLinks
    <3>1. D!Finish(w) /\ UNCHANGED doubled
      BY <1>2, <2>4 DEF D!ReadContext, AllLinks
    <3>2. \A m \in AllLinks : session = m \/ update[w].link = m => session' = m
      BY <1>n, <1>q, <2>1, <2>2
    <3> QED
      BY <1>t, <2>1, <3>1, <3>2, LinkEnds
  <2> QED
    BY <2>3, <2>4
<1>3. ASSUME D!CheckContext(w)
      PROVE  LinkIInv'
  <2>1. q.pc = "check" /\ UNCHANGED <<account, session, opened, answered, given, doubled>>
    BY <1>3, <1>q DEF D!CheckContext, D!At, D!Tables, D!Told
  <2>2. \/ D!Goto(w, "clear")
        \/ session \notin AllLinks /\ \E st \in {"find", "answer"} : D!Goto(w, st)
    BY <1>3, <1>r DEF D!CheckContext, D!FlowIsDeferred, AllLinks
  <2> QED
    BY <1>q, <1>t, <2>1, <2>2, LinkStages DEF Linked, Linkless, Taking
<1>4. ASSUME D!ClearContext(w)
      PROVE  LinkIInv'
  <2>1. /\ q.pc = "clear" /\ UNCHANGED <<account, opened, answered, doubled>>
        /\ session' = "none" /\ \E st \in {"find", "answer"} : D!Goto(w, st)
        /\ given' = IF session = q.link THEN given ELSE given \cup ({session} \cap AllLinks)
    BY <1>4, <1>q, <1>r DEF D!ClearContext, D!At, D!Delete, AllLinks
  <2>2. PICK st \in {"find", "answer"} : D!Goto(w, st)
    BY <2>1
  <2> DEFINE r == [q EXCEPT !.pc = st]
  <2>3. r \in Handlers /\ r.pc = st /\ r.link = q.link /\ update' = [update EXCEPT ![w] = r]
    BY <1>q, <2>2 DEF Handlers, Linked, D!Goto
  <2> HIDE DEF r
  <2>4. HandlerRow(r)
    BY <1>q, <2>1, <2>3 DEF HandlerRow, Linked, Linkless
  <2>5. /\ \A m \in AllLinks : r.link = m => update[w].link = m
        /\ \A m \in AllLinks : session' # m
        /\ \A m \in AllLinks : session = m \/ update[w].link = m => r.link = m \/ m \in given'
    BY <1>n, <1>q, <2>1, <2>3
  <2>6. given \subseteq given' /\ session' \in {"none", "nav"} \cup AllLinks
    BY <2>1
  <2> QED
    BY <1>t, <2>1, <2>3, <2>4, <2>5, <2>6, LinkMoves
<1>5. ASSUME D!LeaveFlow(w)
      PROVE  LinkIInv'
  <2>1. /\ q.pc = "leave" /\ UNCHANGED <<account, opened, answered, doubled>>
        /\ session' = "none" /\ D!Finish(w)
        /\ given' = IF session = "nav" THEN given ELSE given \cup ({session} \cap AllLinks)
    BY <1>5, <1>q DEF D!LeaveFlow, D!At, D!Delete, AllLinks
  <2>2. q.link = None
    BY <1>q, <2>1 DEF HandlerRow, Linkless
  <2>3. \A m \in AllLinks : session = m \/ update[w].link = m => m \in given'
    BY <1>n, <1>q, <2>1, <2>2
  <2>4. /\ given \subseteq given' /\ session' \in {"none", "nav"} \cup AllLinks
        /\ \A m \in AllLinks : session' # m
    BY <1>n, <2>1
  <2> QED
    BY <1>t, <2>1, <2>3, <2>4, LinkEnds
<1> QED
  BY <1>1, <1>2, <1>3, <1>4, <1>5

\* Stages of the menus and of the button.
LEMMA LinkMenus ==
    ASSUME LinkIInv, NEW w \in Workers
    PROVE  /\ D!PressLanguage(w) => LinkIInv'
           /\ D!FindPressing(w) => LinkIInv'
           /\ D!CreatePressing(w) => LinkIInv'
           /\ D!GoHome(w) => LinkIInv'
           /\ D!ReadFlow(w) => LinkIInv'
<1>t. session \in {"none", "nav"} \cup AllLinks /\ account \in D!AccountRow
  BY DEF LinkIInv, LinkTypes
<1>n. None \notin AllLinks
  BY LinkNames
\* A handler without a link ends.
<1>f. ASSUME D!Finish(w), UNCHANGED <<account, session, opened, answered, given, doubled>>,
             update[w].pc \in Linkless
      PROVE  LinkIInv'
  <2>1. \A m \in AllLinks : update[w].link # m
    BY <1>f, <1>n DEF LinkIInv, HandlerRow
  <2> QED
    BY <1>f, <1>t, <2>1, LinkEnds
<1>1. ASSUME D!PressLanguage(w)
      PROVE  LinkIInv'
  BY <1>1, <1>t, LinkStages DEF D!PressLanguage, D!At, D!Tables, D!Told, Linked, Linkless, Taking
<1>2. ASSUME D!FindPressing(w)
      PROVE  LinkIInv'
  BY <1>2, <1>t, LinkStages DEF D!FindPressing, D!At, D!Tables, D!Told, Linked, Linkless, Taking
<1>3. ASSUME D!CreatePressing(w)
      PROVE  LinkIInv'
  <2>1. update[w].pc = "createFirst" /\ UNCHANGED <<session, opened, answered, given, doubled>>
    BY <1>3 DEF D!CreatePressing, D!At, D!Told
  <2>2. CASE account' = "new" /\ D!Goto(w, "choose")
    BY <2>1, <2>2, LinkStages DEF D!AccountRow, Linked, Linkless, Taking
  <2>3. CASE UNCHANGED account /\ D!Finish(w)
    BY <1>f, <2>1, <2>3 DEF Linkless
  <2> QED
    BY <1>3, <2>2, <2>3 DEF D!CreatePressing
<1>4. ASSUME D!GoHome(w)
      PROVE  LinkIInv'
  BY <1>4, <1>t, LinkStages DEF D!GoHome, D!At, D!Tables, D!Told, Linked, Linkless, Taking
<1>5. ASSUME D!ReadFlow(w)
      PROVE  LinkIInv'
  <2>1. /\ D!Finish(w) \/ D!Goto(w, "leave")
        /\ UNCHANGED <<account, session, opened, answered, given, doubled>>
    BY <1>5 DEF D!ReadFlow, D!At, D!Tables, D!Told
  <2>2. update[w].pc = "goHome"
    BY <1>5 DEF D!ReadFlow, D!At
  <2> QED
    BY <1>f, <1>t, <2>1, <2>2, LinkStages DEF Linked, Linkless, Taking
<1> QED
  BY <1>1, <1>2, <1>3, <1>4, <1>5

LEMMA LinkStart ==
    ASSUME D!Init
    PROVE  LinkIInv
<1>n. None \notin AllLinks /\ "none" \notin AllLinks
  BY LinkNames
<1>1. LinkTypes
  BY IdleHandler DEF D!Init, LinkTypes, AllLinks
<1>2. /\ \A w \in Workers : update[w] = D!Idle
      /\ session = "none" /\ opened = {} /\ \A l \in AllLinks : answered[l] = 0
  BY DEF D!Init, AllLinks
<1>3. \A w \in Workers : HandlerRow(update[w]) /\ update[w].link = None
  BY <1>2, IdleHandler DEF HandlerRow, Linked
<1>4. \A l \in AllLinks : Unopened(l) /\ LinkRight(l)
  BY <1>n, <1>2, <1>3 DEF Unopened, LinkRight
<1> QED
  BY <1>1, <1>2, <1>3, <1>4 DEF LinkIInv

LEMMA LinkNext ==
    ASSUME LinkIInv, D!Next
    PROVE  LinkIInv'
<1>1. ASSUME NEW w \in Workers, D!SendCode(w) \/ D!AskToConfirm(w) \/ D!ShowScreen(w)
      PROVE  LinkIInv'
  <2>1. D!Answer(w)
    BY <1>1 DEF D!SendCode, D!AskToConfirm, D!ShowScreen
  <2>2. \/ UNCHANGED <<session, given>>
        \/ session' = "nav" /\ given' = given \cup ({session} \cap AllLinks)
    BY <1>1 DEF D!SendCode, D!AskToConfirm, D!ShowScreen, D!SetSession, AllLinks
  <2> QED
    BY <2>1, <2>2, LinkAnswers
<1>2. ASSUME D!Navigate \/ D!Expire
      PROVE  LinkIInv'
  <2>1. UNCHANGED <<account, update, opened, answered, doubled>>
    BY <1>2 DEF D!Navigate, D!Expire
  <2>2. session' \in {"none", "nav"} /\ given' = given \cup ({session} \cap AllLinks)
    BY <1>2 DEF D!Navigate, D!Expire, D!SetSession, AllLinks
  <2> QED
    BY <2>1, <2>2, LinkLeaves
<1>3. ASSUME NEW w \in Workers, NEW m \in Accounts \cup Links, D!OpenLink(w, m)
      PROVE  LinkIInv'
  BY <1>3, LinkOpens DEF AllLinks
<1> QED
  BY <1>1, <1>2, <1>3, LinkSteps, LinkResumes, LinkMenus DEF D!Next

\* However many links are opened and however often a language is chosen meanwhile: a link
\* is in the hands of one handler or in the session, and in neither once it is answered,
\* unless two handlers of the button have taken it at one time.
THEOREM LinkInvariance == Both => []LinkIInv
<1>1. BothInit => LinkIInv
  BY LinkStart DEF BothInit
<1>2. LinkIInv /\ [BothNext]_allVars => LinkIInv'
  <2> SUFFICES ASSUME LinkIInv, [BothNext]_allVars
               PROVE  LinkIInv'
    OBVIOUS
  <2>1. CASE UNCHANGED <<account, session, update, opened, answered, given, doubled>>
    BY <2>1, LinkLeaves
  <2>2. CASE D!Next
    BY <2>2, LinkNext
  <2> QED
    BY <2>1, <2>2 DEF BothNext, allVars, linkVars
<1> QED
  BY <1>1, <1>2, PTL DEF Both

\* A link of the application that was opened, resolveTelegramUser, requireLanguageOrPrompt
\* and resumeDeferredContext, is answered, on its way, or kept for the language, or was
\* given up for one of the known reasons: however many updates are handled at one time.
THEOREM LinksAreNotForgotten == Both => []NoLinkIsForgotten
<1>1. LinkIInv => NoLinkIsForgotten
  <2> SUFFICES ASSUME LinkIInv, NEW l \in opened
               PROVE  l \in D!Answered \cup given \cup D!OnItsWay
    BY DEF NoLinkIsForgotten, D!NoLinkIsForgotten
  <2>1. l \in AllLinks
    BY DEF LinkIInv, LinkTypes
  <2>2. \/ l \in given \/ answered[l] > 0 \/ session = l
        \/ \E w \in Workers : update[w].link = l
    BY DEF LinkIInv
  <2> QED
    BY <2>1, <2>2 DEF AllLinks, D!Answered, D!OnItsWay
<1> QED
  BY <1>1, LinkInvariance, PTL

\* A link is answered once, however often the button of the language is pressed, unless
\* two handlers of it have read the link in the session before either deletes it.
THEOREM LinksAreAnsweredOnce == Both => []AnsweredOnce
<1>1. LinkIInv => AnsweredOnce
  <2> SUFFICES ASSUME LinkIInv, NEW l \in AllLinks, l \notin doubled
               PROVE  ~(answered[l] > 1)
    BY DEF AnsweredOnce, D!AnsweredOnce, AllLinks
  <2>1. LinkRight(l) /\ answered[l] \in 0..2
    BY DEF LinkIInv, LinkTypes
  <2> QED
    BY <2>1 DEF LinkRight
<1> QED
  BY <1>1, LinkInvariance, PTL

=============================================================================
