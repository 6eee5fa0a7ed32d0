-------------------------- MODULE DumaGuard_proofs --------------------------
(***************************************************************************)
(* Proofs about no man's land, for every page size, set of requests, number *)
(* of blocks, check frequency and length of run.                            *)
(***************************************************************************)
EXTENDS DumaGuard, DumaAddr_proofs

(* What _duma_allocate() has checked of its arguments.                      *)
RequestsValid == \A r \in Requests : ValidRequest(r)

(* The bytes a request lays out: the live ones are the user's or slack, the *)
(* slack is no user's, and it is empty for a request of no bytes.           *)
LEMMA LiveOrSlack ==
  ASSUME NEW r, ValidRequest(r)
  PROVE  LiveBytes(r) \subseteq UserBytes(r) \cup Slack(r)
<1> DEFINE user == UserAddr(r, 0)
           prot == ProtPage(r, 0)
           n == InternalPages(r)
<1>1. CASE r.userSize = 0
  BY <1>1 DEF LiveBytes, LivePages
<1>2. ASSUME r.userSize # 0, NEW b \in LiveBytes(r)
      PROVE  b \in UserBytes(r) \cup Slack(r)
  <2>1. /\ r.userSize \in Nat /\ PageSize \in Nat \ {0} /\ n \in Nat
        /\ user \in Nat /\ prot \in Nat
    BY <1>2, RequestNumbers, BlockGeometry
  <2>2. b \in 0 .. n * PageSize - 1 /\ PageOf(b) \in LivePages(r, 0)
    BY <1>2 DEF LiveBytes, BlockBytes
  <2>3. n * PageSize \in Nat /\ b \in Nat /\ b < n * PageSize
    BY <2>1, <2>2
  <2>4. PageOf(b) \in Int /\ PageOf(b) * PageSize <= b
          /\ b < PageOf(b) * PageSize + PageSize
    BY <2>1, <2>3, DivFacts DEF PageOf
  <2>5. PageOf(user) \in Int
    BY <2>1, DivFacts DEF PageOf
  <2>6. CASE r.protectBelow
    <3>1. user = PageOf(user) * PageSize
      BY <1>2, <2>6, BelowAligned
    <3>2. prot = PageOf(user) - 1
      BY <1>2, <2>6 DEF ProtPage
    <3>3. prot * PageSize < user
      <4>1. prot * PageSize = PageOf(user) * PageSize - PageSize
        BY <2>1, <2>5, <3>2, Distribute
      <4> QED BY <2>1, <3>1, <4>1
    <3>4. PageOf(user) <= PageOf(b)
      <4>1. PageOf(b) \in PageOf(user) .. PageOf(user) + n - (PageOf(user) - prot) - 1
        BY <1>2, <2>2, <2>6 DEF LivePages
      <4> HIDE DEF prot, n
      <4> QED BY <2>1, <2>4, <2>5, <4>1
    <3>5. user <= b
      <4>1. PageOf(user) * PageSize <= PageOf(b) * PageSize
        BY <2>1, <2>4, <2>5, <3>4, Distribute
      <4> QED BY <2>1, <2>3, <2>4, <3>1, <4>1
    <3>6. AccEndAddr(r) = n * PageSize
      BY <3>3 DEF AccEndAddr
    <3> HIDE DEF n
    <3>7. b \in user .. user + r.userSize - 1
            \/ b \in user + r.userSize .. n * PageSize - 1
      <4> HIDE DEF user
      <4> QED BY <2>1, <2>3, <3>5
    <3> QED BY <1>2, <3>6, <3>7 DEF UserBytes, Slack
  <2>7. CASE ~ r.protectBelow
    <3>1. user + r.userSize <= prot * PageSize
      BY <1>2, <2>7, AboveProtection
    <3>2. ~ (prot * PageSize < user) /\ prot * PageSize \in Nat
      BY <2>1, <3>1
    <3>3. AccBegAddr(r) = 0 /\ AccEndAddr(r) = prot * PageSize
      BY <3>2 DEF AccBegAddr, AccEndAddr
    <3>4. PageOf(b) <= prot - 1
      <4>1. PageOf(b) \in 0 .. prot - 1
        BY <1>2, <2>2, <2>7 DEF LivePages
      <4> QED BY <2>1, <4>1
    <3>5. b < prot * PageSize
      <4>1. (PageOf(b) + 1) * PageSize <= prot * PageSize
        <5>1. PageOf(b) + 1 <= prot /\ PageOf(b) + 1 \in Int
          BY <2>1, <2>4, <3>4
        <5> QED BY <2>1, <5>1, Distribute
      <4>2. (PageOf(b) + 1) * PageSize = PageOf(b) * PageSize + PageSize
        BY <2>1, <2>4
      <4> QED BY <2>1, <2>3, <2>4, <3>2, <4>1, <4>2
    <3>6. \/ b \in 0 .. user - 1
          \/ b \in user .. user + r.userSize - 1
          \/ b \in user + r.userSize .. prot * PageSize - 1
      <4> HIDE DEF user, prot
      <4> QED BY <2>1, <2>3, <3>2, <3>5
    <3> QED BY <1>2, <3>3, <3>6 DEF UserBytes, Slack
  <2> QED BY <2>6, <2>7
<1> QED BY <1>1, <1>2, Zenon

LEMMA SlackFacts ==
  ASSUME NEW r, ValidRequest(r)
  PROVE  /\ Slack(r) \cap UserBytes(r) = {}
         /\ r.userSize = 0 => Slack(r) = {}
<1> DEFINE user == UserAddr(r, 0)
           u == r.userSize
<1>1. user \in Nat /\ u \in Nat
  BY BlockGeometry DEF ValidRequest
<1>2. ASSUME NEW b \in Slack(r), b \in UserBytes(r)
      PROVE  FALSE
  <2>1. b \in user .. user + u - 1
    BY <1>2 DEF UserBytes
  <2>2. b \in AccBegAddr(r) .. user - 1 \/ b \in user + u .. AccEndAddr(r) - 1
    BY <1>2 DEF Slack
  <2> HIDE DEF user, u
  <2>3. b \in Int /\ user <= b /\ b < user + u
    BY <1>1, <2>1
  <2>4. b \in AccBegAddr(r) .. user - 1 => b <= user - 1
    BY <1>1, <2>3
  <2>5. b \in user + u .. AccEndAddr(r) - 1 => user + u <= b
    BY <1>1, <2>3
  <2> QED BY <1>1, <2>2, <2>3, <2>4, <2>5
<1>3. u = 0 => Slack(r) = {}
  BY DEF Slack
<1> QED BY <1>2, <1>3

-----------------------------------------------------------------------------

Blocks ==
  [used : BOOLEAN, r : Requests \cup {Empty.r}, filled : SUBSET Int,
   hurt : BOOLEAN, age : Nat]

GuardTypeOK ==
  /\ block \in [Slots -> Blocks]
  /\ checkFreqCounter \in Nat
  /\ status \in {"run", "aborted", "trapped"}

(* The damage a block has is the one its slack shows, and its age is at     *)
(* most the number of calls since the last periodic check.                  *)
DamageKnown ==
  \A s \in Slots :
    /\ block[s].used => block[s].r \in Requests
    /\ block[s].used => (block[s].hurt <=> ~ SlackIntact(s))
    /\ ~ block[s].used => ~ block[s].hurt
    /\ ~ block[s].hurt => block[s].age = 0
    /\ block[s].hurt /\ CHECK_FREQ > 0 /\ status = "run" =>
         block[s].age <= checkFreqCounter

CounterBelow ==
  CHECK_FREQ > 0 /\ status = "run" => checkFreqCounter < CHECK_FREQ

AbortExplained == status = "aborted" => \E s \in Used : block[s].hurt

IInv == GuardTypeOK /\ DamageKnown /\ CounterBelow /\ AbortExplained

LEMMA InitInv == CHECK_FREQ \in Nat => (Init => IInv)
<1> SUFFICES ASSUME CHECK_FREQ \in Nat, Init PROVE IInv
  OBVIOUS
<1>1. Empty.used = FALSE /\ Empty.hurt = FALSE /\ Empty.age = 0
  BY DEF Empty
<1>2. Empty \in Blocks
  BY DEF Empty, Blocks
<1>3. \A s \in Slots : block[s] = Empty
  BY DEF Init
<1> QED BY <1>1, <1>2, <1>3
    DEF Init, IInv, GuardTypeOK, DamageKnown, CounterBelow, AbortExplained

(* A periodic check that comes back has seen every block intact.            *)
LEMMA AllIntactFacts ==
  ASSUME RequestsValid, IInv, NEW s \in Slots, AllIntact
  PROVE  ~ block[s].hurt
<1>1. CASE ~ block[s].used
  BY <1>1 DEF IInv, DamageKnown
<1>2. CASE block[s].used
  <2>1. block[s].r.userSize = 0 => Slack(block[s].r) = {}
    BY <1>2, SlackFacts DEF IInv, DamageKnown, RequestsValid
  <2>2. SlackIntact(s)
    BY <1>2, <2>1 DEF AllIntact, Used, SlackIntact
  <2> QED BY <1>2, <2>2 DEF IInv, DamageKnown
<1> QED BY <1>1, <1>2

(* A check that does not come back has seen a damaged block.                *)
LEMMA DamageSeen ==
  ASSUME IInv
  PROVE  /\ ~ AllIntact => \E s \in Used : block[s].hurt
         /\ \A s \in Used : ~ SlackIntact(s) => block[s].hurt
BY DEF IInv, DamageKnown, AllIntact, Used

LEMMA AbortStep ==
  ASSUME CHECK_FREQ \in Nat, IInv, Abort, \E s \in Used : block[s].hurt,
         checkFreqCounter' \in Nat
  PROVE  IInv'
<1>1. block' = block /\ status' = "aborted"
  BY DEF Abort
<1> QED BY <1>1
    DEF IInv, GuardTypeOK, DamageKnown, CounterBelow, AbortExplained, Used,
        SlackIntact

(* The counter and the ages after an allocation or release that went on.    *)
LEMMA CountStep ==
  ASSUME CHECK_FREQ \in Nat, RequestsValid, IInv, status = "run",
         checkFreqCounter' = NextCounter, ~ (CheckDue /\ ~ AllIntact),
         NEW s \in Slots
  PROVE  /\ checkFreqCounter' \in Nat
         /\ CHECK_FREQ > 0 => checkFreqCounter' < CHECK_FREQ
         /\ Older[s] \in Blocks
         /\ Older[s].used = block[s].used /\ Older[s].r = block[s].r
         /\ Older[s].filled = block[s].filled /\ Older[s].hurt = block[s].hurt
         /\ ~ block[s].hurt => Older[s].age = 0
         /\ block[s].hurt /\ CHECK_FREQ > 0 => Older[s].age <= checkFreqCounter'
<1> USE DEF IInv, GuardTypeOK, DamageKnown, CounterBelow
<1>1. block[s] \in Blocks /\ checkFreqCounter \in Nat
  OBVIOUS
<1>2. Older[s] = IF block[s].hurt THEN [block[s] EXCEPT !.age = @ + 1] ELSE block[s]
  BY DEF Older
<1>3. /\ Older[s] \in Blocks
      /\ Older[s].used = block[s].used /\ Older[s].r = block[s].r
      /\ Older[s].filled = block[s].filled /\ Older[s].hurt = block[s].hurt
      /\ ~ block[s].hurt => Older[s].age = 0
      /\ block[s].hurt => Older[s].age = block[s].age + 1
  BY <1>1, <1>2 DEF Blocks
<1>4. checkFreqCounter' \in Nat /\ (CHECK_FREQ > 0 => checkFreqCounter' < CHECK_FREQ)
  BY <1>1 DEF NextCounter, CheckDue
<1>5. ASSUME block[s].hurt, CHECK_FREQ > 0
      PROVE  Older[s].age <= checkFreqCounter'
  <2>1. ~ CheckDue
    BY <1>5, AllIntactFacts
  <2>2. checkFreqCounter' = checkFreqCounter + 1
    BY <1>5, <2>1 DEF NextCounter
  <2>3. block[s].age <= checkFreqCounter /\ block[s].age \in Nat
    BY <1>1, <1>5 DEF Blocks
  <2> QED BY <1>1, <1>3, <1>5, <2>2, <2>3
<1> QED BY <1>3, <1>4, <1>5

-----------------------------------------------------------------------------

LEMMA AllocateStep ==
  ASSUME CHECK_FREQ \in Nat, RequestsValid, IInv, Allocate
  PROVE  IInv' /\ \A s \in Slots : block[s].used /\ status' = "run" => block'[s].used
<1>1. checkFreqCounter' = NextCounter /\ checkFreqCounter' \in Nat /\ status = "run"
  BY DEF Allocate, Running, IInv, GuardTypeOK, NextCounter
<1>2. CASE CheckDue /\ ~ AllIntact
  <2>1. Abort
    BY <1>2 DEF Allocate
  <2> QED BY <1>1, <1>2, <2>1, DamageSeen, AbortStep DEF Abort
<1>3. CASE ~ (CheckDue /\ ~ AllIntact)
  <2> DEFINE n == CHOOSE u \in Slots \ Used : TRUE
  <2>1. n \in Slots \ Used
    BY DEF Allocate, Used
  <2>2. PICK r \in Requests :
          /\ block' = [Older EXCEPT ![n] =
                         [used |-> TRUE, r |-> r, filled |-> Slack(r),
                          hurt |-> FALSE, age |-> 0]]
          /\ UNCHANGED status
    BY <1>3, Zenon DEF Allocate
  <2> HIDE DEF n
  <2> DEFINE b == [used |-> TRUE, r |-> r, filled |-> Slack(r),
                   hurt |-> FALSE, age |-> 0]
  <2>3. b \in Blocks
    <3>1. Slack(r) \subseteq Int
      BY DEF Slack
    <3> QED BY <3>1 DEF Blocks
  <2>4. /\ b.used /\ b.r = r /\ b.filled = Slack(r) /\ ~ b.hurt /\ b.age = 0
    OBVIOUS
  <2> HIDE DEF b
  <2>5. Older \in [Slots -> Blocks]
    BY <1>1, <1>3, CountStep DEF Older
  <2>6. block' = [Older EXCEPT ![n] = b]
    BY <2>2 DEF b
  <2>7. /\ block' \in [Slots -> Blocks] /\ block'[n] = b
        /\ \A s \in Slots \ {n} : block'[s] = Older[s]
    BY <2>1, <2>3, <2>5, <2>6
  <2>8. status' = "run"
    BY <1>1, <2>2
  <2>9. CHECK_FREQ > 0 => checkFreqCounter' < CHECK_FREQ
    BY <1>1, <1>3, <2>1, CountStep
  <2>10. ASSUME NEW s \in Slots
         PROVE  /\ block'[s].used => block'[s].r \in Requests
                /\ block'[s].used => (block'[s].hurt <=> ~ SlackIntact(s)')
                /\ ~ block'[s].used => ~ block'[s].hurt
                /\ ~ block'[s].hurt => block'[s].age = 0
                /\ block'[s].hurt /\ CHECK_FREQ > 0 => block'[s].age <= checkFreqCounter'
                /\ block[s].used => block'[s].used
    <3>1. CASE s = n
      BY <2>1, <2>4, <2>7, <3>1 DEF SlackIntact, Used
    <3>2. CASE s # n
      <4>1. block'[s] = Older[s]
        BY <2>7, <3>2
      <4>2. /\ Older[s].used = block[s].used /\ Older[s].r = block[s].r
            /\ Older[s].filled = block[s].filled /\ Older[s].hurt = block[s].hurt
            /\ ~ block[s].hurt => Older[s].age = 0
            /\ block[s].hurt /\ CHECK_FREQ > 0 => Older[s].age <= checkFreqCounter'
        BY <1>1, <1>3, CountStep
      <4>3. SlackIntact(s)' <=> SlackIntact(s)
        BY <4>1, <4>2 DEF SlackIntact
      <4>4. /\ block[s].used => block[s].r \in Requests
            /\ block[s].used => (block[s].hurt <=> ~ SlackIntact(s))
            /\ ~ block[s].used => ~ block[s].hurt
        BY DEF IInv, DamageKnown
      <4> QED BY <4>1, <4>2, <4>3, <4>4
    <3> QED BY <3>1, <3>2
  <2> QED BY <1>1, <2>7, <2>8, <2>9, <2>10
      DEF IInv, GuardTypeOK, DamageKnown, CounterBelow, AbortExplained
<1> QED BY <1>2, <1>3

LEMMA DeallocateStep ==
  ASSUME CHECK_FREQ \in Nat, RequestsValid, IInv, Deallocate
  PROVE  /\ IInv'
         /\ \A s \in Slots :
              block[s].used /\ block[s].hurt /\ status' = "run" => block'[s].used
<1>1. PICK n \in Used :
        /\ checkFreqCounter' = NextCounter
        /\ IF (CheckDue /\ ~ AllIntact) \/ ~ SlackIntact(n)
             THEN Abort
             ELSE block' = [Older EXCEPT ![n] = Empty] /\ UNCHANGED status
  BY DEF Deallocate
<1>2. checkFreqCounter' \in Nat /\ status = "run" /\ n \in Slots
  BY <1>1 DEF Deallocate, Running, IInv, GuardTypeOK, NextCounter, Used
<1>3. CASE (CheckDue /\ ~ AllIntact) \/ ~ SlackIntact(n)
  <2>1. Abort
    BY <1>1, <1>3
  <2> QED BY <1>2, <1>3, <2>1, DamageSeen, AbortStep DEF Abort
<1>4. CASE ~ (CheckDue /\ ~ AllIntact) /\ SlackIntact(n)
  <2>1. block' = [Older EXCEPT ![n] = Empty] /\ status' = "run"
    BY <1>1, <1>2, <1>4
  <2>2. Empty \in Blocks /\ ~ Empty.used /\ ~ Empty.hurt /\ Empty.age = 0
    BY DEF Empty, Blocks
  <2>3. Older \in [Slots -> Blocks]
    BY <1>1, <1>2, <1>4, CountStep DEF Older
  <2>4. /\ block' \in [Slots -> Blocks] /\ block'[n] = Empty
        /\ \A s \in Slots \ {n} : block'[s] = Older[s]
    BY <1>2, <2>1, <2>2, <2>3
  <2>5. CHECK_FREQ > 0 => checkFreqCounter' < CHECK_FREQ
    BY <1>1, <1>2, <1>4, CountStep
  <2>6. ASSUME NEW s \in Slots
        PROVE  /\ block'[s].used => block'[s].r \in Requests
               /\ block'[s].used => (block'[s].hurt <=> ~ SlackIntact(s)')
               /\ ~ block'[s].used => ~ block'[s].hurt
               /\ ~ block'[s].hurt => block'[s].age = 0
               /\ block'[s].hurt /\ CHECK_FREQ > 0 => block'[s].age <= checkFreqCounter'
               /\ block[s].used /\ block[s].hurt => block'[s].used
    <3>1. CASE s = n
      <4>1. ~ block[n].hurt
        BY <1>1, <1>2, <1>4 DEF IInv, DamageKnown, Used
      <4> QED BY <2>2, <2>4, <3>1, <4>1
    <3>2. CASE s # n
      <4>1. block'[s] = Older[s]
        BY <2>4, <3>2
      <4>2. /\ Older[s].used = block[s].used /\ Older[s].r = block[s].r
            /\ Older[s].filled = block[s].filled /\ Older[s].hurt = block[s].hurt
            /\ ~ block[s].hurt => Older[s].age = 0
            /\ block[s].hurt /\ CHECK_FREQ > 0 => Older[s].age <= checkFreqCounter'
        BY <1>1, <1>2, <1>4, CountStep
      <4>3. SlackIntact(s)' <=> SlackIntact(s)
        BY <4>1, <4>2 DEF SlackIntact
      <4>4. /\ block[s].used => block[s].r \in Requests
            /\ block[s].used => (block[s].hurt <=> ~ SlackIntact(s))
            /\ ~ block[s].used => ~ block[s].hurt
        BY DEF IInv, DamageKnown
      <4> QED BY <4>1, <4>2, <4>3, <4>4
    <3> QED BY <3>1, <3>2
  <2> QED BY <1>2, <2>1, <2>4, <2>5, <2>6
      DEF IInv, GuardTypeOK, DamageKnown, CounterBelow, AbortExplained
<1> QED BY <1>3, <1>4

(* duma_check() and duma_checkAll() change nothing but the status.          *)
LEMMA CheckStep ==
  ASSUME CHECK_FREQ \in Nat, IInv, Check \/ CheckAll
  PROVE  IInv' /\ block' = block
<1>1. checkFreqCounter' = checkFreqCounter
  BY DEF Check, CheckAll
<1>2. CASE UNCHANGED <<block, status>>
  BY <1>1, <1>2
  DEF IInv, GuardTypeOK, DamageKnown, CounterBelow, AbortExplained, Used, SlackIntact
<1>3. CASE Abort /\ \E s \in Used : block[s].hurt
  BY <1>1, <1>3, AbortStep DEF Abort, IInv, GuardTypeOK
<1> QED BY <1>2, <1>3, DamageSeen DEF Check, CheckAll

LEMMA WriteStep ==
  ASSUME CHECK_FREQ \in Nat, RequestsValid, IInv, Write
  PROVE  IInv' /\ \A s \in Slots : block[s].used => block'[s].used
<1>0. PICK n \in Used : \E a \in BlockBytes(block[n].r) :
        IF a \in LiveBytes(block[n].r)
          THEN /\ block' = [block EXCEPT
                    ![n].filled = @ \ {a},
                    ![n].hurt = @ \/ a \notin UserBytes(block[n].r)]
               /\ UNCHANGED status
          ELSE status' = "trapped" /\ UNCHANGED block
  BY DEF Write
<1>1. PICK a \in BlockBytes(block[n].r) :
        IF a \in LiveBytes(block[n].r)
          THEN /\ block' = [block EXCEPT
                    ![n].filled = @ \ {a},
                    ![n].hurt = @ \/ a \notin UserBytes(block[n].r)]
               /\ UNCHANGED status
          ELSE status' = "trapped" /\ UNCHANGED block
  BY <1>0
<1>2. checkFreqCounter' = checkFreqCounter /\ status = "run" /\ n \in Slots
  BY <1>1 DEF Write, Running, Used
<1>3. CASE a \notin LiveBytes(block[n].r)
  BY <1>1, <1>2, <1>3
  DEF IInv, GuardTypeOK, DamageKnown, CounterBelow, AbortExplained, SlackIntact
<1>4. CASE a \in LiveBytes(block[n].r)
  <2> DEFINE old == block[n]
             new == [[old EXCEPT !.filled = @ \ {a}] EXCEPT
                       !.hurt = @ \/ a \notin UserBytes(old.r)]
  <2>1. old \in Blocks /\ block \in [Slots -> Blocks]
    BY <1>2 DEF IInv, GuardTypeOK
  <2>2. /\ new \in Blocks /\ new.used = old.used /\ new.r = old.r
        /\ new.filled = old.filled \ {a} /\ new.age = old.age
        /\ new.hurt <=> (old.hurt \/ a \notin UserBytes(old.r))
    BY <2>1 DEF Blocks
  <2>3. /\ block' \in [Slots -> Blocks] /\ block'[n] = new /\ status' = status
        /\ \A s \in Slots \ {n} : block'[s] = block[s]
    BY <1>1, <1>2, <1>4, <2>1, <2>2
  <2> HIDE DEF old, new
  <2>4. /\ old.used /\ old.r \in Requests
        /\ old.hurt <=> ~ (Slack(old.r) \subseteq old.filled)
        /\ ~ old.hurt => old.age = 0
        /\ old.hurt /\ CHECK_FREQ > 0 => old.age <= checkFreqCounter
    BY <1>1, <1>2 DEF IInv, DamageKnown, SlackIntact, Used, old
  <2>5. /\ a \in UserBytes(old.r) \cup Slack(old.r)
        /\ Slack(old.r) \cap UserBytes(old.r) = {}
    BY <1>4, <2>4, LiveOrSlack, SlackFacts DEF RequestsValid, old
  <2>6. new.hurt <=> ~ (Slack(new.r) \subseteq new.filled)
    BY <2>2, <2>4, <2>5
  <2>7. SlackIntact(n)' <=> (Slack(new.r) \subseteq new.filled)
    BY <2>3 DEF SlackIntact
  <2>8. checkFreqCounter \in Nat /\ old.age \in Nat
    BY <2>1 DEF IInv, GuardTypeOK, Blocks
  <2>9. new.age = 0 \/ old.hurt
    BY <2>2, <2>4
  <2>10. ASSUME NEW s \in Slots
         PROVE  /\ block'[s].used => block'[s].r \in Requests
                /\ block'[s].used => (block'[s].hurt <=> ~ SlackIntact(s)')
                /\ ~ block'[s].used => ~ block'[s].hurt
                /\ ~ block'[s].hurt => block'[s].age = 0
                /\ block'[s].hurt /\ CHECK_FREQ > 0 /\ status' = "run" =>
                     block'[s].age <= checkFreqCounter'
                /\ block[s].used => block'[s].used
    <3>1. CASE s = n
      <4>1. CHECK_FREQ > 0 => new.age <= checkFreqCounter
        BY <2>2, <2>4, <2>8, <2>9
      <4> QED BY <1>2, <2>2, <2>3, <2>4, <2>6, <2>7, <3>1, <4>1
    <3>2. CASE s # n
      <4>1. block'[s] = block[s] /\ (SlackIntact(s)' <=> SlackIntact(s))
        BY <2>3, <3>2 DEF SlackIntact
      <4> QED BY <1>2, <2>3, <4>1 DEF IInv, DamageKnown
    <3> QED BY <3>1, <3>2
  <2> QED BY <1>2, <2>3, <2>10
      DEF IInv, GuardTypeOK, DamageKnown, CounterBelow, AbortExplained
<1> QED BY <1>3, <1>4

LEMMA NextInv == CHECK_FREQ \in Nat /\ RequestsValid => (IInv /\ [Next]_vars => IInv')
<1> SUFFICES ASSUME CHECK_FREQ \in Nat, RequestsValid, IInv, [Next]_vars PROVE IInv'
  OBVIOUS
<1>1. CASE UNCHANGED vars
  BY <1>1 DEF vars, IInv, GuardTypeOK, DamageKnown, CounterBelow, AbortExplained,
              Used, SlackIntact
<1> QED BY <1>1, AllocateStep, DeallocateStep, CheckStep, WriteStep DEF Next

(* The inductive invariant holds in every reachable state.                  *)
THEOREM GuardInvariant ==
  ASSUME CHECK_FREQ \in Nat, RequestsValid
  PROVE  Spec => []IInv
<1>1. Init => IInv
  BY InitInv
<1>2. IInv /\ [Next]_vars => IInv'
  BY NextInv
<1> QED BY <1>1, <1>2, PTL DEF Spec

(* Every byte of a block in use is the user's, on a dead page, or compared  *)
(* by _duma_check_slack() when the block is released.                       *)
THEOREM EveryByte ==
  ASSUME CHECK_FREQ \in Nat, RequestsValid
  PROVE  Spec => []EveryByteGuarded
<1>1. IInv => EveryByteGuarded
  BY LiveOrSlack DEF IInv, DamageKnown, EveryByteGuarded, Used, RequestsValid
<1> QED BY <1>1, GuardInvariant, PTL

(* _duma_check_slack() fails only for a block that was written outside its  *)
(* buffer, and with DUMA_CHECK_FREQ before that many further calls.         *)
THEOREM Exact ==
  ASSUME CHECK_FREQ \in Nat, RequestsValid
  PROVE  Spec => []ChecksExact
<1>1. IInv => ChecksExact
  <2> SUFFICES ASSUME IInv PROVE ChecksExact
    OBVIOUS
  <2>1. ASSUME CHECK_FREQ > 0, status = "run", NEW s \in Used
        PROVE  block[s].age < CHECK_FREQ
    <3>1. s \in Slots /\ block[s].age \in Nat /\ checkFreqCounter \in Nat
      BY <2>1 DEF Used, IInv, GuardTypeOK, Blocks
    <3>2. checkFreqCounter < CHECK_FREQ
      BY <2>1 DEF IInv, CounterBelow
    <3>3. block[s].age <= checkFreqCounter \/ block[s].age = 0
      BY <2>1, <3>1 DEF IInv, DamageKnown
    <3> QED BY <2>1, <3>1, <3>2, <3>3
  <2> QED BY <2>1 DEF ChecksExact, IInv, AbortExplained
<1> QED BY <1>1, GuardInvariant, PTL

(* A block the program has written around is never released: its free()     *)
(* aborts in _duma_check_slack().                                           *)
THEOREM Found ==
  ASSUME CHECK_FREQ \in Nat, RequestsValid
  PROVE  Spec => DamageFound
<1> DEFINE Kept == \A s \in Slots :
             block[s].used /\ block[s].hurt /\ status' = "run" => block'[s].used
<1>1. IInv /\ [Next]_vars => Kept
  <2> SUFFICES ASSUME IInv, [Next]_vars PROVE Kept
    OBVIOUS
  <2>1. CASE UNCHANGED vars
    BY <2>1 DEF vars
  <2>2. CASE Allocate   BY <2>2, AllocateStep
  <2>3. CASE Deallocate BY <2>3, DeallocateStep
  <2>4. CASE Check \/ CheckAll BY <2>4, CheckStep
  <2>5. CASE Write      BY <2>5, WriteStep
  <2> QED BY <2>1, <2>2, <2>3, <2>4, <2>5 DEF Next
<1>2. IInv /\ [Next]_vars => [Kept]_vars
  BY <1>1
<1> QED BY <1>2, GuardInvariant, PTL DEF Spec, DamageFound

=============================================================================
