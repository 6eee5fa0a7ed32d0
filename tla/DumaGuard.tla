------------------------------ MODULE DumaGuard ------------------------------
(***************************************************************************)
(* No man's land: the bytes of a block that are neither the user's nor on a *)
(* dead page, which _duma_init_slack() fills and _duma_check_slack() looks  *)
(* at (src/duma_hlp.h), in free(), duma_check(), duma_checkAll() and in     *)
(* every CHECK_FREQ-th allocation or release (src/src/duma.c).              *)
(*                                                                          *)
(* The layout of a block is DumaAddr's, with a block that starts at page 0. *)
(* A byte is modelled by whether it holds DUMA_SLACKFILL.  The program may  *)
(* write any byte of a block; on a dead page the write is trapped.          *)
(***************************************************************************)
EXTENDS DumaAddr, FiniteSets

CONSTANTS
  CHECK_FREQ,   \* 0: never
  Requests,     \* the requests for memory
  Slots,        \* the blocks there can be at a time
  MaxSteps      \* bound on the calls and writes

VARIABLES
  block,             \* the slots in use, with their bytes
  checkFreqCounter,
  status,            \* "run", "aborted" or "trapped"
  steps

vars == <<block, checkFreqCounter, status, steps>>

Used == {s \in Slots : block[s].used}

(* The addresses of a block: of its bytes, of the user's, of the live ones. *)
BlockBytes(r) == 0 .. InternalPages(r) * PageSize - 1

UserBytes(r) == UserAddr(r, 0) .. UserAddr(r, 0) + r.userSize - 1

LiveBytes(r) == {a \in BlockBytes(r) : PageOf(a) \in LivePages(r, 0)}

(* accBegAddr and accEndAddr, the "accessible non-protectable address       *)
(* area", from the slot's addresses as both functions compute them.         *)
AccBegAddr(r) ==
  IF ProtPage(r, 0) * PageSize < UserAddr(r, 0) THEN UserAddr(r, 0) ELSE 0

AccEndAddr(r) ==
  IF ProtPage(r, 0) * PageSize < UserAddr(r, 0)
    THEN InternalPages(r) * PageSize
    ELSE ProtPage(r, 0) * PageSize

(* Mutant: the bytes above the buffer are forgotten.                        *)
Slack_Below(r) ==
  IF r.userSize = 0 THEN {} ELSE AccBegAddr(r) .. UserAddr(r, 0) - 1

(* The bytes both loops of _duma_init_slack() and _duma_check_slack() visit.*)
Slack(r) ==
  IF r.userSize = 0
    THEN {}
    ELSE (AccBegAddr(r) .. UserAddr(r, 0) - 1)
           \cup (UserAddr(r, 0) + r.userSize .. AccEndAddr(r) - 1)

(* _duma_check_slack() comes back.                                          *)
SlackIntact(s) == Slack(block[s].r) \subseteq block[s].filled

(* _duma_check_all_slacks() comes back.                                     *)
AllIntact == \A s \in Used : block[s].r.userSize # 0 => SlackIntact(s)

Empty == [used |-> FALSE, r |-> CHOOSE r \in Requests : TRUE,
          filled |-> {}, hurt |-> FALSE, age |-> 0]

Init ==
  /\ block = [s \in Slots |-> Empty]
  /\ checkFreqCounter = 0
  /\ status = "run"
  /\ steps = 0

Running ==
  /\ status = "run" /\ steps < MaxSteps
  /\ steps' = steps + 1

Abort == status' = "aborted" /\ UNCHANGED block

-----------------------------------------------------------------------------

CheckDue == CHECK_FREQ > 0 /\ checkFreqCounter + 1 = CHECK_FREQ

(* Mutant: the counter runs on after a check.                               *)
NextCounter_RunsOn ==
  IF CHECK_FREQ > 0 THEN checkFreqCounter + 1 ELSE checkFreqCounter

NextCounter ==
  IF CHECK_FREQ = 0 THEN checkFreqCounter
    ELSE IF CheckDue THEN 0 ELSE checkFreqCounter + 1

(* Ghost state: how many allocations and releases a damaged block survived. *)
Older == [s \in Slots |->
            IF block[s].hurt THEN [block[s] EXCEPT !.age = @ + 1] ELSE block[s]]

(* _duma_allocate(): the periodic check, and the slack of the new block.    *)
Allocate ==
  /\ Running
  /\ Used # Slots
  /\ checkFreqCounter' = NextCounter
  /\ IF CheckDue /\ ~ AllIntact
       THEN Abort
       ELSE \E r \in Requests :
              LET s == CHOOSE u \in Slots \ Used : TRUE
              IN  /\ block' = [Older EXCEPT ![s] =
                                 [used |-> TRUE, r |-> r, filled |-> Slack(r),
                                  hurt |-> FALSE, age |-> 0]]
                  /\ UNCHANGED status

(* Mutant: the slack is not looked at.                                      *)
Deallocate_Unchecked ==
  /\ Running
  /\ \E s \in Used :
       /\ checkFreqCounter' = NextCounter
       /\ IF CheckDue /\ ~ AllIntact
            THEN Abort
            ELSE block' = [Older EXCEPT ![s] = Empty] /\ UNCHANGED status

(* _duma_deallocate(): the periodic check, then the slack of the block.     *)
Deallocate ==
  /\ Running
  /\ \E s \in Used :
       /\ checkFreqCounter' = NextCounter
       /\ IF (CheckDue /\ ~ AllIntact) \/ ~ SlackIntact(s)
            THEN Abort
            ELSE block' = [Older EXCEPT ![s] = Empty] /\ UNCHANGED status

(* duma_check()                                                             *)
Check ==
  /\ Running
  /\ \E s \in Used : IF SlackIntact(s) THEN UNCHANGED <<block, status>> ELSE Abort
  /\ UNCHANGED checkFreqCounter

(* duma_checkAll()                                                          *)
CheckAll ==
  /\ Running
  /\ IF AllIntact THEN UNCHANGED <<block, status>> ELSE Abort
  /\ UNCHANGED checkFreqCounter

(* The program writes another value than DUMA_SLACKFILL to a byte of the    *)
(* memory of a block.                                                       *)
Write ==
  /\ Running
  /\ \E s \in Used : \E a \in BlockBytes(block[s].r) :
       IF a \in LiveBytes(block[s].r)
         THEN /\ block' = [block EXCEPT
                   ![s].filled = @ \ {a},
                   ![s].hurt = @ \/ a \notin UserBytes(block[s].r)]
              /\ UNCHANGED status
         ELSE status' = "trapped" /\ UNCHANGED block
  /\ UNCHANGED checkFreqCounter

Next == Allocate \/ Deallocate \/ Check \/ CheckAll \/ Write

Spec == Init /\ [][Next]_vars

-----------------------------------------------------------------------------

(* A write outside the user's buffer never stays unnoticed: every byte of   *)
(* the block is the user's, or writing it is trapped, or it is compared     *)
(* when the block is released, for each size, alignment and side of the     *)
(* dead page.                                                               *)
EveryByteGuarded ==
  \A s \in Used :
    LET r == block[s].r
    IN  LiveBytes(r) \subseteq UserBytes(r) \cup Slack(r)

(* A block whose surroundings the program has written does not leave the    *)
(* heap: its release aborts.                                                *)
DamageFound ==
  [][\A s \in Slots :
       block[s].used /\ block[s].hurt /\ status' = "run" => block'[s].used]_vars

(* No check fails while the program has only written inside its buffers,    *)
(* and with DUMA_CHECK_FREQ a check fails before that many allocations and  *)
(* releases have gone by since another byte was written, in any block.      *)
ChecksExact ==
  /\ status = "aborted" => \E s \in Used : block[s].hurt
  /\ CHECK_FREQ > 0 /\ status = "run" =>
       \A s \in Used : block[s].age < CHECK_FREQ

=============================================================================
