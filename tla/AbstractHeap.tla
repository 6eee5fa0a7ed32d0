---------------------------- MODULE AbstractHeap ----------------------------
(***************************************************************************)
(* What DUMA promises a program that calls malloc(), free(), realloc(), new *)
(* and delete: the buffers in use never overlap, a buffer stays in use      *)
(* until it is released by the matching function, every wrong release stops *)
(* the program, and the address of released memory is not given out again   *)
(* as long as the memory is kept.                                           *)
(*                                                                          *)
(* A block is a record with its address, its size and the family of the     *)
(* function it came from.                                                   *)
(***************************************************************************)
EXTENDS Integers

CONSTANTS
  MayEvict,     \* BOOLEAN: released memory may be given up again
  FreeIsNoOp    \* the pointers free() ignores

VARIABLES
  live,  \* the blocks in use
  kept,  \* released blocks whose memory is kept; size 0: only the address is
  task   \* what the library is doing for the program

(* The bytes of a block; a block of size 0 still has an address.            *)
Extent(b) == b.addr .. b.addr + (IF b.size = 0 THEN 0 ELSE b.size - 1)

Overlap(a, b) == Extent(a) \cap Extent(b) # {}

Idle    == [op |-> "idle"]
Done    == [op |-> "done"]
Stopped == [op |-> "stopped"]
FreeTask(a, t) == [op |-> "free", addr |-> a, type |-> t]

Init == live = {} /\ kept = {} /\ task = Idle

Call ==
  /\ task = Idle
  /\ task'.op \in {"alloc", "free", "done"}
  /\ UNCHANGED <<live, kept>>

(* The arguments are refused: size 0, a bad alignment, a bad address.       *)
Refuse == task = Idle /\ task' = Stopped /\ UNCHANGED <<live, kept>>

AfterAlloc == IF task.old = 0 THEN Done ELSE FreeTask(task.old, task.type)

Alloc ==
  /\ task.op = "alloc"
  /\ \E b \in live' :
       /\ b.size = task.size /\ b.type = task.type
       /\ b.size > 0 => b.addr % task.alignment = 0
       /\ \A c \in live \cup kept : ~ Overlap(b, c)
       /\ live' = live \cup {b}
  /\ task' = AfterAlloc
  /\ UNCHANGED kept

(* There is no memory: the caller gets NULL, or the program is stopped.     *)
AllocFails ==
  /\ task.op = "alloc"
  /\ task' \in {Done, Stopped}
  /\ UNCHANGED <<live, kept>>

Names(b) == b.addr = task.addr /\ b.type = task.type

Free ==
  /\ task.op = "free"
  /\ \E b \in live :
       /\ Names(b)
       /\ live' = live \ {b}
       /\ kept' \in {kept, kept \cup {b}}
  /\ task' = Done

FreeNothing ==
  /\ task.op = "free" /\ task.addr \in FreeIsNoOp
  /\ task' = Done
  /\ UNCHANGED <<live, kept>>

(* The wrong address or the wrong function: the only way a release stops    *)
(* the program, and all it can do then.  (An address that free() ignores is *)
(* in no block: realloc() stops at it.)                                     *)
FreeStops ==
  /\ task.op = "free"
  /\ \A b \in live : ~ Names(b)
  /\ task' = Stopped
  /\ UNCHANGED <<live, kept>>

(* Released memory is given up: first all but its address, then that too.   *)
Evict ==
  /\ MayEvict
  /\ task.op \in {"alloc", "free"}
  /\ \E b \in kept :
       kept' \in {kept \ {b}, (kept \ {b}) \cup {[b EXCEPT !.size = 0]}}
  /\ UNCHANGED <<live, task>>

Return == task = Done /\ task' = Idle /\ UNCHANGED <<live, kept>>

Next == \/ Call \/ Refuse \/ Alloc \/ AllocFails \/ Free \/ FreeNothing
        \/ FreeStops \/ Evict \/ Return

Spec == Init /\ [][Next]_<<live, kept, task>>

=============================================================================
