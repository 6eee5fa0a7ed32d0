----------------------------- MODULE DumaThreads -----------------------------
(***************************************************************************)
(* Threads that share the slot table (src/src/duma.c): who opens and closes *)
(* its pages, who replaces it, and who reads it without the semaphore.      *)
(* DumaHeap has the table's contents and one thread; here a slot is the     *)
(* block it describes.  The semaphore is what ReentrantLock promises, which *)
(* DumaSem is proved to implement.  The initialisation is over.             *)
(*                                                                          *)
(* A table is a number: allocateMoreSlots() copies table n to table n + 1,  *)
(* points allocList to it and deletes the pages of table n.  The pages of a *)
(* table are "rw", "none" or "gone"; touching one that is not "rw", and     *)
(* changing the access of one that is "gone", ends the program (fault).     *)
(* allocList is read by each statement that names it.                       *)
(***************************************************************************)
EXTENDS Naturals, FiniteSets

CONSTANTS
  Threads,
  Ops,        \* the functions that are called
  Alone,      \* those of them the program calls while no other thread is
              \* in a function of DUMA
  Capacity,   \* blocks that fit into table 1; table n holds n * Capacity
  MaxTables,  \* bound on the tables
  MaxCalls    \* bound on the calls of a thread

VARIABLES
  allocList,  \* the current table
  access,     \* the access to the pages of each table
  table,      \* the blocks each table describes
  depth,      \* the semaphore
  pc, op, arg, slot, calls,  \* of each thread; slot is the local pointer
  live,       \* the blocks the program has and has not passed to free()
  fault,
  ended,      \* DUMA_delFrame() was called: no new calls
  report      \* the blocks DUMA_delFrame() found

vars == <<allocList, access, table, depth, pc, op, arg, slot, calls, live,
          fault, ended, report>>

local == <<op, arg, calls>>

Lock == INSTANCE ReentrantLock

Blocks == Threads \X (1 .. MaxCalls)

Nothing == <<>>

Init ==
  /\ allocList = 1
  /\ access = [n \in 1 .. MaxTables |-> IF n = 1 THEN "none" ELSE "gone"]
  /\ table = [n \in 1 .. MaxTables |-> {}]
  /\ Lock!Init
  /\ pc = [t \in Threads |-> "out"]
  /\ op = [t \in Threads |-> "none"]
  /\ arg = [t \in Threads |-> Nothing]
  /\ slot = [t \in Threads |-> 0]
  /\ calls = [t \in Threads |-> 0]
  /\ live = {}
  /\ fault = FALSE /\ ended = FALSE /\ report = {}

Goto(t, label) == pc' = [pc EXCEPT ![t] = label]

-----------------------------------------------------------------------------
(* The program calls a function; b is the block it is about.                *)

(* The program keeps the calls in Alone apart from all others.               *)
Apart(t, f) ==
  \A u \in Threads \ {t} :
    pc[u] = "out" \/ (f \notin Alone /\ op[u] \notin Alone)

Start(t, f, b, label) ==
  /\ pc[t] = "out" /\ ~ ended /\ f \in Ops /\ Apart(t, f)
  /\ calls[t] < MaxCalls
  /\ calls' = [calls EXCEPT ![t] = @ + 1]
  /\ op' = [op EXCEPT ![t] = f]
  /\ arg' = [arg EXCEPT ![t] = b]
  /\ Goto(t, label)
  /\ UNCHANGED <<allocList, access, table, depth, slot, fault, report>>

CallMalloc(t) ==
  /\ Start(t, "malloc", <<t, calls[t] + 1>>, "get")
  /\ UNCHANGED <<live, ended>>

(* A block is freed once, by any thread.                                    *)
CallFree(t) ==
  \E b \in live :
    /\ Start(t, "free", b, "get")
    /\ live' = live \ {b}
    /\ UNCHANGED ended

(* duma_checkAll() and duma_check()                                         *)
CallCheck(t) ==
  /\ Start(t, "check", Nothing, "get")
  /\ UNCHANGED <<live, ended>>

(* _duma_malloc_usable_size() takes no semaphore.                           *)
CallUsableSize(t) ==
  \E b \in live :
    /\ Start(t, "usable_size", b, "read")
    /\ UNCHANGED <<live, ended>>

(* DUMA_delFrame(), called at exit, reads allocList in its first statement, *)
(* before it takes the semaphore.                                           *)
CallDelFrame(t) ==
  /\ pc[t] = "out" /\ ~ ended /\ "delFrame" \in Ops /\ Apart(t, "delFrame")
  /\ ended' = TRUE
  /\ op' = [op EXCEPT ![t] = "delFrame"]
  /\ slot' = [slot EXCEPT ![t] = allocList]
  /\ Goto(t, "get")
  /\ UNCHANGED <<allocList, access, table, depth, arg, calls, live, fault,
                 report>>

-----------------------------------------------------------------------------
(* The functions that take the semaphore                                    *)

(* Mutant: duma_checkAll() does not take the semaphore.                     *)
GetSemaphore_NotCheck(t) ==
  /\ pc[t] = "get"
  /\ IF op[t] = "check" THEN UNCHANGED depth ELSE Lock!Enter(t)
  /\ Goto(t, "allow")
  /\ UNCHANGED <<allocList, access, table, local, slot, live, fault, ended,
                 report>>

GetSemaphore(t) ==
  /\ pc[t] = "get"
  /\ Lock!Enter(t)
  /\ Goto(t, "allow")
  /\ UNCHANGED <<allocList, access, table, local, slot, live, fault, ended,
                 report>>

Full == Cardinality(table[allocList]) >= Capacity * allocList

(* Page_AllowAccess(allocList, allocListSize)                               *)
AllowTable(t) ==
  /\ pc[t] = "allow"
  /\ access' = [access EXCEPT ![allocList] = "rw"]
  /\ Goto(t, IF op[t] = "malloc" /\ Full /\ allocList < MaxTables
               THEN "grow" ELSE "use")
  /\ UNCHANGED <<allocList, table, depth, local, slot, live, fault, ended,
                 report>>

(* Mutant: the old table is not copied.                                     *)
GrowTable_Empty(t) ==
  /\ pc[t] = "grow"
  /\ access' = [access EXCEPT ![allocList + 1] = "rw"]
  /\ Goto(t, "exchange")
  /\ UNCHANGED <<allocList, table, depth, local, slot, live, fault, ended,
                 report>>

(* allocateMoreSlots(): a larger table, the contents copied to it, ...      *)
GrowTable(t) ==
  /\ pc[t] = "grow"
  /\ access' = [access EXCEPT ![allocList + 1] = "rw"]
  /\ table' = [table EXCEPT ![allocList + 1] = table[allocList]]
  /\ Goto(t, "exchange")
  /\ UNCHANGED <<allocList, depth, local, slot, live, fault, ended, report>>

ExchangeTable(t) ==
  /\ pc[t] = "exchange"
  /\ allocList' = allocList + 1
  /\ Goto(t, "drop")
  /\ UNCHANGED <<access, table, depth, local, slot, live, fault, ended, report>>

(* ... and the pages of the old one are deleted: it is internal memory,     *)
(* which is never kept protected.                                           *)
DropTable(t) ==
  /\ pc[t] = "drop"
  /\ access' = [access EXCEPT ![allocList - 1] = "gone"]
  /\ Goto(t, "use")
  /\ UNCHANGED <<allocList, table, depth, local, slot, live, fault, ended,
                 report>>

(* What the function leaves in the table.                                   *)
NewTable(t) ==
  CASE op[t] = "malloc" -> table[allocList] \cup {arg[t]}
    [] op[t] = "free"   -> table[allocList] \ {arg[t]}
    [] OTHER            -> table[allocList]

(* The table that the function touches.                                     *)
Touched(t) == IF op[t] = "delFrame" THEN slot[t] ELSE allocList

UseTable(t) ==
  /\ pc[t] = "use"
  /\ IF access[Touched(t)] = "rw"
       THEN /\ table' = [table EXCEPT ![allocList] = NewTable(t)]
            /\ report' = IF op[t] = "delFrame" THEN table[slot[t]] ELSE report
            /\ Goto(t, "deny")
            /\ UNCHANGED fault
       ELSE fault' = TRUE /\ UNCHANGED <<table, report, pc>>
  /\ UNCHANGED <<allocList, access, depth, local, slot, live, ended>>

DenyTable(t) ==
  /\ pc[t] = "deny"
  /\ access' = [access EXCEPT ![allocList] = "none"]
  /\ Goto(t, "release")
  /\ UNCHANGED <<allocList, table, depth, local, slot, live, fault, ended,
                 report>>

(* The semaphore is released and the function returns.                      *)
ReleaseSemaphore(t) ==
  /\ pc[t] = "release"
  /\ Lock!Exit(t)
  /\ live' = IF op[t] = "malloc" THEN live \cup {arg[t]} ELSE live
  /\ Goto(t, "out")
  /\ UNCHANGED <<allocList, access, table, local, slot, fault, ended, report>>

-----------------------------------------------------------------------------
(* _duma_malloc_usable_size(), statement by statement                       *)

(* The argument of Page_AllowAccess() is read, ...                          *)
UsableRead(t) ==
  /\ pc[t] = "read"
  /\ slot' = [slot EXCEPT ![t] = allocList]
  /\ Goto(t, "open")
  /\ UNCHANGED <<allocList, access, table, depth, local, live, fault, ended,
                 report>>

UsableOpen(t) ==
  /\ pc[t] = "open"
  /\ IF access[slot[t]] = "gone"
       THEN fault' = TRUE /\ UNCHANGED <<access, pc>>
       ELSE /\ access' = [access EXCEPT ![slot[t]] = "rw"]
            /\ Goto(t, "search")
            /\ UNCHANGED fault
  /\ UNCHANGED <<allocList, table, depth, local, slot, live, ended, report>>

(* ... and slotForUserAddress() reads allocList again.                      *)
UsableSearch(t) ==
  /\ pc[t] = "search"
  /\ IF access[allocList] = "rw"
       THEN Goto(t, "close") /\ UNCHANGED fault
       ELSE fault' = TRUE /\ UNCHANGED pc
  /\ UNCHANGED <<allocList, access, table, depth, local, slot, live, ended,
                 report>>

UsableClose(t) ==
  /\ pc[t] = "close"
  /\ access' = [access EXCEPT ![allocList] = "none"]
  /\ Goto(t, "out")
  /\ UNCHANGED <<allocList, table, depth, local, slot, live, fault, ended,
                 report>>

-----------------------------------------------------------------------------

Next ==
  /\ ~ fault
  /\ \E t \in Threads :
       \/ CallMalloc(t) \/ CallFree(t) \/ CallCheck(t) \/ CallUsableSize(t)
       \/ CallDelFrame(t)
       \/ GetSemaphore(t) \/ AllowTable(t) \/ GrowTable(t) \/ ExchangeTable(t)
       \/ DropTable(t) \/ UseTable(t) \/ DenyTable(t) \/ ReleaseSemaphore(t)
       \/ UsableRead(t) \/ UsableOpen(t) \/ UsableSearch(t) \/ UsableClose(t)

Spec == Init /\ [][Next]_vars

-----------------------------------------------------------------------------

(* No function finds the slot table closed or deleted under it by another   *)
(* thread: opening, use and closing of its pages lie between the get and    *)
(* the release of one semaphore.                                            *)
TableReachable == ~ fault

(* A block the program has is described by the current table, whatever      *)
(* other threads allocate, release or add to the table in between; free()   *)
(* of it would otherwise abort with "address not from DUMA".  And the leak  *)
(* report at the end names exactly the blocks that were allocated and not   *)
(* released, by whatever threads.                                           *)
BlocksKept ==
  /\ live \subseteq table[allocList]
  /\ (\E t \in Threads : op[t] = "delFrame" /\ pc[t] = "out") => report = live

=============================================================================
