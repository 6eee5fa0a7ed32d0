------------------------------ MODULE DumaHeap ------------------------------
(***************************************************************************)
(* The allocator of DUMA: _duma_allocate(), _duma_deallocate(),             *)
(* allocateMoreSlots() (src/src/duma.c) and reduceProtectedMemory()         *)
(* (src/duma_hlp.h) over the pages of paging.h, as one thread runs them     *)
(* while it holds the semaphore.                                            *)
(*                                                                          *)
(* A call is a sequence of steps.  pc names the part of the code that runs  *)
(* next:                                                                    *)
(*    idle     no call is in progress                                       *)
(*    search   the loop over the slot table in _duma_allocate()             *)
(*    create   the first Page_Create() of a new chunk                       *)
(*    retry    the Page_Create() of the reduce and try again loop           *)
(*    last     the Page_Create() that may exit the program                  *)
(*    carve    from "if (fullSlot->internalSize)" to the end                *)
(*    swap     allocateMoreSlots() after its _duma_allocate()               *)
(*    move     _duma_realloc() after its _duma_allocate()                   *)
(*    dealloc  _duma_deallocate() up to the protect or delete decision      *)
(*    release  the rest of _duma_deallocate()                               *)
(*    reduce   the loops of reduceProtectedMemory()                         *)
(*    leave    the Page_DenyAccess() of the slot table before the return    *)
(*    stopped  DUMA_Abort() was called, or the process got a SIGSEGV        *)
(***************************************************************************)
EXTENDS DumaAddr, FiniteSets

CONSTANTS
  NPages,             \* pages of address space the system can map: 1 .. NPages
  SlotsPerPage,       \* slot structures in one page
  SIZE_MOD,           \* SIZE_MAX + 1: unUsedSlots is a size_t
  PROTECT_FREE,       \* kB of freed memory kept protected; < 0: all; 0: none
  MAX_ALLOC,          \* kB, only looked at when > 0
  MALLOC_0_STRATEGY,
  NEW_0_STRATEGY,
  MALLOC_FAILEXIT,    \* BOOLEAN
  ALIGNMENT,          \* DUMA_ALIGNMENT
  MapAt,              \* the pages at which the system may place a mapping
  MmapMayFail,        \* BOOLEAN: mmap() may fail though address space is left
  MunmapMayFail,      \* BOOLEAN: munmap() may fail
  PointerSize,        \* sizeof(void *)
  UserTypes,          \* the allocator families the program uses
  Sizes, Alignments,  \* arguments of the program's calls
  ProtectBelow,       \* values the program gives DUMA_PROTECT_BELOW
  MaxCalls            \* bound on the number of calls

CppTypes == {"NEW_ELEM", "NEW_ARRAY", "MEMBER_NEW_ELEM", "MEMBER_NEW_ARRAY"}

AllocTypes == {"INTERNAL", "MALLOC"} \cup CppTypes

ASSUME HeapAssumption ==
  /\ NPages \in Nat /\ CreationPages + 2 <= NPages
  /\ SlotsPerPage \in Nat /\ SlotsPerPage >= 2
  /\ SIZE_MOD \in Nat /\ SlotsPerPage <= SIZE_MOD
  /\ PROTECT_FREE \in Int /\ MAX_ALLOC \in Int
  /\ MALLOC_0_STRATEGY \in 0 .. 3 /\ NEW_0_STRATEGY \in 0 .. 3
  /\ MALLOC_FAILEXIT \in BOOLEAN /\ MmapMayFail \in BOOLEAN
  /\ MunmapMayFail \in BOOLEAN /\ PointerSize \in Nat
  /\ MapAt \subseteq 1 .. NPages
  /\ UserTypes \subseteq AllocTypes \ {"INTERNAL"}
  /\ Sizes \subseteq Nat
  /\ ProtectBelow \subseteq BOOLEAN
  /\ MaxCalls \in Nat

(* DUMA_ALIGNMENT and what callers of memalign() pass: a power of two       *)
(* divides the page size or is a multiple of it.                            *)
ASSUME AlignAssumption ==
  /\ ALIGNMENT \in Nat \ {0} /\ IsPowerOf2(ALIGNMENT)
  /\ Alignments \subseteq Nat \ {0}
  /\ \A a \in Alignments \cup {1, ALIGNMENT}
            \cup {DefaultAlignment(n, ALIGNMENT) : n \in Sizes \ {0}} :
       /\ a \in Nat \ {0}
       /\ IsPowerOf2(a) => PageSize % a = 0 \/ a % PageSize = 0

-----------------------------------------------------------------------------

VARIABLES
  slots,            \* allocList: the table of slots
  slotCount,
  allocList,        \* the first page of the table
  listPages,        \* allocListSize, in pages
  unUsedSlots,
  sumAllocatedMem,
  sumProtectedMem,
  page,             \* what the system knows of every page
  pc,
  req,              \* the arguments of the call in progress
  growing,          \* TRUE: within allocateMoreSlots()
  full, emp,        \* fullSlot and emptySlots[0], 0 when not set
  addr,             \* the address _duma_deallocate() was given
  red,              \* the local variables of reduceProtectedMemory()
  why,              \* why the program stopped
  calls             \* calls made so far

mem  == <<slots, slotCount, allocList, listPages, unUsedSlots,
          sumAllocatedMem, sumProtectedMem, page>>
ctl  == <<req, growing, full, emp, addr, red>>
vars == <<mem, pc, ctl, why, calls>>

NULL == 0

(* null_block is pages 1 and 2, and null_addr the start of the second.      *)
NullAddr == 2 * PageSize

SlotStates == {"EMPTY", "FREE", "IN_USE", "ALL_PROTECTED", "BEGIN_PROTECTED"}

(* The slot of no memory.  The code leaves a stale protAddress in it, and   *)
(* in a free block that is split off into it; only Check() can read it.     *)
EmptySlot == [state |-> "EMPTY", base |-> 0, len |-> 0, user |-> 0,
              usz |-> 0, prot |-> 0, alloc |-> "INTERNAL"]

Request == [userSize : Nat, alignment : Nat, protectBelow : BOOLEAN,
            type : AllocTypes, old : Nat]

NoRequest == [userSize |-> 0, alignment |-> 1, protectBelow |-> FALSE,
              type |-> "INTERNAL", old |-> NULL]

(* Mutant: the new table is as small as the old one.                        *)
TableRequest_SameSize == [userSize |-> listPages * PageSize, alignment |-> 1,
                          protectBelow |-> FALSE, type |-> "INTERNAL", old |-> NULL]

(* What allocateMoreSlots() asks of _duma_allocate().                       *)
TableRequest == [userSize |-> (listPages + 1) * PageSize, alignment |-> 1,
                 protectBelow |-> FALSE, type |-> "INTERNAL", old |-> NULL]

Current == IF growing THEN TableRequest ELSE req

NoReduce == [want |-> 0, got |-> 0, more |-> FALSE, from |-> "idle"]

(* _duma_init() maps null_block and the first chunk; the table takes the    *)
(* first page of the chunk, and the rest is free.                           *)
FirstTable ==
  [state |-> "IN_USE", base |-> 3, len |-> 1, user |-> 3 * PageSize,
   usz |-> PageSize, prot |-> 0, alloc |-> "INTERNAL"]

FirstFree ==
  [state |-> "FREE", base |-> 4, len |-> CreationPages - 1,
   user |-> 4 * PageSize, usz |-> (CreationPages - 1) * PageSize, prot |-> 0,
   alloc |-> "INTERNAL"]

Init ==
  /\ slotCount = SlotsPerPage
  /\ slots = [i \in 1 .. SlotsPerPage |->
                IF i = 1 THEN FirstTable
                ELSE IF i = 2 /\ CreationPages > 1 THEN FirstFree
                ELSE EmptySlot]
  /\ allocList = 3
  /\ listPages = 1
  /\ unUsedSlots = SlotsPerPage - 2
  /\ sumAllocatedMem = 0
  /\ sumProtectedMem = 0
  /\ page = [p \in 1 .. NPages |->
               IF p = 3 THEN "rw"
               ELSE IF p <= CreationPages + 2 THEN "none" ELSE "unmapped"]
  /\ pc = "idle" /\ why = "running" /\ calls = 0
  /\ req = NoRequest /\ growing = FALSE /\ full = 0 /\ emp = 0
  /\ addr = NULL /\ red = NoReduce

-----------------------------------------------------------------------------
(* Helpers                                                                  *)

Indices == 1 .. slotCount

In(states) == {i \in Indices : slots[i].state \in states}

IsFirst(i, S) == i \in S /\ \A j \in S : i <= j

Pages(s) == s.base .. s.base + s.len - 1

TablePages == allocList .. allocList + listPages - 1

Mapped == {p \in 1 .. NPages : page[p] # "unmapped"}

(* Page_AllowAccess() and Page_DenyAccess() of the pages P.                  *)
Set(P, access) == [p \in 1 .. NPages |-> IF p \in P THEN access ELSE page[p]]

(* Mutant: pages that munmap() does not take keep their access.             *)
Page_Delete_Open(P) ==
  page' = Set(P, "unmapped") \/ (MunmapMayFail /\ page' = page)

(* When munmap() fails the pages stay mapped, and are made inaccessible.    *)
Page_Delete(P) ==
  \E access \in IF MunmapMayFail THEN {"unmapped", "none"} ELSE {"unmapped"} :
    page' = Set(P, access)

(* The system may place a new mapping of n pages at page b.                 *)
CanMap(b, n) ==
  /\ b + n - 1 <= NPages
  /\ \A p \in b .. b + n - 1 : page[p] = "unmapped"

MmapFails(n) == MmapMayFail \/ \A b \in MapAt : ~ CanMap(b, n)

(* slotForUserAddress(): the first slot that has the address.               *)
SlotForUserAddress(i, a) == IsFirst(i, {j \in Indices : slots[j].user = a})

NoSlotFor(a) == \A i \in Indices : slots[i].user # a

(* What a program can pass to free(), delete or realloc(): the address of a *)
(* block of the table, NULL, null_addr, or an address the table knows not.  *)
Foreign == (NPages + 1) * PageSize
Pointers == {NULL, NullAddr, Foreign} \cup {slots[i].user : i \in Indices}

Stop(reason) ==
  /\ pc' = "stopped"
  /\ why' = reason
  /\ UNCHANGED <<mem, ctl>>

(* Mutant: the slot taken is not counted.                                   *)
Decrement_Forgotten(n) == n

Decrement(n) == (n - 1) % SIZE_MOD

-----------------------------------------------------------------------------
(* The calls of the program                                                 *)

Strategy(type) ==
  IF type \in CppTypes THEN NEW_0_STRATEGY ELSE MALLOC_0_STRATEGY

(* _duma_allocate() up to its search for a slot.  realloc() has opened the  *)
(* slot table before the call, the others open it after the checks.         *)
BeginAllocate(r, opened) ==
  LET zero == r.userSize = 0
      open == IF opened THEN Set(TablePages, "rw") ELSE page
  IN
  \/ /\ zero /\ Strategy(r.type) = 0
     /\ Stop("zero size")
  \/ /\ zero /\ Strategy(r.type) \in {1, 2}
     /\ pc' = IF opened THEN "leave" ELSE "idle"
     /\ page' = open
     /\ UNCHANGED <<slots, slotCount, allocList, listPages, unUsedSlots,
                    sumAllocatedMem, sumProtectedMem, ctl, why>>
  \/ /\ ~ zero /\ ~ IsPowerOf2(r.alignment)
     /\ Stop("alignment")
  \/ /\ zero => Strategy(r.type) = 3
     /\ ~ zero => IsPowerOf2(r.alignment)
     /\ page' = Set(TablePages, "rw")
     /\ req' = r
     /\ growing' = (unUsedSlots < 7)
     /\ pc' = "search"
     /\ UNCHANGED <<slots, slotCount, allocList, listPages, unUsedSlots,
                    sumAllocatedMem, sumProtectedMem, full, emp, addr, red, why>>

BeginDeallocate(a, r) ==
  /\ page' = Set(TablePages, "rw")
  /\ req' = r
  /\ addr' = a
  /\ pc' = "dealloc"
  /\ UNCHANGED <<slots, slotCount, allocList, listPages, unUsedSlots,
                 sumAllocatedMem, sumProtectedMem, growing, full, emp, red, why>>

NextCall ==
  /\ pc = "idle"
  /\ calls < MaxCalls
  /\ calls' = calls + 1

DefaultRequest(n, type, below, old) ==
  [userSize |-> n,
   alignment |-> IF n = 0 THEN 1 ELSE DefaultAlignment(n, ALIGNMENT),
   protectBelow |-> below, type |-> type, old |-> old]

(* malloc(), calloc() and strdup(); operator new and new[] for a C++ type.  *)
Allocate(n, type, below) ==
  /\ NextCall
  /\ BeginAllocate(DefaultRequest(n, type, below, NULL), FALSE)

(* memalign(), aligned_alloc() and valloc().                                *)
Memalign(a, n, below) ==
  /\ NextCall
  /\ BeginAllocate([DefaultRequest(n, "MALLOC", below, NULL)
                      EXCEPT !.alignment = a], FALSE)

(* posix_memalign() answers EINVAL where memalign() would abort.            *)
PosixMemalign(a, n, below) ==
  IF IsPowerOf2(a) /\ a >= PointerSize
    THEN Memalign(a, n, below)
    ELSE NextCall /\ UNCHANGED <<mem, pc, ctl, why>>

Realloc(old, n, below) ==
  /\ NextCall
  /\ IF old # NULL /\ n = 0
       THEN BeginDeallocate(old, [NoRequest EXCEPT !.type = "MALLOC"])
       ELSE BeginAllocate(DefaultRequest(n, "MALLOC", below, old), TRUE)

(* free(), operator delete and operator delete[].                           *)
Free(a, type) ==
  /\ NextCall
  /\ IF a \in {NULL, NullAddr}
       THEN UNCHANGED <<mem, pc, ctl, why>>
       ELSE BeginDeallocate(a, [NoRequest EXCEPT !.type = type])

(* duma_check(), duma_checkAll() and malloc_usable_size() open and close    *)
(* the table and change nothing else (they are not counted as calls).       *)
Close == page' = Set(TablePages, "none")

UnchangedButPage ==
  UNCHANGED <<slots, slotCount, allocList, listPages, unUsedSlots,
              sumAllocatedMem, sumProtectedMem, ctl>>

Check(a) ==
  /\ pc = "idle" /\ a # NULL
  /\ UNCHANGED calls
  /\ \/ NoSlotFor(a) /\ Stop("unknown address")
     \/ \E i \in Indices :
          /\ SlotForUserAddress(i, a)
          /\ \/ /\ slots[i].state \in {"ALL_PROTECTED", "BEGIN_PROTECTED"}
                /\ Stop("already freed")
             \/ /\ slots[i].state = "FREE"  \* slack up to a stale protAddress
                /\ Stop("segmentation fault")
             \/ /\ slots[i].state \in {"FREE", "IN_USE"}
                /\ Close /\ UnchangedButPage /\ UNCHANGED <<pc, why>>

CheckAll ==
  /\ pc = "idle"
  /\ Close /\ UnchangedButPage /\ UNCHANGED <<pc, why, calls>>

MallocUsableSize(a) ==
  /\ pc = "idle" /\ a \notin {NULL, NullAddr}
  /\ UNCHANGED calls
  /\ IF NoSlotFor(a)
       THEN Stop("unknown address")
       ELSE Close /\ UnchangedButPage /\ UNCHANGED <<pc, why>>

-----------------------------------------------------------------------------
(* _duma_allocate()                                                         *)

(* Mutant: memory kept protected is given out again.                        *)
Fits_Protected(i) ==
  /\ slots[i].state \in {"FREE", "ALL_PROTECTED"}
  /\ slots[i].len >= InternalPages(Current)

Fits(i) == slots[i].state = "FREE" /\ slots[i].len >= InternalPages(Current)

(* The smallest free block that is large enough; of equal ones, the first.  *)
IsBestFit(i) ==
  /\ Fits(i)
  /\ \A j \in Indices : Fits(j) =>
       \/ slots[i].len < slots[j].len
       \/ slots[i].len = slots[j].len /\ i <= j

SearchFound ==
  /\ pc = "search"
  /\ \E i \in Indices, e \in Indices \cup {0} :
       /\ IsBestFit(i)
       /\ IF In({"EMPTY"}) = {} THEN e = 0 ELSE IsFirst(e, In({"EMPTY"}))
       /\ full' = i /\ emp' = e
  /\ pc' = "carve"
  /\ UNCHANGED <<mem, req, growing, addr, red, why, calls>>

Reduce(kB, from) ==
  /\ pc' = "reduce"
  /\ red' = [want |-> kB, got |-> 0, more |-> FALSE, from |-> from]

(* No free block fits: two empty slots are needed, for the new chunk and    *)
(* for what the request leaves of it.                                       *)
SearchFailed ==
  LET empty == In({"EMPTY"})
      kB    == KBOf(ChunkPages(Current))
  IN
  /\ pc = "search"
  /\ \A i \in Indices : ~ Fits(i)
  /\ UNCHANGED calls
  /\ \/ /\ \A i, j \in empty : i = j
        /\ Stop("no empty slot")
     \/ \E i, j \in empty :
          /\ IsFirst(i, empty) /\ IsFirst(j, empty \ {i})
          /\ full' = i /\ emp' = j
          /\ IF MAX_ALLOC > 0 /\ sumAllocatedMem + kB > MAX_ALLOC
               THEN Reduce(kB, "create")
               ELSE pc' = "create" /\ red' = red
          /\ UNCHANGED <<mem, req, growing, addr, why>>

(* Page_Create() succeeded: the chunk becomes a free block of fullSlot.     *)
Created ==
  LET n == ChunkPages(Current) IN
  /\ \E b \in MapAt :
       /\ CanMap(b, n)
       /\ page' = Set(b .. b + n - 1, "rw")
       /\ slots' = [slots EXCEPT ![full] =
                      [@ EXCEPT !.state = "FREE", !.base = b, !.len = n]]
  /\ sumAllocatedMem' = sumAllocatedMem + KBOf(n)
  /\ unUsedSlots' = Decrement(unUsedSlots)
  /\ pc' = "carve"
  /\ UNCHANGED <<slotCount, allocList, listPages, sumProtectedMem,
                 ctl, why, calls>>

(* Mutant: realloc() releases the old buffer though it got no new one.      *)
NoMemory_FreesOld ==
  /\ growing' = FALSE
  /\ pc' = IF growing THEN "search"
           ELSE IF req.old # NULL THEN "move" ELSE "leave"
  /\ UNCHANGED <<mem, req, full, emp, addr, red, why, calls>>

(* _duma_allocate() returns NULL: allocateMoreSlots() gives up and the      *)
(* user's request goes on, or the user gets the NULL.                       *)
NoMemory ==
  /\ growing' = FALSE
  /\ pc' = IF growing THEN "search" ELSE "leave"
  /\ UNCHANGED <<mem, req, full, emp, addr, red, why, calls>>

CreateFailed(n) ==
  /\ MmapFails(n)
  /\ IF PROTECT_FREE # 0
       THEN /\ Reduce(KBOf(n), "retry")
            /\ UNCHANGED <<mem, req, growing, full, emp, addr, why, calls>>
       ELSE NoMemory

(* The caller's DUMA_FAIL_ENV: operator new and the slot table pass         *)
(* DUMA_FAIL_NULL.                                                          *)
FailEnv == Current.type = "MALLOC"

RetryFailed(n) ==
  /\ MmapFails(n)
  /\ \/ /\ red.more
        /\ Reduce(KBOf(n), "retry")
        /\ UNCHANGED <<mem, req, growing, full, emp, addr, why, calls>>
     \/ /\ ~ red.more /\ FailEnv
        /\ pc' = "last"
        /\ UNCHANGED <<mem, ctl, why, calls>>
     \/ /\ ~ red.more /\ ~ FailEnv
        /\ NoMemory

LastFailed(n) ==
  /\ MmapFails(n)
  /\ IF MALLOC_FAILEXIT
       THEN Stop("out of memory") /\ UNCHANGED calls
       ELSE NoMemory

Create == pc = "create" /\ (Created \/ CreateFailed(ChunkPages(Current)))
Retry  == pc = "retry"  /\ (Created \/ RetryFailed(ChunkPages(Current)))
Last   == pc = "last"   /\ (Created \/ LastFailed(ChunkPages(Current)))

(* fullSlot when its block is given to request r, and the slot of the rest. *)
UsedSlot(r, b) ==
  [state |-> "IN_USE", base |-> b, len |-> InternalPages(r),
   user |-> UserAddr(r, b), usz |-> r.userSize, prot |-> ProtPage(r, b),
   alloc |-> r.type]

(* Mutants: swapped operands, the base not advanced, a page lost.           *)
RestSlot_Swapped(s, n) == [s EXCEPT !.base = s.base + n, !.len = n - s.len]

RestSlot_SameBase(s, n) == [s EXCEPT !.len = s.len - n]

RestSlot_LosesPage(s, n) ==
  [s EXCEPT !.base = s.base + n + 1, !.len = s.len - n - 1]

RestSlot(s, n) ==
  [s EXCEPT !.base = s.base + n, !.len = s.len - n,
            !.user = (s.base + n) * PageSize, !.usz = (s.len - n) * PageSize]

AfterAllocate ==
  IF growing THEN "swap" ELSE IF req.old # NULL THEN "move" ELSE "leave"

(* Split the block, make its live and dead pages, fill in the slot.         *)
Carve ==
  LET r     == Current
      s     == slots[full]
      split == s.len > InternalPages(r)
      live  == LivePages(r, s.base)
      dead  == DeadPages(r, s.base)
  IN
  /\ pc = "carve"
  /\ UNCHANGED calls
  /\ \/ /\ split /\ emp = 0
        /\ Stop("no empty slot")
     \/ /\ split => emp # 0
        /\ ~ (live \cup dead \subseteq Mapped)
        /\ Stop("mprotect failed")
     \/ /\ split => emp # 0
        /\ live \cup dead \subseteq Mapped
        /\ page' = [p \in 1 .. NPages |->
                      IF p \in dead THEN "none"
                      ELSE IF p \in live THEN "rw" ELSE page[p]]
        /\ slots' = [i \in Indices |->
                       IF i = full THEN UsedSlot(r, s.base)
                       ELSE IF split /\ i = emp
                              THEN RestSlot(s, InternalPages(r))
                              ELSE slots[i]]
        /\ unUsedSlots' = IF split THEN Decrement(unUsedSlots) ELSE unUsedSlots
        /\ pc' = AfterAllocate
        /\ UNCHANGED <<slotCount, allocList, listPages, sumAllocatedMem,
                       sumProtectedMem, ctl, why>>

(* allocateMoreSlots(): switch to the larger table, then free the old one.  *)
Swap ==
  /\ pc = "swap"
  /\ slotCount' = slotCount + SlotsPerPage
  /\ slots' = [i \in 1 .. slotCount + SlotsPerPage |->
                 IF i \in Indices THEN slots[i] ELSE EmptySlot]
  /\ allocList' = PageOf(slots[full].user)
  /\ listPages' = listPages + 1
  /\ unUsedSlots' = (unUsedSlots + SlotsPerPage) % SIZE_MOD
  /\ addr' = allocList * PageSize
  /\ pc' = "dealloc"
  /\ UNCHANGED <<sumAllocatedMem, sumProtectedMem, page, req, growing, full,
                 emp, red, why, calls>>

-----------------------------------------------------------------------------
(* _duma_realloc() with the new block at hand: copy, then free the old one. *)

Smaller(m, n) == IF m < n THEN m ELSE n

Readable(a, n) == \A p \in PageOf(a) .. PageOf(a + n - 1) :
                    p \in 1 .. NPages /\ page[p] = "rw"

Move ==
  LET a == req.old IN
  /\ pc = "move"
  /\ UNCHANGED calls
  /\ \/ NoSlotFor(a) /\ Stop("unknown address")
     \/ \E i \in Indices :
          LET n == Smaller(req.userSize, slots[i].usz) IN
          /\ SlotForUserAddress(i, a)
          /\ \/ n > 0 /\ ~ Readable(a, n) /\ Stop("segmentation fault")
             \/ /\ n > 0 => Readable(a, n)
                /\ addr' = a
                /\ pc' = "dealloc"
                /\ UNCHANGED <<mem, req, growing, full, emp, red, why>>

-----------------------------------------------------------------------------
(* _duma_deallocate()                                                       *)

AfterDeallocate == IF growing THEN "search" ELSE "leave"

(* Protected memory has to be given up before a block of kB is protected.   *)
MustReduce(kB) ==
  /\ PROTECT_FREE > 0
  /\ sumProtectedMem + kB > PROTECT_FREE
  /\ kB < PROTECT_FREE
  /\ sumProtectedMem >= kB

(* Mutant: any function of the language may release the block.              *)
Mismatch_Never(s) == FALSE

(* The block was not allocated by the counterpart of this function.         *)
Mismatch(s) == s.alloc # Current.type

Deallocate ==
  /\ pc = "dealloc"
  /\ UNCHANGED calls
  /\ \/ /\ addr \in {NULL, NullAddr}
        /\ pc' = "leave"
        /\ UNCHANGED <<mem, ctl, why>>
     \/ addr \notin {NULL, NullAddr} /\ NoSlotFor(addr) /\ Stop("unknown address")
     \/ \E i \in Indices :
          /\ addr \notin {NULL, NullAddr} /\ SlotForUserAddress(i, addr)
          /\ \/ /\ slots[i].state \in {"ALL_PROTECTED", "BEGIN_PROTECTED"}
                /\ Stop("already freed")
             \/ /\ slots[i].state \notin {"ALL_PROTECTED", "BEGIN_PROTECTED"}
                /\ Mismatch(slots[i])
                /\ Stop("free mismatch")
             \/ /\ slots[i].state \notin {"ALL_PROTECTED", "BEGIN_PROTECTED"}
                /\ ~ Mismatch(slots[i])
                /\ full' = i
                /\ IF MustReduce(KBOf(slots[i].len))
                     THEN Reduce(KBOf(slots[i].len), "release")
                     ELSE pc' = "release" /\ red' = red
                /\ UNCHANGED <<mem, req, growing, emp, addr, why>>

MayProtect(s) ==
  /\ s.alloc # "INTERNAL"
  /\ \/ PROTECT_FREE < 0
     \/ PROTECT_FREE > 0 /\ sumProtectedMem + KBOf(s.len) <= PROTECT_FREE

Release ==
  LET s == slots[full] IN
  /\ pc = "release"
  /\ \/ /\ MayProtect(s)
        /\ slots' = [slots EXCEPT ![full].state = "ALL_PROTECTED"]
        /\ page' = Set(Pages(s), "none")
        /\ sumProtectedMem' = sumProtectedMem + KBOf(s.len)
        /\ UNCHANGED <<sumAllocatedMem, unUsedSlots>>
     \/ /\ ~ MayProtect(s)
        /\ slots' = [slots EXCEPT ![full] = EmptySlot]
        /\ Page_Delete(Pages(s))
        /\ sumAllocatedMem' = sumAllocatedMem - KBOf(s.len)
        /\ unUsedSlots' = (unUsedSlots + 1) % SIZE_MOD
        /\ UNCHANGED sumProtectedMem
  /\ growing' = FALSE
  /\ pc' = AfterDeallocate
  /\ UNCHANGED <<slotCount, allocList, listPages, req, full, emp, addr, red,
                 why, calls>>

-----------------------------------------------------------------------------
(* reduceProtectedMemory()                                                  *)

(* One more block gave kB back; the caller goes on once that is enough.     *)
Reduced(kB) ==
  LET got == red.got + kB IN
  IF got >= red.want
    THEN /\ sumProtectedMem' = sumProtectedMem - got
         /\ sumAllocatedMem' = sumAllocatedMem - got
         /\ red' = [red EXCEPT !.got = got, !.more = TRUE]
         /\ pc' = red.from
    ELSE /\ red' = [red EXCEPT !.got = got]
         /\ UNCHANGED <<sumProtectedMem, sumAllocatedMem, pc>>

(* Mutants: the page of the user address is given up too; the page after it *)
(* is not given up; a page behind the block is; the pages kept are counted  *)
(* as given up.                                                             *)
KeptLen_Short(s) == PageOf(s.user) - s.base

CutPages_TooLong(s) == PageOf(s.user) + 1 .. s.base + s.len

CutKB_Whole(s) == KBOf(s.len)

(* How many pages the slot keeps, which ones it gives up, and how much.     *)
KeptLen(s) == PageOf(s.user) - s.base + 1

CutPages(s) == s.base + KeptLen(s) .. s.base + s.len - 1

CutKB(s) == KBOf(s.len - KeptLen(s))

(* First loop: keep only the pages up to the one with the user address.     *)
ReduceToBegin ==
  /\ pc = "reduce"
  /\ \E i \in Indices :
       LET s == slots[i] IN
           /\ IsFirst(i, In({"ALL_PROTECTED"}))
           /\ Page_Delete(CutPages(s))
           /\ slots' = [slots EXCEPT ![i] =
                          [@ EXCEPT !.state = "BEGIN_PROTECTED",
                                    !.len = KeptLen(s)]]
           /\ Reduced(CutKB(s))
  /\ UNCHANGED <<slotCount, allocList, listPages, unUsedSlots, req, growing,
                 full, emp, addr, why, calls>>

(* Second loop: give up the rest and empty the slot.                        *)
ReduceToEmpty ==
  /\ pc = "reduce"
  /\ In({"ALL_PROTECTED"}) = {}
  /\ \E i \in Indices :
       LET s == slots[i] IN
           /\ IsFirst(i, In({"BEGIN_PROTECTED"}))
           /\ Page_Delete(Pages(s))
           /\ slots' = [slots EXCEPT ![i] = EmptySlot]
           /\ Reduced(KBOf(s.len))
  /\ UNCHANGED <<slotCount, allocList, listPages, unUsedSlots, req, growing,
                 full, emp, addr, why, calls>>

(* Mutant: return what was given up before, as if it were enough.           *)
ReduceExhausted_More ==
  /\ pc = "reduce"
  /\ In({"ALL_PROTECTED", "BEGIN_PROTECTED"}) = {}
  /\ red' = [red EXCEPT !.more = TRUE]
  /\ pc' = red.from
  /\ UNCHANGED <<mem, req, growing, full, emp, addr, why, calls>>

(* Nothing is left: return 0, whatever was given up before.                 *)
ReduceExhausted ==
  /\ pc = "reduce"
  /\ In({"ALL_PROTECTED", "BEGIN_PROTECTED"}) = {}
  /\ red' = [red EXCEPT !.more = FALSE]
  /\ pc' = red.from
  /\ UNCHANGED <<mem, req, growing, full, emp, addr, why, calls>>

-----------------------------------------------------------------------------

Leave ==
  /\ pc = "leave"
  /\ page' = Set(TablePages, "none")
  /\ pc' = "idle"
  /\ req' = NoRequest /\ growing' = FALSE /\ full' = 0 /\ emp' = 0
  /\ addr' = NULL /\ red' = NoReduce
  /\ UNCHANGED <<slots, slotCount, allocList, listPages, unUsedSlots,
                 sumAllocatedMem, sumProtectedMem, why, calls>>

Step ==
  \/ SearchFound \/ SearchFailed
  \/ Create \/ Retry \/ Last
  \/ Carve \/ Swap \/ Move
  \/ Deallocate \/ Release
  \/ ReduceToBegin \/ ReduceToEmpty \/ ReduceExhausted
  \/ Leave

CallAny ==
  \/ \E n \in Sizes, t \in UserTypes, b \in ProtectBelow : Allocate(n, t, b)
  \/ \E a \in Alignments, n \in Sizes, b \in ProtectBelow :
       Memalign(a, n, b) \/ PosixMemalign(a, n, b)
  \/ \E p \in Pointers, n \in Sizes, b \in ProtectBelow : Realloc(p, n, b)
  \/ \E p \in Pointers, t \in UserTypes : Free(p, t)
  \/ \E p \in Pointers : Check(p) \/ MallocUsableSize(p)
  \/ CheckAll

(* The program makes no further call, or has been stopped.                  *)
Finished ==
  /\ pc = "stopped" \/ (pc = "idle" /\ calls = MaxCalls)
  /\ UNCHANGED vars

Next == CallAny \/ Step \/ Finished

Spec == Init /\ [][Next]_vars

(* A thread that is inside the allocator keeps running.                     *)
FairSpec == Spec /\ WF_vars(Step)

-----------------------------------------------------------------------------
(* Properties                                                               *)

Slot == [state : SlotStates, base : Nat, len : Nat, user : Nat, usz : Nat,
         prot : Nat, alloc : AllocTypes]

Labels == {"idle", "search", "create", "retry", "last", "carve", "swap", "move",
           "dealloc", "release", "reduce", "leave", "stopped"}

Reasons == {"running", "zero size", "alignment", "unknown address",
            "already freed", "free mismatch", "segmentation fault",
            "out of memory", "no empty slot", "mprotect failed"}

(* Every variable of the allocator stays within its type; the slot table    *)
(* has slotCount entries and the size counter unUsedSlots is a size_t.      *)
TypeOK ==
  /\ slotCount \in Nat /\ slots \in [Indices -> Slot]
  /\ allocList \in Nat /\ listPages \in Nat
  /\ unUsedSlots \in 0 .. SIZE_MOD - 1
  /\ sumAllocatedMem \in Int /\ sumProtectedMem \in Int
  /\ page \in [1 .. NPages -> {"unmapped", "none", "rw"}]
  /\ pc \in Labels /\ why \in Reasons /\ calls \in 0 .. MaxCalls
  /\ req \in Request /\ growing \in BOOLEAN
  /\ full \in Indices \cup {0} /\ emp \in Indices \cup {0}
  /\ addr \in Nat
  /\ red \in [want : Nat, got : Nat, more : BOOLEAN,
              from : {"idle", "create", "retry", "release"}]

(* No page belongs to two slots: what _duma_allocate() splits off, what     *)
(* reduceProtectedMemory() cuts and what the system maps anew never overlap *)
(* a block of another slot.                                                 *)
SlotsDisjoint ==
  \A i, j \in Indices : i # j => Pages(slots[i]) \cap Pages(slots[j]) = {}

(* The table lists no page that is not mapped, and unless munmap() failed   *)
(* it lists every page that is: no page leaks when blocks are split, cut,   *)
(* protected or deleted.                                                    *)
PagesOwned ==
  LET owned == {1, 2} \cup UNION {Pages(slots[i]) : i \in Indices} IN
  /\ owned \subseteq Mapped
  /\ ~ MunmapMayFail => Mapped \subseteq owned

(* The call holds on to slots fullSlot and emptySlots[0] that are empty     *)
(* (from the search until Page_Create() succeeds), that hold a large enough *)
(* free block (until it is carved), or that hold the block to release, also *)
(* over the calls of reduceProtectedMemory() in between.                    *)
AtCreate == \/ pc \in {"create", "retry", "last"}
            \/ pc = "reduce" /\ red.from \in {"create", "retry"}

AtRelease == pc = "release" \/ (pc = "reduce" /\ red.from = "release")

LocalsAgree ==
  /\ ValidRequest(req)
  /\ AtCreate => /\ full # emp
                 /\ full \in In({"EMPTY"}) /\ emp \in In({"EMPTY"})
  /\ pc = "carve" => /\ full \in In({"FREE"})
                     /\ slots[full].len >= InternalPages(Current)
                     /\ emp \in In({"EMPTY"}) \cup {0}
  /\ pc = "swap" => full \in Indices
  /\ AtRelease => full \in In({"FREE", "IN_USE"})
  /\ pc = "reduce" => red.from # "idle"
  /\ pc \in {"idle", "move"} => ~ growing
  /\ pc \notin {"idle", "leave", "stopped"} => req.type # "INTERNAL"

(* The slot table lies in an internal block in use that is never the one    *)
(* being released, not even while allocateMoreSlots() exchanges the table.  *)
TableKept ==
  /\ listPages > 0
  /\ pc = "swap" =>
       /\ slots[full].state = "IN_USE" /\ slots[full].alloc = "INTERNAL"
       /\ PageOf(slots[full].user) .. PageOf(slots[full].user) + listPages
            \subseteq Pages(slots[full])
  /\ \E i \in Indices :
       /\ slots[i].state = "IN_USE" /\ slots[i].alloc = "INTERNAL"
       /\ TablePages \subseteq Pages(slots[i])
       /\ pc = "swap" \/ AtRelease => i # full
       /\ pc = "dealloc" /\ growing => slots[i].user # addr

(* An empty slot has no memory; every other one has pages of the address    *)
(* space beyond null_block, a free block is nobody's, and a block that is   *)
(* or was given to the user has the page of the user's address.             *)
SlotOK(s) ==
  /\ s.state = "EMPTY" => s = EmptySlot
  /\ s.state # "EMPTY" => s.len > 0 /\ s.base > 2 /\ s.base + s.len - 1 <= NPages
  /\ s.state = "FREE" => s.alloc = "INTERNAL"
  /\ s.state \in {"IN_USE", "ALL_PROTECTED", "BEGIN_PROTECTED"} =>
       PageOf(s.user) \in Pages(s)

(* With the types, disjointness and ownership of pages this is inductive:   *)
(* the slots are well formed, the table is kept, and the local variables of *)
(* the functions in progress still fit the table, though nested calls have  *)
(* changed it.                                                              *)
HeapInv == LocalsAgree /\ TableKept /\ \A i \in Indices : SlotOK(slots[i])

InUse == {i \in Indices : slots[i].state = "IN_USE"
                             /\ slots[i].alloc # "INTERNAL"}

UserPages(s) == PageOf(s.user) .. PageOf(s.user + s.usz - 1)

(* While a buffer is in use the program can access all of its bytes and the *)
(* page next to it is dead, whatever other calls do meanwhile; a buffer of  *)
(* size zero is all dead.                                                   *)
GuardPages ==
  \A i \in InUse :
    LET s == slots[i] IN
    /\ s.prot \in Pages(s) /\ page[s.prot] = "none"
    /\ s.usz > 0 =>
         /\ UserPages(s) \subseteq Pages(s)
         /\ \A p \in UserPages(s) : page[p] = "rw"
         /\ \/ s.prot = PageOf(s.user) - 1
            \/ s.prot = PageOf(s.user + s.usz - 1) + 1

(* Freed memory that DUMA still keeps is inaccessible, so that every use    *)
(* after free of it faults, until it is given back to the system; and what  *)
(* the system did not take back stays inaccessible for good, like           *)
(* null_block, though no slot knows of it.                                  *)
FreedHidden ==
  /\ \A i \in In({"ALL_PROTECTED", "BEGIN_PROTECTED"}) :
       /\ \A p \in Pages(slots[i]) : page[p] = "none"
       /\ PageOf(slots[i].user) \in Pages(slots[i])
  /\ \A p \in Mapped \ UNION {Pages(slots[i]) : i \in Indices} :
       page[p] = "none"

(* Within a call the slot table is accessible and lies in the one internal  *)
(* block in use; only while the table is exchanged are there two of them.   *)
TableOpen ==
  /\ pc \notin {"idle", "stopped"} => \A p \in TablePages : page[p] = "rw"
  /\ \E i \in Indices :
       /\ slots[i].state = "IN_USE" /\ slots[i].alloc = "INTERNAL"
       /\ slots[i].user = allocList * PageSize
       /\ slots[i].usz = listPages * PageSize
       /\ TablePages \subseteq Pages(slots[i])
       /\ ~ growing => \A j \in Indices \ {i} :
                         ~ (slots[j].state = "IN_USE"
                              /\ slots[j].alloc = "INTERNAL")

(* There are at least as many empty slots as unUsedSlots promises.          *)
SlotAccounting == unUsedSlots <= Cardinality(In({"EMPTY"}))

(* The allocator never trips over itself: no "Internal error in allocator", *)
(* no use of an emptySlots[0] that was not found, no mprotect() of a page   *)
(* that is not mapped.                                                      *)
NoInternalError == why \notin {"no empty slot", "mprotect failed"}

ProtectedPages ==
  UNION {Pages(slots[i]) : i \in In({"ALL_PROTECTED", "BEGIN_PROTECTED"})}

(* The freed memory that is kept protected stays within DUMA_PROTECT_FREE,  *)
(* and sumProtectedMem, which the code compares with that limit, never      *)
(* falls below it, through releases, cuts, reductions and their failures.   *)
ProtectedBounded ==
  LET kept == KBOf(Cardinality(ProtectedPages))
  IN  /\ kept <= sumProtectedMem
      /\ PROTECT_FREE >= 0 => kept <= PROTECT_FREE

(* No step changes a buffer in use or the access to its pages, except the   *)
(* release of that very buffer on behalf of a call that names its address.  *)
LiveUntouched ==
  [][\A i \in InUse :
       \/ /\ slots'[i] = slots[i]
          /\ \A p \in Pages(slots[i]) : page'[p] = page[p]
       \/ pc = "release" /\ i = full /\ slots[i].user = addr]_vars

(* Every call comes to an end: the reduce and retry loops terminate.        *)
CallEnds == pc # "idle" ~> pc \in {"idle", "stopped"}

-----------------------------------------------------------------------------
(* DumaHeap implements AbstractHeap.                                        *)

Block(s) ==
  [addr |-> s.user, type |-> s.alloc,
   size |-> IF s.state = "BEGIN_PROTECTED" THEN 0 ELSE s.usz]

Task ==
  CASE pc = "idle"    -> [op |-> "idle"]
    [] pc = "stopped" -> [op |-> "stopped"]
    [] pc = "leave"   -> [op |-> "done"]
    [] pc = "move"    -> [op |-> "free", addr |-> req.old, type |-> req.type]
    [] \/ pc \in {"dealloc", "release"} /\ ~ growing
       \/ pc = "reduce" /\ red.from = "release" /\ ~ growing ->
         [op |-> "free", addr |-> addr, type |-> req.type]
    [] OTHER ->
         [op |-> "alloc", size |-> req.userSize, type |-> req.type,
          alignment |-> req.alignment, old |-> req.old]

Abstract ==
  INSTANCE AbstractHeap WITH
    MayEvict   <- PROTECT_FREE > 0 \/ MAX_ALLOC > 0 \/ MmapMayFail,
    FreeIsNoOp <- {NULL, NullAddr},
    live       <- {Block(slots[i]) : i \in InUse},
    kept       <- {Block(slots[i]) :
                     i \in In({"ALL_PROTECTED", "BEGIN_PROTECTED"})},
    task       <- Task

(* The allocator keeps the promises of AbstractHeap to its callers: buffers *)
(* in use never overlap each other or kept memory, every block in use can   *)
(* be released, exactly the wrong releases stop the program, and with       *)
(* DUMA_PROTECT_FREE < 0 no released address is ever given out again, as    *)
(* long as the system has room for a chunk.                                 *)
ImplementsHeap == Abstract!Spec

=============================================================================
