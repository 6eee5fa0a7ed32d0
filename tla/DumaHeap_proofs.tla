--------------------------- MODULE DumaHeap_proofs --------------------------
(***************************************************************************)
(* The allocator, for every page size, address space, configuration and     *)
(* sequence of calls.                                                       *)
(*                                                                          *)
(* Memory: no two slots share a page, and no page is lost or forgotten but  *)
(* by a failing munmap().                                                   *)
(* Table: its pages are open exactly while a call works on it.              *)
(* Promises: a buffer in use is open and has a dead page next to it, freed  *)
(* memory that is kept is closed, and no more of it is kept than            *)
(* DUMA_PROTECT_FREE allows.  Refinement: every step of the allocator is a  *)
(* step of AbstractHeap or leaves it alone.                                 *)
(***************************************************************************)
EXTENDS DumaHeap, DumaAddr_proofs, FiniteSetTheorems

-----------------------------------------------------------------------------
(* The memory DUMA manages: a table S over the indices I, and the access pg *)
(* to every page.                                                           *)

PageMaps == [1 .. NPages -> {"unmapped", "none", "rw"}]

Disjoint(S, I) ==
  \A i \in I, j \in I : i # j => \A p \in Pages(S[i]) : p \notin Pages(S[j])

OwnedPage(S, I, p) == p \in {1, 2} \/ \E i \in I : p \in Pages(S[i])

Owned(S, I, pg) ==
  \A p \in 1 .. NPages :
    /\ OwnedPage(S, I, p) => pg[p] # "unmapped"
    /\ ~ MunmapMayFail /\ pg[p] # "unmapped" => OwnedPage(S, I, p)

MemoryOK(S, I, pg) ==
  /\ S \in [I -> Slot]
  /\ pg \in PageMaps
  /\ Disjoint(S, I)
  /\ Owned(S, I, pg)
  /\ \A i \in I : SlotOK(S[i])

(* The pages of a well formed slot are pages of the address space that are  *)
(* not those of null_block.                                                 *)
LEMMA SlotPages ==
  ASSUME NEW s \in Slot, SlotOK(s), NEW p \in Pages(s)
  PROVE  p \in 1 .. NPages /\ p > 2
<1>1. NPages \in Nat
  BY HeapAssumption
<1>2. CASE s.state = "EMPTY"
  BY <1>2 DEF SlotOK, Pages, EmptySlot
<1>3. CASE s.state # "EMPTY"
  BY <1>1, <1>3 DEF SlotOK, Pages, Slot
<1> QED BY <1>2, <1>3

(* An empty slot is well formed and has no pages.                           *)
LEMMA EmptySlotFacts ==
  /\ EmptySlot \in Slot
  /\ SlotOK(EmptySlot)
  /\ Pages(EmptySlot) = {}
<1>1. EmptySlot \in Slot
  BY DEF EmptySlot, Slot, SlotStates, AllocTypes
<1>2. SlotOK(EmptySlot)
  BY DEF EmptySlot, SlotOK
<1>3. Pages(EmptySlot) = {}
  BY DEF EmptySlot, Pages
<1> QED BY <1>1, <1>2, <1>3

(* The slot of a new chunk.                                                 *)
LEMMA ChunkSlotFacts ==
  ASSUME NEW b \in Nat, NEW n \in Nat, n > 0, b > 2, b + n - 1 <= NPages
  PROVE  LET t == [EmptySlot EXCEPT !.state = "FREE", !.base = b, !.len = n]
         IN  /\ t \in Slot /\ SlotOK(t) /\ Pages(t) = b .. b + n - 1
             /\ t.state = "FREE" /\ t.len = n
<1> DEFINE t == [EmptySlot EXCEPT !.state = "FREE", !.base = b, !.len = n]
<1>1. t \in Slot
  BY DEF EmptySlot, Slot, SlotStates, AllocTypes
<1>2. t.state = "FREE" /\ t.len = n /\ t.base = b /\ t.alloc = "INTERNAL"
  BY DEF EmptySlot
<1> HIDE DEF t
<1>3. SlotOK(t) /\ Pages(t) = b .. b + n - 1
  BY <1>2 DEF SlotOK, Pages
<1> QED BY <1>1, <1>2, <1>3 DEF t

(* Changing the access to mapped pages.                                     *)
LEMMA SameSlots ==
  ASSUME NEW S, NEW I, NEW pg, MemoryOK(S, I, pg),
         NEW pg2 \in PageMaps,
         \A p \in 1 .. NPages : pg2[p] = "unmapped" <=> pg[p] = "unmapped"
  PROVE  MemoryOK(S, I, pg2)
BY DEF MemoryOK, Owned

(* One slot gets other pages: some that it had, and some that nobody had.   *)
LEMMA ReplaceSlot ==
  ASSUME NEW S, NEW I, NEW pg, MemoryOK(S, I, pg),
         NEW i \in I, NEW t \in Slot, SlotOK(t), NEW pg2 \in PageMaps,
         \A p \in Pages(t) : p \in Pages(S[i]) \/ pg[p] = "unmapped",
         \A p \in 1 .. NPages :
           LET left == p \in Pages(t) \/ (pg[p] # "unmapped" /\ p \notin Pages(S[i]))
           IN  /\ left => pg2[p] # "unmapped"
               /\ ~ MunmapMayFail /\ pg2[p] # "unmapped" => left
  PROVE  MemoryOK([S EXCEPT ![i] = t], I, pg2)
<1> DEFINE T == [S EXCEPT ![i] = t]
<1>1. T \in [I -> Slot] /\ T[i] = t /\ \A j \in I : j # i => T[j] = S[j]
  BY DEF MemoryOK
<1>2. \A j \in I : SlotOK(T[j])
  BY <1>1 DEF MemoryOK
<1>3. \A j \in I : S[j] \in Slot /\ SlotOK(S[j])
  BY DEF MemoryOK
<1> HIDE DEF T
<1>4. ASSUME NEW j \in I, j # i, NEW p, p \in Pages(t), p \in Pages(S[j])
      PROVE  FALSE
  <2>1. p \in 1 .. NPages
    BY <1>4, SlotPages
  <2>2. pg[p] # "unmapped"
    BY <1>4, <2>1 DEF MemoryOK, Owned, OwnedPage
  <2>3. p \in Pages(S[i])
    BY <1>4, <2>2
  <2> QED BY <1>4, <2>3 DEF MemoryOK, Disjoint
<1>5. Disjoint(T, I)
  <2> SUFFICES ASSUME NEW j \in I, NEW k \in I, j # k, NEW p \in Pages(T[j]),
                      p \in Pages(T[k])
               PROVE  FALSE
    BY DEF Disjoint
  <2>1. CASE j = i
    BY <1>1, <1>4, <2>1
  <2>2. CASE k = i
    BY <1>1, <1>4, <2>2
  <2>3. CASE j # i /\ k # i
    BY <1>1, <2>3 DEF MemoryOK, Disjoint
  <2> QED BY <2>1, <2>2, <2>3
<1>6. Owned(T, I, pg2)
  <2> SUFFICES ASSUME NEW p \in 1 .. NPages
               PROVE  /\ OwnedPage(T, I, p) => pg2[p] # "unmapped"
                      /\ ~ MunmapMayFail /\ pg2[p] # "unmapped" => OwnedPage(T, I, p)
    BY DEF Owned
  <2>1. /\ OwnedPage(S, I, p) => pg[p] # "unmapped"
        /\ ~ MunmapMayFail /\ pg[p] # "unmapped" => OwnedPage(S, I, p)
    BY DEF MemoryOK, Owned
  <2>2. p \in {1, 2} => p \notin Pages(S[i]) /\ p \notin Pages(t)
    BY <1>3, SlotPages
  <2>3. CASE p \in Pages(t)
    BY <1>1, <2>3 DEF OwnedPage
  <2>4. CASE p \notin Pages(t) /\ p \in Pages(S[i])
    <3>1. \A j \in I : p \notin Pages(T[j])
      BY <1>1, <2>4 DEF MemoryOK, Disjoint
    <3> QED BY <2>1, <2>2, <2>4, <3>1 DEF OwnedPage
  <2>5. CASE p \notin Pages(t) /\ p \notin Pages(S[i])
    <3>1. (\E j \in I : p \in Pages(T[j])) <=> (\E j \in I : p \in Pages(S[j]))
      BY <1>1, <2>5
    <3> QED BY <2>1, <2>5, <3>1 DEF OwnedPage
  <2> QED BY <2>3, <2>4, <2>5
<1> QED BY <1>1, <1>2, <1>5, <1>6 DEF MemoryOK, T

(* Two slots share out the pages of the one that had them all.              *)
LEMMA SplitSlot ==
  ASSUME NEW S, NEW I, NEW pg, MemoryOK(S, I, pg),
         NEW i \in I, NEW j \in I, i # j, Pages(S[j]) = {},
         NEW T \in [I -> Slot], SlotOK(T[i]), SlotOK(T[j]),
         \A k \in I \ {i, j} : T[k] = S[k],
         \A p : p \in Pages(S[i]) <=> p \in Pages(T[i]) \/ p \in Pages(T[j]),
         \A p \in Pages(T[i]) : p \notin Pages(T[j])
  PROVE  MemoryOK(T, I, pg)
<1>1. \A k \in I : SlotOK(T[k])
  BY DEF MemoryOK
<1>2. Disjoint(T, I)
  <2> SUFFICES ASSUME NEW k \in I, NEW m \in I, k # m, NEW p \in Pages(T[k]),
                      p \in Pages(T[m])
               PROVE  FALSE
    BY DEF Disjoint
  <2>1. CASE k \in {i, j} /\ m \in {i, j}
    BY <2>1
  <2>2. CASE k \in {i, j} /\ m \notin {i, j}
    BY <2>2 DEF MemoryOK, Disjoint
  <2>3. CASE k \notin {i, j} /\ m \in {i, j}
    BY <2>3 DEF MemoryOK, Disjoint
  <2>4. CASE k \notin {i, j} /\ m \notin {i, j}
    BY <2>4 DEF MemoryOK, Disjoint
  <2> QED BY <2>1, <2>2, <2>3, <2>4
<1>3. ASSUME NEW p
      PROVE  (\E k \in I : p \in Pages(T[k])) <=> (\E k \in I : p \in Pages(S[k]))
  <2>1. ASSUME NEW k \in I, p \in Pages(T[k])
        PROVE  \E m \in I : p \in Pages(S[m])
    BY <2>1
  <2>2. ASSUME NEW k \in I, p \in Pages(S[k])
        PROVE  \E m \in I : p \in Pages(T[m])
    BY <2>2
  <2> QED BY <2>1, <2>2
<1>4. Owned(T, I, pg)
  BY <1>3 DEF MemoryOK, Owned, OwnedPage
<1> QED BY <1>1, <1>2, <1>4 DEF MemoryOK

(* A longer table, whose new slots are empty.                               *)
LEMMA GrowTable ==
  ASSUME NEW S, NEW I, NEW pg, MemoryOK(S, I, pg), NEW J, I \subseteq J
  PROVE  MemoryOK([i \in J |-> IF i \in I THEN S[i] ELSE EmptySlot], J, pg)
<1> DEFINE T == [i \in J |-> IF i \in I THEN S[i] ELSE EmptySlot]
<1>1. T \in [J -> Slot]
  BY EmptySlotFacts DEF MemoryOK
<1>2. /\ \A i \in I : i \in J /\ T[i] = S[i]
      /\ \A i \in J \ I : T[i] = EmptySlot /\ Pages(T[i]) = {}
  BY EmptySlotFacts
<1> HIDE DEF T
<1>3. \A i \in J : SlotOK(T[i])
  BY <1>2, EmptySlotFacts DEF MemoryOK
<1>4. Disjoint(T, J)
  BY <1>2 DEF MemoryOK, Disjoint
<1>5. \A p : (\E i \in J : p \in Pages(T[i])) <=> (\E i \in I : p \in Pages(S[i]))
  BY <1>2
<1>6. Owned(T, J, pg)
  BY <1>5 DEF MemoryOK, Owned, OwnedPage
<1> QED BY <1>1, <1>3, <1>4, <1>6 DEF MemoryOK, T

-----------------------------------------------------------------------------
(* The inductive invariant.                                                 *)

Reduction == [want : Nat, got : Nat, more : BOOLEAN,
              from : {"idle", "create", "retry", "release"}]

Scalars ==
  /\ slotCount \in Nat /\ allocList \in Nat /\ listPages \in Nat
  /\ unUsedSlots \in 0 .. SIZE_MOD - 1
  /\ sumAllocatedMem \in Int /\ sumProtectedMem \in Int
  /\ pc \in Labels /\ why \in Reasons /\ calls \in 0 .. MaxCalls
  /\ req \in Request /\ growing \in BOOLEAN
  /\ full \in Indices \cup {0} /\ emp \in Indices \cup {0}
  /\ addr \in Nat
  /\ red \in Reduction

IInv == Scalars /\ MemoryOK(slots, Indices, page) /\ LocalsAgree /\ TableKept

(* The invariant says what the runs of TLC check.                           *)
LEMMA InvImplies ==
  IInv => TypeOK /\ SlotsDisjoint /\ PagesOwned /\ HeapInv
<1> SUFFICES ASSUME IInv PROVE TypeOK /\ SlotsDisjoint /\ PagesOwned /\ HeapInv
  OBVIOUS
<1>1. TypeOK
  BY DEF IInv, Scalars, Reduction, MemoryOK, PageMaps, TypeOK
<1>2. SlotsDisjoint
  BY DEF IInv, MemoryOK, Disjoint, SlotsDisjoint
<1>3. PagesOwned
  <2>1. \A i \in Indices : \A p \in Pages(slots[i]) : p \in 1 .. NPages
    BY SlotPages DEF IInv, MemoryOK
  <2>2. {1, 2} \subseteq 1 .. NPages
    BY AddrAssumption, HeapAssumption
  <2>3. \A p \in 1 .. NPages :
          /\ OwnedPage(slots, Indices, p) => p \in Mapped
          /\ ~ MunmapMayFail /\ p \in Mapped => OwnedPage(slots, Indices, p)
    BY DEF IInv, MemoryOK, Owned, Mapped
  <2>4. Mapped \subseteq 1 .. NPages
    BY DEF Mapped
  <2>5. \A p : p \in UNION {Pages(slots[i]) : i \in Indices}
                <=> \E i \in Indices : p \in Pages(slots[i])
    OBVIOUS
  <2> QED BY <2>1, <2>2, <2>3, <2>4, <2>5 DEF PagesOwned, OwnedPage
<1>4. HeapInv
  BY DEF IInv, MemoryOK, HeapInv
<1> QED BY <1>1, <1>2, <1>3, <1>4

(* The request in progress, of the user or of allocateMoreSlots().          *)
LEMMA CurrentFacts ==
  ASSUME IInv
  PROVE  /\ ValidRequest(Current)
         /\ Current.type \in AllocTypes
         /\ InternalPages(Current) \in Nat /\ InternalPages(Current) > 0
         /\ ChunkPages(Current) \in Nat
         /\ ChunkPages(Current) >= InternalPages(Current)
<1>1. ValidRequest(Current) /\ Current.type \in AllocTypes
  <2>1. CASE growing
    <3>1. PageSize \in Nat /\ PageSize % 1 = 0
      BY AddrAssumption
    <3>2. (listPages + 1) * PageSize \in Nat
      BY <3>1 DEF IInv, Scalars
    <3> QED BY <2>1, <3>1, <3>2
            DEF Current, TableRequest, ValidRequest, ValidAlign, AllocTypes
  <2>2. CASE ~ growing
    BY <2>2 DEF Current, IInv, Scalars, LocalsAgree, Request
  <2> QED BY <2>1, <2>2
<1> HIDE DEF Current
<1>2. InternalPages(Current) \in Nat /\ InternalPages(Current) > 0
  BY <1>1, BlockGeometry
<1> QED BY <1>1, <1>2, AddrAssumption DEF ChunkPages

(* Opening and closing the slot table changes no mapping.                   *)
LEMMA TableAccess ==
  ASSUME IInv, NEW access \in {"none", "rw"}
  PROVE  MemoryOK(slots, Indices, Set(TablePages, access))
<1>1. PICK i \in Indices : TablePages \subseteq Pages(slots[i])
  BY DEF IInv, TableKept
<1>2. \A p \in TablePages : p \in 1 .. NPages => page[p] # "unmapped"
  BY <1>1 DEF IInv, MemoryOK, Owned, OwnedPage
<1> DEFINE pg == Set(TablePages, access)
<1>3. pg \in PageMaps
  BY DEF Set, PageMaps, IInv, MemoryOK
<1>4. \A p \in 1 .. NPages : pg[p] = "unmapped" <=> page[p] = "unmapped"
  BY <1>2 DEF Set
<1>5. MemoryOK(slots, Indices, page)
  BY DEF IInv
<1> HIDE DEF pg
<1> QED BY <1>3, <1>4, <1>5, SameSlots DEF pg

(* A call that stops the program changes nothing else.                      *)
LEMMA StopStep ==
  ASSUME IInv, NEW reason \in Reasons, Stop(reason), calls' \in 0 .. MaxCalls
  PROVE  IInv'
<1>1. MemoryOK(slots, Indices, page)'
  BY DEF Stop, mem, IInv, Indices
<1>2. Scalars'
  BY DEF Stop, mem, ctl, IInv, Scalars, Indices, Labels
<1>3. LocalsAgree'
  BY DEF Stop, mem, ctl, IInv, LocalsAgree, AtCreate, AtRelease
<1>4. TableKept'
  BY DEF Stop, mem, ctl, IInv, TableKept, AtRelease, Indices, TablePages
<1> QED BY <1>1, <1>2, <1>3, <1>4 DEF IInv

(* The arguments of a call are a request the arithmetic is made for.        *)
RequestOK(r) ==
  /\ r \in Request
  /\ r.type # "INTERNAL"
  /\ r.userSize # 0 /\ IsPowerOf2(r.alignment) => ValidAlign(r.alignment)

LEMMA DefaultRequestOK ==
  ASSUME NEW n \in Sizes, NEW type \in AllocTypes \ {"INTERNAL"},
         NEW below \in ProtectBelow, NEW old \in Nat
  PROVE  RequestOK(DefaultRequest(n, type, below, old))
<1> DEFINE r == DefaultRequest(n, type, below, old)
           a == IF n = 0 THEN 1 ELSE DefaultAlignment(n, ALIGNMENT)
<1>1. a \in Nat \ {0}
  BY AlignAssumption
<1>2. n # 0 /\ IsPowerOf2(a) => ValidAlign(a)
  BY AlignAssumption DEF ValidAlign
<1>3. n \in Nat /\ below \in BOOLEAN
  BY HeapAssumption
<1> HIDE DEF a
<1>4. r = [userSize |-> n, alignment |-> a, protectBelow |-> below,
           type |-> type, old |-> old]
  BY DEF DefaultRequest, a
<1> HIDE DEF r
<1> QED BY <1>1, <1>2, <1>3, <1>4 DEF RequestOK, Request, r

LEMMA MemalignRequestOK ==
  ASSUME NEW n \in Sizes, NEW below \in ProtectBelow, NEW a \in Alignments
  PROVE  RequestOK([DefaultRequest(n, "MALLOC", below, NULL)
                      EXCEPT !.alignment = a])
<1> DEFINE r == [DefaultRequest(n, "MALLOC", below, NULL) EXCEPT !.alignment = a]
<1>1. a \in Nat \ {0} /\ (IsPowerOf2(a) => ValidAlign(a))
  BY AlignAssumption DEF ValidAlign
<1>2. n \in Nat /\ below \in BOOLEAN
  BY HeapAssumption
<1>3. r = [userSize |-> n, alignment |-> a, protectBelow |-> below,
           type |-> "MALLOC", old |-> NULL]
  BY DEF DefaultRequest
<1> HIDE DEF r
<1> QED BY <1>1, <1>2, <1>3 DEF RequestOK, Request, r, AllocTypes, NULL

(* _duma_allocate() up to its search for a slot.                            *)
LEMMA BeginAllocateStep ==
  ASSUME IInv, pc = "idle", calls' \in 0 .. MaxCalls,
         NEW r, RequestOK(r), NEW opened \in BOOLEAN, BeginAllocate(r, opened)
  PROVE  IInv'
<1>1. CASE Stop("zero size")
  BY <1>1, StopStep DEF Reasons
<1>2. CASE Stop("alignment")
  BY <1>2, StopStep DEF Reasons
<1>3. CASE /\ pc' = IF opened THEN "leave" ELSE "idle"
           /\ page' = IF opened THEN Set(TablePages, "rw") ELSE page
           /\ UNCHANGED <<slots, slotCount, allocList, listPages, unUsedSlots,
                          sumAllocatedMem, sumProtectedMem, ctl, why>>
  <2>1. MemoryOK(slots, Indices, page)'
    BY <1>3, TableAccess DEF IInv, Indices
  <2>2. Scalars'
    BY <1>3 DEF ctl, IInv, Scalars, Indices, Labels
  <2>3. LocalsAgree'
    BY <1>3 DEF ctl, IInv, LocalsAgree, AtCreate, AtRelease
  <2>4. TableKept'
    BY <1>3 DEF ctl, IInv, TableKept, AtRelease, Indices, TablePages
  <2> QED BY <2>1, <2>2, <2>3, <2>4 DEF IInv
<1>4. CASE /\ r.userSize # 0 => IsPowerOf2(r.alignment)
           /\ page' = Set(TablePages, "rw")
           /\ req' = r
           /\ growing' = (unUsedSlots < 7)
           /\ pc' = "search"
           /\ UNCHANGED <<slots, slotCount, allocList, listPages, unUsedSlots,
                          sumAllocatedMem, sumProtectedMem, full, emp, addr,
                          red, why>>
  <2>1. MemoryOK(slots, Indices, page)'
    BY <1>4, TableAccess DEF IInv, Indices
  <2>2. Scalars'
    BY <1>4 DEF IInv, Scalars, Indices, Labels, RequestOK
  <2>3. LocalsAgree'
    <3>1. ValidRequest(req)'
      BY <1>4 DEF ValidRequest, RequestOK, Request
    <3> QED BY <1>4, <3>1 DEF LocalsAgree, AtCreate, AtRelease, RequestOK
  <2>4. TableKept'
    BY <1>4 DEF IInv, TableKept, AtRelease, Indices, TablePages
  <2> QED BY <2>1, <2>2, <2>3, <2>4 DEF IInv
<1> QED BY <1>1, <1>2, <1>3, <1>4 DEF BeginAllocate

LEMMA BeginDeallocateStep ==
  ASSUME IInv, pc = "idle", calls' \in 0 .. MaxCalls, NEW a \in Nat,
         NEW type \in AllocTypes \ {"INTERNAL"},
         BeginDeallocate(a, [NoRequest EXCEPT !.type = type])
  PROVE  IInv'
<1> DEFINE r == [NoRequest EXCEPT !.type = type]
<1>1. r \in Request /\ ValidRequest(r) /\ r.type = type
  BY DEF NoRequest, Request, ValidRequest, NULL
<1> HIDE DEF r
<1>2. BeginDeallocate(a, r)
  BY DEF r
<1>3. MemoryOK(slots, Indices, page)'
  BY <1>2, TableAccess DEF BeginDeallocate, IInv, Indices
<1>4. Scalars'
  BY <1>1, <1>2 DEF BeginDeallocate, IInv, Scalars, Indices, Labels
<1>5. LocalsAgree'
  BY <1>1, <1>2 DEF BeginDeallocate, IInv, LocalsAgree, AtCreate, AtRelease
<1>6. TableKept'
  BY <1>2 DEF BeginDeallocate, IInv, LocalsAgree, TableKept, AtRelease,
              Indices, TablePages
<1> QED BY <1>3, <1>4, <1>5, <1>6 DEF IInv

(* Steps that only open or close the table between two calls.               *)
LEMMA CloseStep ==
  ASSUME IInv, Close, UnchangedButPage, UNCHANGED <<pc, why>>,
         calls' \in 0 .. MaxCalls
  PROVE  IInv'
<1>1. MemoryOK(slots, Indices, page)'
  BY TableAccess DEF Close, UnchangedButPage, IInv, Indices
<1>2. Scalars'
  BY DEF UnchangedButPage, ctl, IInv, Scalars, Indices
<1>3. LocalsAgree'
  BY DEF UnchangedButPage, ctl, IInv, LocalsAgree, AtCreate, AtRelease, In,
         Indices, Current, TableRequest
<1>4. TableKept'
  BY DEF UnchangedButPage, ctl, IInv, TableKept, AtRelease, Indices, TablePages
<1> QED BY <1>1, <1>2, <1>3, <1>4 DEF IInv

LEMMA PointersAreAddresses ==
  ASSUME IInv
  PROVE  Pointers \subseteq Nat
<1>1. PageSize \in Nat /\ NPages \in Nat
  BY AddrAssumption, HeapAssumption
<1>2. Foreign \in Nat /\ NULL \in Nat /\ NullAddr \in Nat
  BY <1>1 DEF Foreign, NULL, NullAddr
<1>3. \A i \in Indices : slots[i].user \in Nat
  BY DEF IInv, MemoryOK, Slot
<1> QED BY <1>2, <1>3 DEF Pointers

(* No call of the program disturbs the invariant.                           *)
LEMMA CallStep ==
  ASSUME IInv, CallAny
  PROVE  IInv'
<1>1. calls \in 0 .. MaxCalls /\ MaxCalls \in Nat
  BY HeapAssumption DEF IInv, Scalars
<1>2. NextCall => pc = "idle" /\ calls' \in 0 .. MaxCalls
  BY <1>1 DEF NextCall
<1>3. UserTypes \subseteq AllocTypes \ {"INTERNAL"}
      /\ "MALLOC" \in AllocTypes \ {"INTERNAL"} /\ NULL \in Nat
  BY HeapAssumption DEF AllocTypes, NULL
<1>4. Pointers \subseteq Nat
  BY PointersAreAddresses
<1>5. ASSUME NEW n \in Sizes, NEW t \in UserTypes, NEW b \in ProtectBelow,
             Allocate(n, t, b)
      PROVE  IInv'
  <2>1. RequestOK(DefaultRequest(n, t, b, NULL))
    BY <1>3, DefaultRequestOK
  <2> QED BY <1>2, <1>5, <2>1, BeginAllocateStep DEF Allocate
<1>6. ASSUME NEW a \in Alignments, NEW n \in Sizes, NEW b \in ProtectBelow,
             Memalign(a, n, b)
      PROVE  IInv'
  <2>1. RequestOK([DefaultRequest(n, "MALLOC", b, NULL) EXCEPT !.alignment = a])
    BY MemalignRequestOK
  <2> QED BY <1>2, <1>6, <2>1, BeginAllocateStep DEF Memalign
<1>12. ASSUME UNCHANGED <<mem, pc, ctl, why>>, calls' \in 0 .. MaxCalls
       PROVE  IInv'
  <2>1. MemoryOK(slots, Indices, page)'
    BY <1>12 DEF mem, IInv, Indices
  <2>2. Scalars'
    BY <1>12 DEF mem, ctl, IInv, Scalars, Indices
  <2>3. LocalsAgree'
    BY <1>12 DEF mem, ctl, IInv, LocalsAgree, AtCreate, AtRelease, In,
                 Indices, Current, TableRequest
  <2>4. TableKept'
    BY <1>12 DEF mem, ctl, IInv, TableKept, AtRelease, Indices, TablePages
  <2> QED BY <2>1, <2>2, <2>3, <2>4 DEF IInv
<1>13. ASSUME NEW a \in Alignments, NEW n \in Sizes, NEW b \in ProtectBelow,
              PosixMemalign(a, n, b)
       PROVE  IInv'
  BY <1>2, <1>6, <1>12, <1>13 DEF PosixMemalign
<1>7. ASSUME NEW p \in Pointers, NEW n \in Sizes, NEW b \in ProtectBelow,
             Realloc(p, n, b)
      PROVE  IInv'
  <2>1. RequestOK(DefaultRequest(n, "MALLOC", b, p))
    BY <1>3, <1>4, DefaultRequestOK
  <2>2. CASE p # NULL /\ n = 0
    BY <1>2, <1>3, <1>4, <1>7, <2>2, BeginDeallocateStep DEF Realloc
  <2>3. CASE ~ (p # NULL /\ n = 0)
    BY <1>2, <1>7, <2>1, <2>3, BeginAllocateStep DEF Realloc
  <2> QED BY <2>2, <2>3
<1>8. ASSUME NEW p \in Pointers, NEW t \in UserTypes, Free(p, t)
      PROVE  IInv'
  <2>1. CASE p \in {NULL, NullAddr}
    BY <1>2, <1>12, <1>8, <2>1 DEF Free
  <2>2. CASE p \notin {NULL, NullAddr}
    BY <1>2, <1>3, <1>4, <1>8, <2>2, BeginDeallocateStep DEF Free
  <2> QED BY <2>1, <2>2
<1>9. ASSUME NEW p \in Pointers, Check(p)
      PROVE  IInv'
  BY <1>1, <1>9, StopStep, CloseStep DEF Check, Reasons
<1>10. ASSUME NEW p \in Pointers, MallocUsableSize(p)
       PROVE  IInv'
  BY <1>1, <1>10, StopStep, CloseStep DEF MallocUsableSize, Reasons
<1>11. ASSUME CheckAll PROVE IInv'
  BY <1>1, <1>11, CloseStep DEF CheckAll
<1> QED BY <1>5, <1>6, <1>7, <1>8, <1>9, <1>10, <1>11, <1>13 DEF CallAny

-----------------------------------------------------------------------------
(* The steps within a call.                                                 *)

LEMMA SearchFoundStep ==
  ASSUME IInv, SearchFound
  PROVE  IInv'
<1>1. PICK i \in Indices, e \in Indices \cup {0} :
        /\ IsBestFit(i)
        /\ IF In({"EMPTY"}) = {} THEN e = 0 ELSE IsFirst(e, In({"EMPTY"}))
        /\ full' = i /\ emp' = e
  BY DEF SearchFound
<1>2. /\ pc = "search" /\ pc' = "carve"
      /\ UNCHANGED <<mem, req, growing, addr, red, why, calls>>
  BY DEF SearchFound
<1>3. MemoryOK(slots, Indices, page)'
  BY <1>2 DEF mem, IInv, Indices
<1>4. Scalars'
  BY <1>1, <1>2 DEF mem, IInv, Scalars, Indices, Labels
<1>5. LocalsAgree'
  <2>1. Current' = Current /\ In({"EMPTY"})' = In({"EMPTY"})
        /\ In({"FREE"})' = In({"FREE"})
    BY <1>2 DEF mem, Current, TableRequest, In, Indices
  <2>2. i \in In({"FREE"}) /\ slots[i].len >= InternalPages(Current)
    BY <1>1 DEF IsBestFit, Fits, In
  <2>3. e \in In({"EMPTY"}) \cup {0}
    BY <1>1 DEF IsFirst
  <2>4. ValidRequest(req)' /\ (req.type # "INTERNAL")'
    BY <1>2 DEF IInv, LocalsAgree
  <2> QED BY <1>1, <1>2, <2>1, <2>2, <2>3, <2>4
          DEF mem, LocalsAgree, AtCreate, AtRelease
<1>6. TableKept'
  BY <1>2 DEF mem, IInv, TableKept, AtRelease, Indices, TablePages
<1> QED BY <1>3, <1>4, <1>5, <1>6 DEF IInv

LEMMA KBOfNat ==
  ASSUME NEW n \in Nat
  PROVE  KBOf(n) \in Nat
BY AddrAssumption DEF KBOf

LEMMA ReduceFacts ==
  ASSUME NEW kB \in Nat, NEW from \in {"create", "retry", "release"},
         Reduce(kB, from)
  PROVE  pc' = "reduce" /\ red' \in Reduction /\ red'.from = from
BY DEF Reduce, Reduction

LEMMA SearchFailedStep ==
  ASSUME IInv, SearchFailed
  PROVE  IInv'
<1> DEFINE empty == In({"EMPTY"})
           kB == KBOf(ChunkPages(Current))
<1>1. pc = "search" /\ calls' \in 0 .. MaxCalls
  BY DEF SearchFailed, IInv, Scalars
<1>2. kB \in Nat
  BY CurrentFacts, KBOfNat
<1>3. CASE Stop("no empty slot")
  BY <1>1, <1>3, StopStep DEF Reasons
<1> HIDE DEF kB
<1>4. ASSUME NEW i \in empty, NEW j \in empty, i # j, full' = i, emp' = j,
             \/ Reduce(kB, "create")
             \/ pc' = "create" /\ red' = red,
             UNCHANGED <<mem, req, growing, addr, why>>
      PROVE  IInv'
  <2>1. MemoryOK(slots, Indices, page)'
    BY <1>4 DEF mem, IInv, Indices
  <2>2. Scalars'
    <3>1. red' \in Reduction /\ pc' \in Labels
      BY <1>2, <1>4, ReduceFacts DEF IInv, Scalars, Labels
    <3>2. full' \in Indices /\ emp' \in Indices
      BY <1>4 DEF In
    <3> QED BY <1>1, <1>4, <3>1, <3>2 DEF mem, IInv, Scalars, Indices
  <2>3. In({"EMPTY"})' = In({"EMPTY"})
    BY <1>4 DEF mem, In, Indices
  <2>4. LocalsAgree'
    BY <1>1, <1>4, <2>3 DEF IInv, LocalsAgree, AtCreate, AtRelease, Reduce
  <2>5. TableKept'
    BY <1>1, <1>4 DEF mem, IInv, TableKept, AtRelease, Indices, TablePages, Reduce
  <2> QED BY <2>1, <2>2, <2>4, <2>5 DEF IInv
<1>5. \/ Stop("no empty slot")
      \/ \E i, j \in empty :
          /\ i # j /\ full' = i /\ emp' = j
          /\ \/ Reduce(kB, "create")
             \/ pc' = "create" /\ red' = red
          /\ UNCHANGED <<mem, req, growing, addr, why>>
  BY DEF SearchFailed, IsFirst, kB
<1> QED BY <1>3, <1>4, <1>5

(* Page_Create() maps pages no slot has: the chunk becomes a block of its   *)
(* own, large enough for the request.                                       *)
LEMMA CreatedStep ==
  ASSUME IInv, pc \in {"create", "retry", "last"}, Created
  PROVE  IInv'
<1> DEFINE n == ChunkPages(Current)
<1>1. n \in Nat /\ n >= InternalPages(Current) /\ InternalPages(Current) \in Nat
      /\ n > 0
  BY CurrentFacts
<1>2. PICK b \in MapAt :
        /\ CanMap(b, n)
        /\ page' = Set(b .. b + n - 1, "rw")
        /\ slots' = [slots EXCEPT ![full] =
                       [@ EXCEPT !.state = "FREE", !.base = b, !.len = n]]
  BY DEF Created
<1>3. /\ sumAllocatedMem' = sumAllocatedMem + KBOf(n)
      /\ unUsedSlots' = Decrement(unUsedSlots)
      /\ pc' = "carve"
      /\ UNCHANGED <<slotCount, allocList, listPages, sumProtectedMem,
                     ctl, why, calls>>
  BY DEF Created
<1> HIDE DEF n
<1>4. /\ full # emp /\ full \in Indices /\ emp \in Indices
      /\ slots[full].state = "EMPTY" /\ slots[emp].state = "EMPTY"
  BY DEF IInv, LocalsAgree, AtCreate, In
<1>5. /\ slots \in [Indices -> Slot] /\ MemoryOK(slots, Indices, page)
      /\ slots[full] = EmptySlot
  BY <1>4 DEF IInv, MemoryOK, SlotOK
<1> DEFINE t == [EmptySlot EXCEPT !.state = "FREE", !.base = b, !.len = n]
<1>6. slots' = [slots EXCEPT ![full] = t]
  BY <1>2, <1>4, <1>5
<1>7. b \in 1 .. NPages /\ b + n - 1 <= NPages /\ NPages \in Nat
  BY <1>2, HeapAssumption DEF CanMap
<1>8. \A p \in b .. b + n - 1 : p \in 1 .. NPages /\ page[p] = "unmapped"
  BY <1>1, <1>2, <1>7 DEF CanMap
<1>9. b > 2
  <2>1. page[b] = "unmapped"
    BY <1>1, <1>7, <1>8
  <2>2. b \notin {1, 2}
    BY <1>5, <1>7, <2>1 DEF MemoryOK, Owned, OwnedPage
  <2> QED BY <1>7, <2>2
<1>10. t \in Slot /\ SlotOK(t) /\ Pages(t) = b .. b + n - 1
       /\ t.state = "FREE" /\ t.len = n
  <2>1. b \in Nat
    BY <1>7
  <2> QED BY <1>1, <1>7, <1>9, <2>1, ChunkSlotFacts, Zenon
<1> HIDE DEF t
<1>11. MemoryOK(slots, Indices, page)'
  <2>1. page' \in PageMaps
    BY <1>2, <1>5 DEF Set, MemoryOK, PageMaps
  <2>2. \A p \in 1 .. NPages :
          page'[p] # "unmapped" <=>
            p \in Pages(t) \/ (page[p] # "unmapped" /\ p \notin Pages(slots[full]))
    BY <1>2, <1>5, <1>10, EmptySlotFacts DEF Set
  <2>3. \A p \in Pages(t) : p \in Pages(slots[full]) \/ page[p] = "unmapped"
    BY <1>8, <1>10
  <2>4. MemoryOK([slots EXCEPT ![full] = t], Indices, page')
    BY <1>4, <1>5, <1>10, <2>1, <2>2, <2>3, ReplaceSlot
  <2> QED BY <1>3, <1>6, <2>4 DEF Indices
<1>12. Scalars'
  <2>1. unUsedSlots' \in 0 .. SIZE_MOD - 1
    BY <1>3, HeapAssumption DEF Decrement, IInv, Scalars
  <2>2. KBOf(n) \in Nat
    BY <1>1, KBOfNat
  <2> QED BY <1>3, <2>1, <2>2 DEF ctl, IInv, Scalars, Indices, Labels
<1>13. \A i \in Indices : i # full => slots'[i] = slots[i]
  BY <1>4, <1>5, <1>6
<1>14. slots'[full] = t
  BY <1>4, <1>5, <1>6
<1>15. LocalsAgree'
  <2>1. Current' = Current
    BY <1>3 DEF ctl, Current, TableRequest
  <2>2. full \in In({"FREE"})' /\ emp \in In({"EMPTY"})'
    BY <1>3, <1>4, <1>10, <1>13, <1>14 DEF In, Indices
  <2>3. slots'[full].len >= InternalPages(Current')
    BY <1>1, <1>10, <1>14, <2>1
  <2>4. ValidRequest(req)' /\ (req.type # "INTERNAL")'
    BY <1>3 DEF ctl, IInv, LocalsAgree
  <2> QED BY <1>3, <2>2, <2>3, <2>4 DEF ctl, LocalsAgree, AtCreate, AtRelease
<1>16. TableKept'
  <2>1. PICK i \in Indices :
          /\ slots[i].state = "IN_USE" /\ slots[i].alloc = "INTERNAL"
          /\ TablePages \subseteq Pages(slots[i])
    BY DEF IInv, TableKept
  <2>2. i # full
    BY <1>4, <2>1
  <2>3. slots'[i] = slots[i]
    BY <1>13, <2>2
  <2>4. TablePages' = TablePages /\ Indices' = Indices /\ listPages' > 0
    BY <1>3 DEF TablePages, Indices, IInv, TableKept
  <2> QED BY <1>3, <2>1, <2>3, <2>4 DEF TableKept, AtRelease
<1> QED BY <1>11, <1>12, <1>15, <1>16 DEF IInv

(* _duma_allocate() returns without memory.                                 *)
LEMMA NoMemoryStep ==
  ASSUME IInv, pc \in {"create", "retry", "last"}, NoMemory
  PROVE  IInv'
<1>1. /\ growing' = FALSE /\ pc' \in {"search", "leave"}
      /\ UNCHANGED <<mem, req, full, emp, addr, red, why, calls>>
  BY DEF NoMemory
<1>2. MemoryOK(slots, Indices, page)'
  BY <1>1 DEF mem, IInv, Indices
<1>3. Scalars'
  BY <1>1 DEF mem, IInv, Scalars, Indices, Labels
<1>4. LocalsAgree'
  BY <1>1 DEF IInv, LocalsAgree, AtCreate, AtRelease
<1>5. TableKept'
  BY <1>1 DEF mem, IInv, TableKept, AtRelease, Indices, TablePages
<1> QED BY <1>2, <1>3, <1>4, <1>5 DEF IInv

(* _duma_allocate() asks for protected memory to be given up, or goes on to *)
(* its last attempt.                                                        *)
LEMMA TryAgainStep ==
  ASSUME IInv, pc \in {"create", "retry", "last"}, NEW n \in Nat,
         \/ Reduce(KBOf(n), "retry")
         \/ pc' = "last" /\ red' = red,
         UNCHANGED <<mem, req, growing, full, emp, addr, why, calls>>
  PROVE  IInv'
<1>1. KBOf(n) \in Nat
  BY KBOfNat
<1>2. /\ red' \in Reduction
      /\ \/ pc' = "reduce" /\ red'.from = "retry"
         \/ pc' = "last"
  BY <1>1, ReduceFacts DEF IInv, Scalars
<1>3. MemoryOK(slots, Indices, page)'
  BY DEF mem, IInv, Indices
<1>4. Scalars'
  BY <1>2 DEF mem, IInv, Scalars, Indices, Labels
<1>5. LocalsAgree'
  <2>1. In({"EMPTY"})' = In({"EMPTY"})
    BY DEF mem, In, Indices
  <2> QED BY <1>2, <2>1 DEF IInv, LocalsAgree, AtCreate, AtRelease
<1>6. TableKept'
  BY <1>2 DEF mem, IInv, TableKept, AtRelease, Indices, TablePages
<1> QED BY <1>3, <1>4, <1>5, <1>6 DEF IInv

LEMMA CreateStep ==
  ASSUME IInv, Create \/ Retry \/ Last
  PROVE  IInv'
<1> DEFINE n == ChunkPages(Current)
<1>1. n \in Nat /\ calls \in 0 .. MaxCalls
  BY CurrentFacts DEF IInv, Scalars
<1> HIDE DEF n
<1>2. pc \in {"create", "retry", "last"}
      /\ (Created \/ CreateFailed(n) \/ RetryFailed(n) \/ LastFailed(n))
  BY DEF Create, Retry, Last, n
<1>3. CASE Created
  BY <1>2, <1>3, CreatedStep
<1>4. CASE CreateFailed(n)
  BY <1>1, <1>2, <1>4, TryAgainStep, NoMemoryStep DEF CreateFailed
<1>5. CASE RetryFailed(n)
  BY <1>1, <1>2, <1>5, TryAgainStep, NoMemoryStep DEF RetryFailed, ctl
<1>6. CASE LastFailed(n)
  BY <1>1, <1>2, <1>6, StopStep, NoMemoryStep DEF LastFailed, Reasons
<1> QED BY <1>2, <1>3, <1>4, <1>5, <1>6

(* The slot of a block that is given to a request, and of what is left.     *)
LEMMA UsedSlotFacts ==
  ASSUME NEW r, ValidRequest(r), r.type \in AllocTypes, NEW b \in Nat, b > 2,
         b + InternalPages(r) - 1 <= NPages
  PROVE  LET t == UsedSlot(r, b)
         IN  /\ t \in Slot /\ SlotOK(t)
             /\ Pages(t) = b .. b + InternalPages(r) - 1
             /\ t.state = "IN_USE" /\ t.alloc = r.type /\ t.user = UserAddr(r, b)
<1> DEFINE n == InternalPages(r)
           u == UserAddr(r, b)
           q == ProtPage(r, b)
           t == UsedSlot(r, b)
<1>1. /\ n \in Nat /\ n > 0 /\ u \in Nat /\ q \in Nat
      /\ PageOf(u) \in b .. b + n - 1
  BY BlockGeometry
<1>2. r.userSize \in Nat
  BY DEF ValidRequest
<1>3. t = [state |-> "IN_USE", base |-> b, len |-> n, user |-> u,
           usz |-> r.userSize, prot |-> q, alloc |-> r.type]
  BY DEF UsedSlot
<1> HIDE DEF n, u, q, t
<1>4. t \in Slot
  BY <1>1, <1>2, <1>3 DEF Slot, SlotStates
<1>5. Pages(t) = b .. b + n - 1
  BY <1>3 DEF Pages
<1>6. SlotOK(t)
  BY <1>1, <1>3, <1>5 DEF SlotOK, n
<1> QED BY <1>3, <1>4, <1>5, <1>6 DEF n, u, t

LEMMA RestSlotFacts ==
  ASSUME NEW s \in Slot, SlotOK(s), s.state = "FREE",
         NEW n \in Nat, n < s.len
  PROVE  LET t == RestSlot(s, n)
         IN  /\ t \in Slot /\ SlotOK(t)
             /\ Pages(t) = s.base + n .. s.base + s.len - 1
<1> DEFINE t == RestSlot(s, n)
<1>1. /\ s.base \in Nat /\ s.len \in Nat /\ s.prot \in Nat /\ s.base > 2
      /\ s.base + s.len - 1 <= NPages /\ NPages \in Nat /\ s.alloc = "INTERNAL"
  BY HeapAssumption DEF Slot, SlotOK
<1>2. /\ t.state = "FREE" /\ t.base = s.base + n /\ t.len = s.len - n
      /\ t.alloc = "INTERNAL"
  BY <1>1 DEF RestSlot, Slot
<1>3. s.base + n \in Nat /\ s.len - n \in Nat /\ s.len - n > 0 /\ PageSize \in Nat
  BY <1>1, AddrAssumption
<1>4. (s.base + n) * PageSize \in Nat /\ (s.len - n) * PageSize \in Nat
  BY <1>3
<1>5. t \in Slot
  BY <1>3, <1>4 DEF RestSlot, Slot
<1> HIDE DEF t
<1>6. SlotOK(t)
  BY <1>1, <1>2, <1>3 DEF SlotOK
<1>7. Pages(t) = s.base + n .. s.base + s.len - 1
  BY <1>1, <1>2 DEF Pages
<1> QED BY <1>5, <1>6, <1>7 DEF t

(* The block of a new slot table: the table starts with the first page.     *)
LEMMA TableGeometry ==
  ASSUME listPages \in Nat, NEW b \in Nat
  PROVE  /\ InternalPages(TableRequest) = listPages + 2
         /\ UserAddr(TableRequest, b) = b * PageSize
         /\ PageOf(UserAddr(TableRequest, b)) = b
<1> DEFINE L == listPages + 1
           r == TableRequest
<1>1. PageSize \in Nat /\ PageSize > 1 /\ L \in Nat /\ L > 0
  BY AddrAssumption
<1>2. /\ r.userSize = L * PageSize /\ r.alignment = 1 /\ r.protectBelow = FALSE
  BY DEF TableRequest
<1> HIDE DEF L, r
<1>3. PagesFor(L * PageSize) = L
  <2> DEFINE x == L * PageSize + PageSize - 1
  <2>1. (L + 1) * PageSize = L * PageSize + PageSize /\ L * PageSize \in Nat
    BY <1>1
  <2>2. x \in Int /\ L * PageSize <= x /\ x < (L + 1) * PageSize
    BY <1>1, <2>1
  <2>3. L \in Int /\ L + 1 \in Int
    BY <1>1
  <2> HIDE DEF x
  <2>4. PageOf(x) \in Int /\ L <= PageOf(x) /\ PageOf(x) < L + 1
    BY <2>2, <2>3, PageBounds, Zenon
  <2>5. PageOf(x) = L
    BY <1>1, <2>4
  <2> QED BY <2>5 DEF x, PagesFor
<1>4. r.userSize # 0
  <2>1. L * PageSize > 0
    BY <1>1
  <2> QED BY <1>2, <2>1
<1>5. InternalPages(r) = L + 1
  BY <1>1, <1>2, <1>3, <1>4 DEF InternalPages
<1>6. UserAddr(r, b) = b * PageSize
  <2>1. UserAddr(r, b) = RoundDown((b + InternalPages(r) - 1) * PageSize - r.userSize, 1)
    BY <1>2, <1>4 DEF UserAddr
  <2>2. b + InternalPages(r) - 1 = b + L
    BY <1>1, <1>5
  <2>3. (b + L) * PageSize - L * PageSize = b * PageSize /\ b * PageSize \in Int
    BY <1>1
  <2>4. \A x \in Int : RoundDown(x, 1) = x
    BY DEF RoundDown
  <2> QED BY <1>2, <2>1, <2>2, <2>3, <2>4
<1>7. PageOf(b * PageSize) = b
  BY PageOfStart
<1>8. L + 1 = listPages + 2
  BY DEF L
<1> QED BY <1>5, <1>6, <1>7, <1>8 DEF r

(* The block is given out, and what the request does not need of it stays a *)
(* free block of its own; the pages keep their owners.                      *)
LEMMA CarveStep ==
  ASSUME IInv, Carve
  PROVE  IInv'
<1> DEFINE r == Current
           s == slots[full]
           n == InternalPages(r)
           split == s.len > n
           live == LivePages(r, s.base)
           dead == DeadPages(r, s.base)
           t == UsedSlot(r, s.base)
           u == RestSlot(s, n)
<1>1. pc = "carve" /\ calls' = calls
  BY DEF Carve
<1>2. CASE Stop("no empty slot") \/ Stop("mprotect failed")
  BY <1>1, <1>2, StopStep DEF Reasons, IInv, Scalars
<1>3. CASE /\ split => emp # 0
           /\ live \cup dead \subseteq Mapped
           /\ page' = [p \in 1 .. NPages |->
                         IF p \in dead THEN "none"
                         ELSE IF p \in live THEN "rw" ELSE page[p]]
           /\ slots' = [i \in Indices |->
                          IF i = full THEN t
                          ELSE IF split /\ i = emp THEN u ELSE slots[i]]
           /\ unUsedSlots' = IF split THEN Decrement(unUsedSlots) ELSE unUsedSlots
           /\ pc' = AfterAllocate
           /\ UNCHANGED <<slotCount, allocList, listPages, sumAllocatedMem,
                          sumProtectedMem, ctl, why>>
  <2>1. ValidRequest(r) /\ r.type \in AllocTypes /\ n \in Nat /\ n > 0
    BY CurrentFacts
  <2>2. /\ full \in Indices /\ s.state = "FREE" /\ s.len >= n
        /\ emp # 0 => emp \in Indices /\ slots[emp].state = "EMPTY"
    BY <1>1 DEF IInv, LocalsAgree, In
  <2>3. /\ MemoryOK(slots, Indices, page) /\ slots \in [Indices -> Slot]
        /\ s \in Slot /\ SlotOK(s)
    BY <2>2 DEF IInv, MemoryOK
  <2>4. /\ s.base \in Nat /\ s.len \in Nat /\ s.base > 2
        /\ s.base + s.len - 1 <= NPages /\ NPages \in Nat
    BY <2>2, <2>3, HeapAssumption DEF Slot, SlotOK
  <2>5. s.base + n - 1 <= NPages
    BY <2>1, <2>2, <2>4
  <2>6. /\ t \in Slot /\ SlotOK(t) /\ Pages(t) = s.base .. s.base + n - 1
        /\ t.state = "IN_USE" /\ t.alloc = r.type /\ t.user = UserAddr(r, s.base)
    BY <2>1, <2>4, <2>5, UsedSlotFacts, Zenon
  <2>7. /\ page' \in PageMaps
        /\ \A p \in 1 .. NPages : page'[p] = "unmapped" <=> page[p] = "unmapped"
    BY <1>3, <2>3 DEF Mapped, MemoryOK, PageMaps
  <2>8. MemoryOK(slots, Indices, page')
    BY <2>3, <2>7, SameSlots
  <2>9. Pages(s) = s.base .. s.base + s.len - 1
    BY DEF Pages
  <2>10. slots'[full] = t /\ Indices' = Indices
    BY <1>3, <2>2 DEF Indices
  <2>11. MemoryOK(slots', Indices, page')
    <3>1. CASE split
      <4>1. emp \in Indices /\ emp # full /\ slots[emp].state = "EMPTY"
        BY <1>3, <2>2, <3>1
      <4>2. slots[emp] = EmptySlot
        BY <2>3, <4>1 DEF MemoryOK, SlotOK
      <4>3. n < s.len
        BY <2>1, <2>4, <3>1
      <4>4. u \in Slot /\ SlotOK(u) /\ Pages(u) = s.base + n .. s.base + s.len - 1
        BY <2>1, <2>2, <2>3, <4>3, RestSlotFacts, Zenon
      <4> HIDE DEF t, u, n, r, live, dead
      <4>5. /\ slots' \in [Indices -> Slot]
            /\ slots'[full] = t /\ slots'[emp] = u
            /\ \A i \in Indices \ {full, emp} : slots'[i] = slots[i]
        BY <1>3, <2>2, <2>3, <2>6, <3>1, <4>1, <4>4
      <4> HIDE DEF s
      <4>6. \A p : p \in Pages(s) <=> p \in Pages(t) \/ p \in Pages(u)
        BY <2>1, <2>4, <2>6, <2>9, <4>3, <4>4
      <4>7. \A p \in Pages(t) : p \notin Pages(u)
        BY <2>1, <2>4, <2>6, <4>4
      <4>8. Pages(slots[emp]) = {}
        BY <4>2, EmptySlotFacts
      <4> QED BY <2>2, <2>6, <2>8, <4>1, <4>4, <4>5, <4>6, <4>7, <4>8, SplitSlot
              DEF s
    <3>2. CASE ~ split
      <4>1. s.len = n
        BY <2>1, <2>2, <2>4, <3>2
      <4>2. Pages(t) = Pages(s)
        BY <2>6, <2>9, <4>1
      <4> HIDE DEF t, u, n, r, live, dead
      <4>3. slots' = [slots EXCEPT ![full] = t]
        BY <1>3, <2>2, <2>3, <3>2
      <4>4. \A p \in Pages(s) : p \in 1 .. NPages
        BY <2>3, SlotPages
      <4>5. \A p \in Pages(s) : page'[p] # "unmapped"
        BY <2>2, <2>8, <4>4 DEF MemoryOK, Owned, OwnedPage
      <4>6. MemoryOK([slots EXCEPT ![full] = t], Indices, page')
        BY <2>2, <2>6, <2>7, <2>8, <4>2, <4>5, ReplaceSlot
      <4> QED BY <4>3, <4>6
    <3> QED BY <3>1, <3>2
  <2>12. pc' \in {"swap", "move", "leave"} /\ (pc' = "swap" <=> growing)
    BY <1>3 DEF AfterAllocate
  <2>13. Scalars'
    <3>1. unUsedSlots' \in 0 .. SIZE_MOD - 1
      BY <1>3, HeapAssumption DEF Decrement, IInv, Scalars
    <3> QED BY <1>1, <1>3, <2>10, <2>12, <3>1 DEF ctl, IInv, Scalars, Labels
  <2>14. LocalsAgree'
    <3>1. ValidRequest(req)' /\ (req.type # "INTERNAL")'
      BY <1>1, <1>3 DEF ctl, IInv, LocalsAgree
    <3>2. full' = full /\ growing' = growing
      BY <1>3 DEF ctl
    <3> QED BY <2>2, <2>10, <2>12, <3>1, <3>2 DEF LocalsAgree, AtCreate, AtRelease
  <2>15. TableKept'
    <3>1. PICK i \in Indices :
            /\ slots[i].state = "IN_USE" /\ slots[i].alloc = "INTERNAL"
            /\ TablePages \subseteq Pages(slots[i])
      BY DEF IInv, TableKept
    <3>2. i # full /\ (emp # 0 => i # emp)
      BY <2>2, <3>1
    <3>3. slots'[i] = slots[i]
      BY <1>3, <3>2
    <3>4. /\ TablePages' = TablePages /\ full' = full /\ listPages' = listPages
          /\ listPages > 0 /\ listPages \in Nat
      BY <1>3 DEF ctl, TablePages, IInv, TableKept, Scalars
    <3>5. ASSUME growing
          PROVE  PageOf(t.user) .. PageOf(t.user) + listPages \subseteq Pages(t)
                 /\ t.alloc = "INTERNAL"
      <4>1. r = TableRequest
        BY <3>5 DEF Current
      <4>2. n = listPages + 2 /\ PageOf(UserAddr(r, s.base)) = s.base
        BY <2>4, <3>4, <4>1, TableGeometry
      <4>3. r.type = "INTERNAL"
        BY <4>1 DEF TableRequest
      <4> HIDE DEF t, n, r, s
      <4> QED BY <2>4, <2>6, <3>4, <4>2, <4>3
    <3> HIDE DEF t
    <3> QED BY <2>6, <2>10, <2>12, <3>1, <3>2, <3>3, <3>4, <3>5
            DEF TableKept, AtRelease
  <2> QED BY <2>10, <2>11, <2>13, <2>14, <2>15 DEF IInv
<1> QED BY <1>2, <1>3 DEF Carve

(* allocateMoreSlots() exchanges the table: the new one is kept, and the    *)
(* address it goes on to release is that of the old one.                    *)
LEMMA SwapStep ==
  ASSUME IInv, Swap
  PROVE  IInv'
<1> DEFINE s == slots[full]
<1>1. /\ pc = "swap" /\ pc' = "dealloc"
      /\ slotCount' = slotCount + SlotsPerPage
      /\ slots' = [i \in 1 .. slotCount + SlotsPerPage |->
                     IF i \in Indices THEN slots[i] ELSE EmptySlot]
      /\ allocList' = PageOf(s.user) /\ listPages' = listPages + 1
      /\ unUsedSlots' = (unUsedSlots + SlotsPerPage) % SIZE_MOD
      /\ addr' = allocList * PageSize
      /\ UNCHANGED <<sumAllocatedMem, sumProtectedMem, page, req, growing, full,
                     emp, red, why, calls>>
  BY DEF Swap
<1>2. slotCount \in Nat /\ SlotsPerPage \in Nat /\ SIZE_MOD \in Nat \ {0}
  BY HeapAssumption DEF IInv, Scalars
<1>3. /\ full \in Indices /\ slots \in [Indices -> Slot] /\ s \in Slot /\ SlotOK(s)
      /\ s.state = "IN_USE" /\ s.alloc = "INTERNAL"
      /\ PageOf(s.user) .. PageOf(s.user) + listPages \subseteq Pages(s)
  BY <1>1 DEF IInv, LocalsAgree, TableKept, MemoryOK
<1>4. PageOf(s.user) \in Pages(s) /\ PageOf(s.user) \in Nat
  BY <1>3 DEF SlotOK, Pages, Slot
<1>5. Indices' = 1 .. slotCount + SlotsPerPage /\ Indices \subseteq Indices'
  BY <1>1, <1>2 DEF Indices
<1>6. MemoryOK(slots, Indices, page)'
  <2>1. MemoryOK(slots, Indices, page)
    BY DEF IInv
  <2>2. MemoryOK(slots', Indices', page)
    BY <1>1, <1>5, <2>1, GrowTable
  <2> QED BY <1>1, <2>2
<1>7. listPages \in Nat /\ listPages > 0 /\ allocList \in Nat /\ PageSize \in Nat
      /\ PageSize > 0
  BY AddrAssumption DEF IInv, Scalars, TableKept
<1>8. Scalars'
  <2>1. allocList * PageSize \in Nat
    BY <1>7
  <2>2. unUsedSlots' \in 0 .. SIZE_MOD - 1
    BY <1>1, <1>2 DEF IInv, Scalars
  <2> QED BY <1>1, <1>2, <1>4, <1>5, <1>7, <2>1, <2>2 DEF IInv, Scalars, Labels
<1>9. LocalsAgree'
  BY <1>1 DEF IInv, LocalsAgree, AtCreate, AtRelease
<1>10. slots'[full] = s /\ full \in Indices'
  BY <1>1, <1>3, <1>5
<1>11. s.user # allocList * PageSize
  <2>1. PICK i \in Indices : TablePages \subseteq Pages(slots[i]) /\ i # full
    BY <1>1 DEF IInv, TableKept
  <2>2. allocList \in Pages(slots[i])
    BY <1>7, <2>1 DEF TablePages
  <2>3. PageOf(allocList * PageSize) = allocList
    BY <1>7, PageOfStart
  <2> QED BY <1>3, <1>4, <2>1, <2>2, <2>3 DEF IInv, MemoryOK, Disjoint
<1>12. TablePages' \subseteq Pages(s)
  <2>1. allocList' + listPages' - 1 = PageOf(s.user) + listPages
    BY <1>1, <1>4, <1>7
  <2> QED BY <1>1, <1>3, <2>1 DEF TablePages
<1>13. TableKept'
  <2> HIDE DEF s
  <2>1. listPages' > 0
    BY <1>1, <1>7
  <2> QED BY <1>1, <1>3, <1>10, <1>11, <1>12, <2>1 DEF TableKept, AtRelease
<1> QED BY <1>6, <1>8, <1>9, <1>13 DEF IInv

(* _duma_realloc() goes on to release the old buffer.                       *)
LEMMA MoveStep ==
  ASSUME IInv, Move
  PROVE  IInv'
<1>1. pc = "move" /\ calls' = calls /\ calls \in 0 .. MaxCalls
  BY DEF Move, IInv, Scalars
<1>2. CASE Stop("unknown address") \/ Stop("segmentation fault")
  BY <1>1, <1>2, StopStep DEF Reasons
<1>3. CASE /\ addr' = req.old /\ pc' = "dealloc"
           /\ UNCHANGED <<mem, req, growing, full, emp, red, why>>
  <2>1. MemoryOK(slots, Indices, page)'
    BY <1>3 DEF mem, IInv, Indices
  <2>2. req.old \in Nat
    BY DEF IInv, Scalars, Request
  <2>3. Scalars'
    BY <1>1, <1>3, <2>2 DEF mem, IInv, Scalars, Indices, Labels
  <2>4. LocalsAgree'
    BY <1>1, <1>3 DEF IInv, LocalsAgree, AtCreate, AtRelease
  <2>5. TableKept'
    BY <1>1, <1>3 DEF mem, IInv, LocalsAgree, TableKept, AtRelease, Indices,
                      TablePages
  <2> QED BY <2>1, <2>3, <2>4, <2>5 DEF IInv
<1> QED BY <1>2, <1>3 DEF Move

(* _duma_deallocate() finds a block that is not empty, not yet freed and    *)
(* not the slot table.                                                      *)
LEMMA DeallocateStep ==
  ASSUME IInv, Deallocate
  PROVE  IInv'
<1>1. pc = "dealloc" /\ calls' = calls /\ calls \in 0 .. MaxCalls
  BY DEF Deallocate, IInv, Scalars
<1>2. CASE Stop("unknown address") \/ Stop("already freed") \/ Stop("free mismatch")
  BY <1>1, <1>2, StopStep DEF Reasons
<1>3. CASE pc' = "leave" /\ UNCHANGED <<mem, ctl, why>>
  <2>1. MemoryOK(slots, Indices, page)'
    BY <1>3 DEF mem, IInv, Indices
  <2>2. Scalars'
    BY <1>1, <1>3 DEF mem, ctl, IInv, Scalars, Indices, Labels
  <2>3. LocalsAgree'
    BY <1>3 DEF ctl, IInv, LocalsAgree, AtCreate, AtRelease
  <2>4. TableKept'
    BY <1>3 DEF mem, ctl, IInv, TableKept, AtRelease, Indices, TablePages
  <2> QED BY <2>1, <2>2, <2>3, <2>4 DEF IInv
<1>4. ASSUME NEW i \in Indices, addr # NULL, slots[i].user = addr,
             slots[i].state \notin {"ALL_PROTECTED", "BEGIN_PROTECTED"},
             ~ Mismatch(slots[i]), full' = i,
             \/ Reduce(KBOf(slots[i].len), "release")
             \/ pc' = "release" /\ red' = red,
             UNCHANGED <<mem, req, growing, emp, addr, why>>
      PROVE  IInv'
  <2>1. slots[i] \in Slot /\ SlotOK(slots[i])
    BY DEF IInv, MemoryOK
  <2>2. slots[i].state \in {"FREE", "IN_USE"}
    BY <1>4, <2>1 DEF Slot, SlotStates, SlotOK, EmptySlot, NULL
  <2>3. KBOf(slots[i].len) \in Nat
    BY <2>1, KBOfNat DEF Slot
  <2>4. /\ red' \in Reduction
        /\ \/ pc' = "reduce" /\ red'.from = "release"
           \/ pc' = "release"
    BY <1>4, <2>3, ReduceFacts DEF IInv, Scalars
  <2>5. MemoryOK(slots, Indices, page)'
    BY <1>4 DEF mem, IInv, Indices
  <2>6. Scalars'
    BY <1>1, <1>4, <2>4 DEF mem, IInv, Scalars, Indices, Labels
  <2>7. LocalsAgree'
    <3>1. i \in In({"FREE", "IN_USE"})'
      BY <1>4, <2>2 DEF mem, In, Indices
    <3> QED BY <1>1, <1>4, <2>4, <3>1 DEF IInv, LocalsAgree, AtCreate, AtRelease
  <2>8. TableKept'
    <3>1. PICK k \in Indices :
            /\ slots[k].state = "IN_USE" /\ slots[k].alloc = "INTERNAL"
            /\ TablePages \subseteq Pages(slots[k])
            /\ growing => slots[k].user # addr
      BY <1>1 DEF IInv, TableKept
    <3>2. CASE growing
      BY <1>4, <2>4, <3>1, <3>2 DEF mem, IInv, TableKept, AtRelease, Indices,
                                    TablePages
    <3>3. CASE ~ growing
      <4>1. slots[i].alloc # "INTERNAL"
        BY <1>1, <1>4, <3>3 DEF Mismatch, Current, IInv, LocalsAgree
      <4>2. k # i
        BY <3>1, <4>1
      <4> QED BY <1>4, <2>4, <3>1, <4>2 DEF mem, IInv, TableKept, AtRelease,
                                            Indices, TablePages
    <3> QED BY <3>2, <3>3
  <2> QED BY <2>5, <2>6, <2>7, <2>8 DEF IInv
<1> QED BY <1>2, <1>3, <1>4 DEF Deallocate, SlotForUserAddress, IsFirst

(* A slot whose block is protected, cut or given up keeps, of its pages, a  *)
(* part; the pages it loses are no longer mapped.                           *)
LEMMA ShrinkSlot ==
  ASSUME MemoryOK(slots, Indices, page), NEW i \in Indices,
         NEW t \in Slot, SlotOK(t), Pages(t) \subseteq Pages(slots[i]),
         NEW pg \in PageMaps,
         \A p \in 1 .. NPages :
           LET gone == page[p] = "unmapped"
                         \/ (p \in Pages(slots[i]) /\ p \notin Pages(t))
           IN  /\ pg[p] = "unmapped" => gone
               /\ ~ MunmapMayFail /\ gone => pg[p] = "unmapped"
  PROVE  MemoryOK([slots EXCEPT ![i] = t], Indices, pg)
<1>1. slots[i] \in Slot /\ SlotOK(slots[i])
  BY DEF MemoryOK
<1>2. \A p \in Pages(slots[i]) : p \in 1 .. NPages /\ page[p] # "unmapped"
  BY <1>1, SlotPages DEF MemoryOK, Owned, OwnedPage
<1>3. \A p \in 1 .. NPages :
        LET left == p \in Pages(t) \/ (page[p] # "unmapped" /\ p \notin Pages(slots[i]))
        IN  /\ left => pg[p] # "unmapped"
            /\ ~ MunmapMayFail /\ pg[p] # "unmapped" => left
  BY <1>2
<1> QED BY <1>3, ReplaceSlot

(* What munmap() does not take stays mapped, and is made inaccessible.      *)
LEMMA DeletedPages ==
  ASSUME page \in PageMaps, NEW P, Page_Delete(P)
  PROVE  /\ page' \in PageMaps
         /\ \A p \in 1 .. NPages :
              /\ p \notin P => page'[p] = page[p]
              /\ p \in P => page'[p] \in {"unmapped", "none"}
              /\ ~ MunmapMayFail /\ p \in P => page'[p] = "unmapped"
<1>1. PICK access \in IF MunmapMayFail THEN {"unmapped", "none"} ELSE {"unmapped"} :
        page' = Set(P, access)
  BY DEF Page_Delete
<1>2. /\ access \in {"unmapped", "none"}
      /\ ~ MunmapMayFail => access = "unmapped"
  OBVIOUS
<1> QED BY <1>1, <1>2 DEF Set, PageMaps

(* The block is protected as a whole, or given back to the system.          *)
LEMMA ReleaseStep ==
  ASSUME IInv, Release
  PROVE  IInv'
<1> DEFINE s == slots[full]
<1>1. /\ pc = "release" /\ growing' = FALSE /\ pc' \in {"search", "leave"}
      /\ UNCHANGED <<slotCount, allocList, listPages, req, full, emp, addr, red,
                     why, calls>>
  BY DEF Release, AfterDeallocate
<1>2. /\ full \in Indices /\ s.state \in {"FREE", "IN_USE"}
      /\ slots \in [Indices -> Slot] /\ s \in Slot /\ SlotOK(s)
      /\ MemoryOK(slots, Indices, page)
  BY <1>1 DEF IInv, LocalsAgree, AtRelease, In, MemoryOK
<1>3. KBOf(s.len) \in Nat
  BY <1>2, KBOfNat DEF Slot
<1>4. \A p \in Pages(s) : p \in 1 .. NPages /\ page[p] # "unmapped"
  BY <1>2, SlotPages DEF MemoryOK, Owned, OwnedPage
<1>5. /\ \E t \in Slot : slots' = [slots EXCEPT ![full] = t]
      /\ MemoryOK(slots', Indices, page')
      /\ unUsedSlots' \in 0 .. SIZE_MOD - 1
      /\ sumAllocatedMem' \in Int /\ sumProtectedMem' \in Int
  <2>1. CASE /\ MayProtect(s)
             /\ slots' = [slots EXCEPT ![full].state = "ALL_PROTECTED"]
             /\ page' = Set(Pages(s), "none")
             /\ sumProtectedMem' = sumProtectedMem + KBOf(s.len)
             /\ UNCHANGED <<sumAllocatedMem, unUsedSlots>>
    <3> DEFINE t == [s EXCEPT !.state = "ALL_PROTECTED"]
    <3>1. slots' = [slots EXCEPT ![full] = t]
      BY <1>2, <2>1
    <3>2. s.state = "IN_USE"
      BY <1>2, <2>1 DEF MayProtect, SlotOK
    <3>3. /\ t \in Slot /\ t.state = "ALL_PROTECTED" /\ t.base = s.base
          /\ t.len = s.len /\ t.user = s.user
      BY <1>2 DEF Slot, SlotStates
    <3> HIDE DEF t
    <3>4. Pages(t) = Pages(s)
      BY <3>3 DEF Pages
    <3>5. SlotOK(t)
      BY <1>2, <3>2, <3>3, <3>4 DEF SlotOK
    <3>6. page' \in PageMaps
      BY <1>2, <2>1 DEF Set, MemoryOK, PageMaps
    <3>7. \A p \in 1 .. NPages : page'[p] = "unmapped" <=> page[p] = "unmapped"
      BY <1>4, <2>1 DEF Set
    <3>8. MemoryOK([slots EXCEPT ![full] = t], Indices, page')
      BY <1>2, <3>3, <3>4, <3>5, <3>6, <3>7, ShrinkSlot
    <3>9. MemoryOK(slots', Indices, page')
      BY <3>1, <3>8
    <3>10. /\ unUsedSlots' \in 0 .. SIZE_MOD - 1
           /\ sumAllocatedMem' \in Int /\ sumProtectedMem' \in Int
      BY <1>3, <2>1 DEF IInv, Scalars
    <3> QED BY <3>1, <3>3, <3>9, <3>10, Zenon
  <2>2. CASE /\ slots' = [slots EXCEPT ![full] = EmptySlot]
             /\ Page_Delete(Pages(s))
             /\ sumAllocatedMem' = sumAllocatedMem - KBOf(s.len)
             /\ unUsedSlots' = (unUsedSlots + 1) % SIZE_MOD
             /\ UNCHANGED sumProtectedMem
    <3>1. /\ page' \in PageMaps
          /\ \A p \in 1 .. NPages :
               /\ p \notin Pages(s) => page'[p] = page[p]
               /\ ~ MunmapMayFail /\ p \in Pages(s) => page'[p] = "unmapped"
      BY <1>2, <2>2, DeletedPages DEF MemoryOK
    <3>2. \A p \in 1 .. NPages :
            LET gone == page[p] = "unmapped"
                          \/ (p \in Pages(s) /\ p \notin Pages(EmptySlot))
            IN  /\ page'[p] = "unmapped" => gone
                /\ ~ MunmapMayFail /\ gone => page'[p] = "unmapped"
      BY <3>1, EmptySlotFacts
    <3>3. Pages(EmptySlot) \subseteq Pages(s)
      BY EmptySlotFacts
    <3>4. MemoryOK([slots EXCEPT ![full] = EmptySlot], Indices, page')
      BY <1>2, <3>1, <3>2, <3>3, EmptySlotFacts, ShrinkSlot
    <3>5. unUsedSlots' \in 0 .. SIZE_MOD - 1
      BY <2>2, HeapAssumption DEF IInv, Scalars
    <3>6. MemoryOK(slots', Indices, page')
      BY <2>2, <3>4
    <3>7. sumAllocatedMem' \in Int /\ sumProtectedMem' \in Int
      BY <1>3, <2>2 DEF IInv, Scalars
    <3>8. EmptySlot \in Slot
      BY EmptySlotFacts
    <3> QED BY <2>2, <3>5, <3>6, <3>7, <3>8, Zenon
  <2> QED BY <2>1, <2>2 DEF Release
<1>6. Indices' = Indices
  BY <1>1 DEF Indices
<1>7. Scalars'
  BY <1>1, <1>5, <1>6 DEF IInv, Scalars, Labels
<1>8. LocalsAgree'
  BY <1>1 DEF IInv, LocalsAgree, AtCreate, AtRelease
<1>9. TableKept'
  <2>1. PICK i \in Indices :
          /\ slots[i].state = "IN_USE" /\ slots[i].alloc = "INTERNAL"
          /\ TablePages \subseteq Pages(slots[i])
          /\ i # full
    BY <1>1 DEF IInv, TableKept, AtRelease
  <2>2. slots'[i] = slots[i]
    BY <1>2, <1>5, <2>1
  <2> QED BY <1>1, <1>6, <2>1, <2>2 DEF IInv, TableKept, AtRelease, TablePages
<1> QED BY <1>5, <1>6, <1>7, <1>8, <1>9 DEF IInv

(* reduceProtectedMemory() changes one protected slot and may return; the   *)
(* locals of its caller still fit the table.                                *)
LEMMA ReduceStep ==
  ASSUME IInv, pc = "reduce", red' \in Reduction, red'.from = red.from,
         pc' \in {"reduce", red.from},
         NEW i \in In({"ALL_PROTECTED", "BEGIN_PROTECTED"}), NEW t,
         slots' = [slots EXCEPT ![i] = t],
         MemoryOK(slots', Indices, page'),
         sumAllocatedMem' \in Int, sumProtectedMem' \in Int,
         UNCHANGED <<slotCount, allocList, listPages, unUsedSlots, req, growing,
                     full, emp, addr, why, calls>>
  PROVE  IInv'
<1>1. Indices' = Indices /\ slots \in [Indices -> Slot]
  BY DEF Indices, IInv, MemoryOK
<1>2. /\ i \in Indices /\ slots[i].state \in {"ALL_PROTECTED", "BEGIN_PROTECTED"}
      /\ \A j \in Indices : j # i => slots'[j] = slots[j]
  BY <1>1 DEF In
<1>3. pc' \in {"reduce", "create", "retry", "release"} /\ red.from # "idle"
  BY DEF IInv, LocalsAgree, Scalars, Reduction
<1>4. MemoryOK(slots, Indices, page)'
  BY <1>1
<1>5. Scalars'
  BY <1>1, <1>3 DEF IInv, Scalars, Labels
<1>6. (AtCreate' => AtCreate) /\ (AtRelease' => AtRelease)
  BY <1>3 DEF AtCreate, AtRelease
<1>7. LocalsAgree'
  <2>1. AtCreate' => /\ full' # emp'
                     /\ full' \in In({"EMPTY"})' /\ emp' \in In({"EMPTY"})'
    BY <1>1, <1>2, <1>6 DEF IInv, LocalsAgree, In
  <2>2. AtRelease' => full' \in In({"FREE", "IN_USE"})'
    BY <1>1, <1>2, <1>6 DEF IInv, LocalsAgree, In
  <2>3. ValidRequest(req)' /\ (req.type # "INTERNAL")'
    BY DEF IInv, LocalsAgree
  <2> QED BY <1>3, <2>1, <2>2, <2>3 DEF LocalsAgree
<1>8. TableKept'
  <2>1. PICK k \in Indices :
          /\ slots[k].state = "IN_USE" /\ slots[k].alloc = "INTERNAL"
          /\ TablePages \subseteq Pages(slots[k])
          /\ AtRelease => k # full
    BY DEF IInv, TableKept
  <2>2. slots'[k] = slots[k]
    BY <1>2, <2>1
  <2> QED BY <1>1, <1>3, <1>6, <2>1, <2>2 DEF IInv, TableKept, TablePages
<1> QED BY <1>4, <1>5, <1>7, <1>8 DEF IInv

LEMMA ReducedFacts ==
  ASSUME IInv, pc = "reduce", NEW kB \in Nat, Reduced(kB)
  PROVE  /\ red' \in Reduction /\ red'.from = red.from
         /\ pc' \in {"reduce", red.from}
         /\ sumAllocatedMem' \in Int /\ sumProtectedMem' \in Int
<1>1. /\ red \in Reduction /\ red.got \in Nat
      /\ sumAllocatedMem \in Int /\ sumProtectedMem \in Int
  BY DEF IInv, Scalars, Reduction
<1>2. red.got + kB \in Nat
  BY <1>1
<1>3. CASE red.got + kB >= red.want
  <2>1. /\ sumProtectedMem' = sumProtectedMem - (red.got + kB)
        /\ sumAllocatedMem' = sumAllocatedMem - (red.got + kB)
        /\ red' = [red EXCEPT !.got = red.got + kB, !.more = TRUE]
        /\ pc' = red.from
    BY <1>3 DEF Reduced
  <2>2. red' \in Reduction /\ red'.from = red.from
    BY <1>1, <1>2, <2>1 DEF Reduction
  <2>3. sumAllocatedMem' \in Int /\ sumProtectedMem' \in Int
    BY <1>1, <1>2, <2>1
  <2> QED BY <2>1, <2>2, <2>3
<1>4. CASE ~ (red.got + kB >= red.want)
  BY <1>1, <1>2, <1>4 DEF Reduced, Reduction
<1> QED BY <1>3, <1>4

(* First loop: the slot keeps the pages up to that of the user's address.   *)
LEMMA ReduceToBeginStep ==
  ASSUME IInv, ReduceToBegin
  PROVE  IInv'
<1>1. PICK i \in Indices :
        /\ IsFirst(i, In({"ALL_PROTECTED"}))
        /\ Page_Delete(CutPages(slots[i]))
        /\ slots' = [slots EXCEPT ![i] =
                       [@ EXCEPT !.state = "BEGIN_PROTECTED",
                                 !.len = KeptLen(slots[i])]]
        /\ Reduced(CutKB(slots[i]))
  BY DEF ReduceToBegin
<1>2. /\ pc = "reduce"
      /\ UNCHANGED <<slotCount, allocList, listPages, unUsedSlots, req, growing,
                     full, emp, addr, why, calls>>
  BY DEF ReduceToBegin
<1> DEFINE s == slots[i]
           k == KeptLen(s)
           t == [s EXCEPT !.state = "BEGIN_PROTECTED", !.len = k]
<1>3. /\ s.state = "ALL_PROTECTED" /\ s \in Slot /\ SlotOK(s)
      /\ slots \in [Indices -> Slot] /\ MemoryOK(slots, Indices, page)
  BY <1>1 DEF IsFirst, In, IInv, MemoryOK
<1>4. slots' = [slots EXCEPT ![i] = t]
  BY <1>1, <1>3
<1>5. /\ s.base \in Nat /\ s.len \in Nat /\ s.user \in Nat
      /\ s.base > 2 /\ s.base + s.len - 1 <= NPages
      /\ PageOf(s.user) \in s.base .. s.base + s.len - 1
  BY <1>3 DEF Slot, SlotOK, Pages
<1>6. /\ k \in Nat /\ k > 0 /\ k <= s.len /\ PageOf(s.user) = s.base + k - 1
  BY <1>5 DEF KeptLen
<1>7. CutKB(s) \in Nat
  <2>1. s.len - k \in Nat
    BY <1>5, <1>6
  <2> QED BY <2>1, KBOfNat DEF CutKB
<1>8. /\ t \in Slot /\ t.state = "BEGIN_PROTECTED" /\ t.len = k
      /\ t.base = s.base /\ t.user = s.user
  <2> HIDE DEF s, k
  <2> QED BY <1>3, <1>6 DEF Slot, SlotStates
<1>9. CutPages(s) = s.base + k .. s.base + s.len - 1
  BY DEF CutPages
<1> HIDE DEF k, t
<1>10. Pages(t) = s.base .. s.base + k - 1 /\ Pages(s) = s.base .. s.base + s.len - 1
  BY <1>8 DEF Pages
<1>11. SlotOK(t) /\ Pages(t) \subseteq Pages(s)
  <2>1. NPages \in Nat
    BY HeapAssumption
  <2>2. Pages(t) \subseteq Pages(s)
    <3> HIDE DEF s
    <3> QED BY <1>5, <1>6, <1>10
  <2>3. t.base + t.len - 1 <= NPages /\ PageOf(t.user) \in Pages(t)
    <3> HIDE DEF s
    <3> QED BY <1>5, <1>6, <1>8, <1>10, <2>1
  <2> HIDE DEF s
  <2> QED BY <1>5, <1>6, <1>8, <1>10, <2>1, <2>3 DEF SlotOK
<1>12. \A p : p \in CutPages(s) <=> p \in Pages(s) /\ p \notin Pages(t)
  BY <1>5, <1>6, <1>9, <1>10
<1>13. /\ page' \in PageMaps
       /\ \A p \in 1 .. NPages :
            /\ p \notin CutPages(s) => page'[p] = page[p]
            /\ ~ MunmapMayFail /\ p \in CutPages(s) => page'[p] = "unmapped"
  BY <1>1, <1>3, DeletedPages DEF MemoryOK
<1>14. \A p \in 1 .. NPages :
         LET gone == page[p] = "unmapped" \/ (p \in Pages(s) /\ p \notin Pages(t))
         IN  /\ page'[p] = "unmapped" => gone
             /\ ~ MunmapMayFail /\ gone => page'[p] = "unmapped"
  BY <1>12, <1>13
<1>15. MemoryOK(slots', Indices, page')
  BY <1>3, <1>4, <1>8, <1>11, <1>13, <1>14, ShrinkSlot
<1>16. /\ red' \in Reduction /\ red'.from = red.from
       /\ pc' \in {"reduce", red.from}
       /\ sumAllocatedMem' \in Int /\ sumProtectedMem' \in Int
  BY <1>1, <1>2, <1>7, ReducedFacts
<1>17. i \in In({"ALL_PROTECTED", "BEGIN_PROTECTED"})
  BY <1>3 DEF In
<1> QED BY <1>2, <1>4, <1>15, <1>16, <1>17, ReduceStep

(* Second loop: the slot gives up what it kept.                             *)
LEMMA ReduceToEmptyStep ==
  ASSUME IInv, ReduceToEmpty
  PROVE  IInv'
<1>1. PICK i \in Indices :
        /\ IsFirst(i, In({"BEGIN_PROTECTED"}))
        /\ Page_Delete(Pages(slots[i]))
        /\ slots' = [slots EXCEPT ![i] = EmptySlot]
        /\ Reduced(KBOf(slots[i].len))
  BY DEF ReduceToEmpty
<1>2. /\ pc = "reduce"
      /\ UNCHANGED <<slotCount, allocList, listPages, unUsedSlots, req, growing,
                     full, emp, addr, why, calls>>
  BY DEF ReduceToEmpty
<1>3. /\ slots[i].state = "BEGIN_PROTECTED" /\ slots[i] \in Slot
      /\ MemoryOK(slots, Indices, page)
  BY <1>1 DEF IsFirst, In, IInv, MemoryOK
<1>4. KBOf(slots[i].len) \in Nat
  BY <1>3, KBOfNat DEF Slot
<1>5. /\ page' \in PageMaps
      /\ \A p \in 1 .. NPages :
           /\ p \notin Pages(slots[i]) => page'[p] = page[p]
           /\ ~ MunmapMayFail /\ p \in Pages(slots[i]) => page'[p] = "unmapped"
  BY <1>1, <1>3, DeletedPages DEF MemoryOK
<1>6. \A p \in 1 .. NPages :
        LET gone == page[p] = "unmapped"
                      \/ (p \in Pages(slots[i]) /\ p \notin Pages(EmptySlot))
        IN  /\ page'[p] = "unmapped" => gone
            /\ ~ MunmapMayFail /\ gone => page'[p] = "unmapped"
  BY <1>5, EmptySlotFacts
<1>7. Pages(EmptySlot) \subseteq Pages(slots[i])
  BY EmptySlotFacts
<1>8. MemoryOK(slots', Indices, page')
  BY <1>1, <1>3, <1>5, <1>6, <1>7, EmptySlotFacts, ShrinkSlot
<1>9. /\ red' \in Reduction /\ red'.from = red.from
      /\ pc' \in {"reduce", red.from}
      /\ sumAllocatedMem' \in Int /\ sumProtectedMem' \in Int
  BY <1>1, <1>2, <1>4, ReducedFacts
<1>10. i \in In({"ALL_PROTECTED", "BEGIN_PROTECTED"})
  BY <1>3 DEF In
<1> QED BY <1>1, <1>2, <1>8, <1>9, <1>10, ReduceStep

(* Nothing is left to give up: back to the caller.                          *)
LEMMA ReduceExhaustedStep ==
  ASSUME IInv, ReduceExhausted
  PROVE  IInv'
<1>1. /\ pc = "reduce" /\ red' = [red EXCEPT !.more = FALSE] /\ pc' = red.from
      /\ UNCHANGED <<mem, req, growing, full, emp, addr, why, calls>>
  BY DEF ReduceExhausted
<1>2. red \in Reduction
  BY DEF IInv, Scalars
<1>3. red' \in Reduction /\ red'.from = red.from
  BY <1>1, <1>2 DEF Reduction
<1>4. pc' \in {"create", "retry", "release"}
  BY <1>1, <1>2 DEF Reduction, IInv, LocalsAgree
<1>5. MemoryOK(slots, Indices, page)'
  BY <1>1 DEF mem, IInv, Indices
<1>6. Scalars'
  BY <1>1, <1>3, <1>4 DEF mem, IInv, Scalars, Indices, Labels
<1>7. (AtCreate' => AtCreate) /\ (AtRelease' => AtRelease)
  BY <1>1, <1>4 DEF AtCreate, AtRelease
<1>8. LocalsAgree'
  <2>1. In({"EMPTY"})' = In({"EMPTY"}) /\ In({"FREE", "IN_USE"})' = In({"FREE", "IN_USE"})
    BY <1>1 DEF mem, In, Indices
  <2> QED BY <1>1, <1>4, <1>7, <2>1 DEF IInv, LocalsAgree
<1>9. TableKept'
  BY <1>1, <1>4, <1>7 DEF mem, IInv, TableKept, Indices, TablePages
<1> QED BY <1>5, <1>6, <1>8, <1>9 DEF IInv

LEMMA LeaveStep ==
  ASSUME IInv, Leave
  PROVE  IInv'
<1>1. MemoryOK(slots, Indices, page)'
  BY TableAccess DEF Leave, IInv, Indices
<1>2. Scalars'
  <2>1. NoRequest \in Request /\ NoReduce \in Reduction /\ NULL \in Nat
    BY DEF NoRequest, Request, NoReduce, Reduction, NULL, AllocTypes
  <2> QED BY <2>1 DEF Leave, IInv, Scalars, Indices, Labels
<1>3. LocalsAgree'
  <2>1. ValidRequest(NoRequest)
    BY DEF NoRequest, ValidRequest
  <2> QED BY <2>1 DEF Leave, LocalsAgree, AtCreate, AtRelease
<1>4. TableKept'
  BY DEF Leave, IInv, TableKept, AtRelease, Indices, TablePages
<1> QED BY <1>1, <1>2, <1>3, <1>4 DEF IInv

-----------------------------------------------------------------------------
(* What _duma_init() leaves: the table and the free rest of the first chunk *)
(* own the pages that are mapped.                                           *)
LEMMA InitInv ==
  ASSUME Init
  PROVE  IInv
<1> DEFINE C == CreationPages
<1>1. /\ C \in Nat /\ C > 0 /\ PageSize \in Nat /\ PageSize > 1
      /\ NPages \in Nat /\ C + 2 <= NPages
      /\ SlotsPerPage \in Nat /\ SlotsPerPage >= 2
      /\ SIZE_MOD \in Nat /\ SlotsPerPage <= SIZE_MOD /\ MaxCalls \in Nat
  BY AddrAssumption, HeapAssumption
<1>2. /\ FirstTable \in Slot /\ Pages(FirstTable) = {3}
      /\ SlotOK(FirstTable)
  <2>1. FirstTable \in Slot
    <3>1. 3 * PageSize \in Nat
      BY <1>1
    <3> QED BY <1>1, <3>1 DEF FirstTable, Slot, SlotStates, AllocTypes
  <2>2. Pages(FirstTable) = {3}
    BY DEF FirstTable, Pages
  <2>3. PageOf(FirstTable.user) = 3
    BY PageOfStart DEF FirstTable
  <2>4. 3 <= NPages
    BY <1>1
  <2> QED BY <2>1, <2>2, <2>3, <2>4 DEF SlotOK, FirstTable
<1>3. ASSUME C > 1
      PROVE  FirstFree \in Slot /\ SlotOK(FirstFree) /\ Pages(FirstFree) = 4 .. C + 2
  <2>1. C - 1 \in Nat /\ 4 * PageSize \in Nat
    BY <1>1
  <2>2. (C - 1) * PageSize \in Nat
    BY <1>1, <2>1
  <2>3. FirstFree \in Slot
    BY <2>1, <2>2 DEF FirstFree, Slot, SlotStates, AllocTypes
  <2>4. Pages(FirstFree) = 4 .. C + 2
    BY <1>1 DEF FirstFree, Pages
  <2>5. SlotOK(FirstFree)
    BY <1>1, <1>3 DEF FirstFree, SlotOK
  <2> QED BY <2>3, <2>4, <2>5
<1>4. /\ Indices = 1 .. SlotsPerPage /\ 1 \in Indices /\ 2 \in Indices
      /\ slots = [i \in 1 .. SlotsPerPage |->
                    IF i = 1 THEN FirstTable
                    ELSE IF i = 2 /\ C > 1 THEN FirstFree ELSE EmptySlot]
  BY <1>1 DEF Init, Indices
<1>5. /\ slots[1] = FirstTable
      /\ C > 1 => slots[2] = FirstFree
      /\ \A i \in Indices : i # 1 /\ (i = 2 => C <= 1) => slots[i] = EmptySlot
  BY <1>1, <1>4
<1>6. slots \in [Indices -> Slot]
  BY <1>2, <1>3, <1>4, EmptySlotFacts
<1>7. \A i \in Indices : SlotOK(slots[i])
  BY <1>1, <1>2, <1>3, <1>5, EmptySlotFacts
<1>8. Disjoint(slots, Indices)
  <2> SUFFICES ASSUME NEW i \in Indices, NEW j \in Indices, i # j,
                      NEW p \in Pages(slots[i]), p \in Pages(slots[j])
               PROVE  FALSE
    BY DEF Disjoint
  <2>1. \A k \in Indices : \/ slots[k] = EmptySlot
                           \/ k = 1 /\ slots[k] = FirstTable
                           \/ k = 2 /\ C > 1 /\ slots[k] = FirstFree
    BY <1>1, <1>5
  <2>2. slots[i] # EmptySlot /\ slots[j] # EmptySlot
    BY EmptySlotFacts
  <2>3. \/ Pages(slots[i]) = {3} /\ Pages(slots[j]) = 4 .. C + 2
        \/ Pages(slots[j]) = {3} /\ Pages(slots[i]) = 4 .. C + 2
    BY <1>2, <1>3, <2>1, <2>2
  <2> QED BY <1>1, <2>3
<1>9. Owned(slots, Indices, page)
  <2> SUFFICES ASSUME NEW p \in 1 .. NPages
               PROVE  page[p] # "unmapped" <=> OwnedPage(slots, Indices, p)
    BY DEF Owned
  <2>1. page[p] # "unmapped" <=> p <= C + 2
    BY <1>1 DEF Init
  <2>2. (\E i \in Indices : p \in Pages(slots[i])) <=> p \in 3 .. C + 2
    <3>1. ASSUME p \in 3 .. C + 2
          PROVE  p \in Pages(slots[1]) \/ p \in Pages(slots[2])
      <4>1. CASE p = 3
        BY <1>2, <1>5, <4>1
      <4>2. CASE p # 3
        <5>1. C > 1 /\ p \in 4 .. C + 2
          BY <1>1, <3>1, <4>2
        <5> QED BY <1>3, <1>5, <5>1
      <4> QED BY <4>1, <4>2
    <3>2. ASSUME NEW i \in Indices, p \in Pages(slots[i])
          PROVE  p \in 3 .. C + 2
      <4>1. CASE i = 1
        BY <1>1, <1>2, <1>5, <3>2, <4>1
      <4>2. CASE i = 2 /\ C > 1
        BY <1>1, <1>3, <1>5, <3>2, <4>2
      <4>3. CASE i # 1 /\ (i = 2 => C <= 1)
        BY <1>5, <3>2, <4>3, EmptySlotFacts
      <4> QED BY <1>1, <4>1, <4>2, <4>3
    <3> QED BY <1>4, <3>1, <3>2
  <2> QED BY <1>1, <2>1, <2>2 DEF OwnedPage
<1>10. page \in PageMaps
  BY DEF Init, PageMaps
<1>11. Scalars
  <2>1. NoRequest \in Request /\ NoReduce \in Reduction /\ NULL \in Nat
    BY DEF NoRequest, Request, NoReduce, Reduction, NULL, AllocTypes
  <2>2. SlotsPerPage - 2 \in 0 .. SIZE_MOD - 1
    BY <1>1
  <2>3. 0 \in 0 .. MaxCalls
    BY <1>1
  <2>4. "idle" \in Labels /\ "running" \in Reasons
    BY DEF Labels, Reasons
  <2>5. /\ slotCount \in Nat /\ allocList \in Nat /\ listPages \in Nat
        /\ unUsedSlots \in 0 .. SIZE_MOD - 1
        /\ sumAllocatedMem \in Int /\ sumProtectedMem \in Int
        /\ calls \in 0 .. MaxCalls
    BY <1>1, <2>2, <2>3 DEF Init
  <2>6. pc \in Labels /\ why \in Reasons /\ req \in Request /\ growing \in BOOLEAN
        /\ full = 0 /\ emp = 0 /\ addr \in Nat /\ red \in Reduction
    BY <2>1, <2>4 DEF Init
  <2> QED BY <2>5, <2>6 DEF Scalars
<1>12. LocalsAgree
  <2>1. ValidRequest(NoRequest)
    BY DEF NoRequest, ValidRequest
  <2> QED BY <2>1 DEF Init, LocalsAgree, AtCreate, AtRelease
<1>13. TableKept
  <2>1. TablePages \subseteq Pages(slots[1])
    BY <1>2, <1>5 DEF Init, TablePages
  <2>2. FirstTable.state = "IN_USE" /\ FirstTable.alloc = "INTERNAL"
    BY DEF FirstTable
  <2> QED BY <1>4, <1>5, <2>1, <2>2 DEF Init, TableKept, AtRelease
<1> QED BY <1>6, <1>7, <1>8, <1>9, <1>10, <1>11, <1>12, <1>13 DEF IInv, MemoryOK

(* Every step of the allocator and of the program keeps the invariant.      *)
LEMMA NextInv ==
  ASSUME IInv, [Next]_vars
  PROVE  IInv'
<1>1. CASE CallAny
  BY <1>1, CallStep
<1>2. CASE Step
  BY <1>2, SearchFoundStep, SearchFailedStep, CreateStep, CarveStep, SwapStep,
     MoveStep, DeallocateStep, ReleaseStep, ReduceToBeginStep,
     ReduceToEmptyStep, ReduceExhaustedStep, LeaveStep DEF Step
<1>3. CASE UNCHANGED vars
  <2>1. MemoryOK(slots, Indices, page)'
    BY <1>3 DEF vars, mem, IInv, Indices
  <2>2. Scalars'
    BY <1>3 DEF vars, mem, ctl, IInv, Scalars, Indices
  <2>3. LocalsAgree'
    BY <1>3 DEF vars, mem, ctl, IInv, LocalsAgree, AtCreate, AtRelease, In,
                Indices, Current, TableRequest
  <2>4. TableKept'
    BY <1>3 DEF vars, mem, ctl, IInv, TableKept, AtRelease, Indices, TablePages
  <2> QED BY <2>1, <2>2, <2>3, <2>4 DEF IInv
<1> QED BY <1>1, <1>2, <1>3 DEF Next, Finished

LEMMA Inductive == Spec => []IInv
<1>1. Init => IInv
  BY InitInv
<1>2. IInv /\ [Next]_vars => IInv'
  BY NextInv
<1> QED BY <1>1, <1>2, PTL DEF Spec

(* The slots are well formed, the slot table is never released, and what    *)
(* _duma_allocate(), _duma_deallocate() and allocateMoreSlots() hold in     *)
(* local variables fits the table throughout their nested calls.            *)
THEOREM HeapInvariant == Spec => []HeapInv
BY Inductive, InvImplies, PTL

(* Every variable of the allocator keeps its type; unUsedSlots stays within *)
(* a size_t.                                                                *)
THEOREM TypeCorrect == Spec => []TypeOK
BY Inductive, InvImplies, PTL

(* No page ever belongs to two slots, whatever _duma_allocate() splits,     *)
(* reduceProtectedMemory() cuts and the system maps.                        *)
THEOREM BlocksDisjoint == Spec => []SlotsDisjoint
BY Inductive, InvImplies, PTL

(* The slot table never lists a page that DUMA has not mapped, and it loses *)
(* none on any path through allocation, release, reduction or failure,      *)
(* unless munmap() fails: what the system does not take back in             *)
(* Page_Delete() stays mapped though its slot is emptied.                   *)
THEOREM NoPageLeaks == Spec => []PagesOwned
BY Inductive, InvImplies, PTL

-----------------------------------------------------------------------------
(* The slot table and the block being released.                             *)

Internal(i) == slots[i].state = "IN_USE" /\ slots[i].alloc = "INTERNAL"

(* Slot i is the slot of the table the allocator uses.                      *)
HoldsTable(i) ==
  /\ Internal(i)
  /\ slots[i].user = allocList * PageSize
  /\ slots[i].usz = listPages * PageSize
  /\ TablePages \subseteq Pages(slots[i])

(* The address in the slot of a free block is in that block, if it has one. *)
FreeAddressed ==
  \A i \in Indices :
    slots[i].state = "FREE" =>
      slots[i].user = NULL \/ PageOf(slots[i].user) \in Pages(slots[i])

(* The block being released is the one the call named, also after the calls *)
(* of reduceProtectedMemory() in between.                                   *)
Released ==
  AtRelease => slots[full].user = addr /\ slots[full].alloc = Current.type

(* A second internal block in use exists only while allocateMoreSlots() is  *)
(* exchanging the table: first it is the new one, then the old one.         *)
OneTable ==
  \E i \in Indices :
    /\ HoldsTable(i)
    /\ pc = "swap" \/ AtRelease => i # full
    /\ pc = "dealloc" /\ growing => slots[i].user # addr
    /\ \A j \in Indices \ {i} :
         Internal(j) => /\ growing
                        /\ \/ pc = "stopped"
                           \/ (pc = "swap" \/ AtRelease) /\ j = full
                           \/ pc = "dealloc" /\ slots[j].user = addr

(* The block of the new table is what allocateMoreSlots() asked for.        *)
NewTable ==
  LET new == PageOf(slots[full].user) IN
  pc = "swap" =>
    /\ growing
    /\ slots[full].user = new * PageSize
    /\ slots[full].usz = (listPages + 1) * PageSize
    /\ \A p \in new .. new + listPages : page[p] = "rw"

(* The old table has an address that _duma_deallocate() releases.           *)
OldTable == pc = "dealloc" /\ growing => addr \notin {NULL, NullAddr}

OpenTable ==
  pc \notin {"idle", "stopped"} => \A p \in TablePages : page[p] = "rw"

TInv ==
  FreeAddressed /\ Released /\ OneTable /\ NewTable /\ OldTable /\ OpenTable

(* A page of the table is in no other slot, and is mapped.                  *)
LEMMA TableSlot ==
  ASSUME IInv, TInv
  PROVE  \E i \in Indices : HoldsTable(i) /\ TablePages \subseteq Pages(slots[i])
BY DEF TInv, OneTable, HoldsTable

(* Within a slot, the page of the user's address tells the slot.            *)
LEMMA SameUser ==
  ASSUME IInv, FreeAddressed, NEW i \in Indices, NEW j \in Indices,
         slots[i].user = slots[j].user, slots[i].user # NULL
  PROVE  i = j
<1>1. ASSUME NEW k \in Indices, slots[k].user # NULL
      PROVE  PageOf(slots[k].user) \in Pages(slots[k])
  <2>1. slots[k] \in Slot /\ SlotOK(slots[k])
    BY DEF IInv, MemoryOK
  <2>2. slots[k].state # "EMPTY"
    BY <1>1, <2>1 DEF SlotOK, EmptySlot, NULL
  <2> QED BY <1>1, <2>1, <2>2 DEF Slot, SlotStates, SlotOK, FreeAddressed
<1> QED BY <1>1 DEF IInv, MemoryOK, Disjoint

(* Steps that change no internal block in use and neither begin nor end the *)
(* exchange of the table.                                                   *)
LEMMA SameTables ==
  ASSUME TInv, UNCHANGED <<slotCount, allocList, listPages>>,
         \A i \in Indices : /\ Internal(i) => slots'[i] = slots[i]
                            /\ Internal(i)' => Internal(i),
         pc # "stopped",
         \/ growing => pc \notin {"swap", "dealloc"} /\ ~ AtRelease
         \/ /\ UNCHANGED <<growing, full, addr>> /\ AtRelease' = AtRelease
            /\ pc \notin {"swap", "dealloc"},
         AtRelease' => AtRelease /\ full' = full,
         pc' # "swap", pc' = "dealloc" => ~ growing'
  PROVE  OneTable' /\ NewTable' /\ OldTable'
<1>1. Indices' = Indices /\ TablePages' = TablePages
  BY DEF Indices, TablePages
<1>2. PICK i \in Indices :
        /\ HoldsTable(i)
        /\ AtRelease => i # full
        /\ \A j \in Indices \ {i} :
             Internal(j) => /\ growing
                            /\ \/ (pc = "swap" \/ AtRelease) /\ j = full
                               \/ pc = "dealloc" /\ slots[j].user = addr
  BY DEF TInv, OneTable
<1>3. HoldsTable(i)'
  BY <1>1, <1>2 DEF HoldsTable, Internal
<1>4. ASSUME NEW j \in Indices \ {i}, Internal(j)'
      PROVE  growing' /\ AtRelease' /\ j = full'
  BY <1>2, <1>4
<1>5. OneTable'
  BY <1>1, <1>2, <1>3, <1>4 DEF OneTable
<1> QED BY <1>5 DEF NewTable, OldTable

LEMMA StopTables ==
  ASSUME TInv, IInv, UNCHANGED <<mem, ctl>>, pc # "stopped", pc' = "stopped"
  PROVE  TInv'
<1>1. /\ Indices' = Indices /\ TablePages' = TablePages
      /\ UNCHANGED <<slots, slotCount, allocList, listPages, page, req, growing,
                     full, emp, addr, red>>
  BY DEF Indices, TablePages, mem, ctl
<1>2. FreeAddressed'
  BY <1>1 DEF TInv, FreeAddressed
<1>3. ~ AtRelease'
  BY DEF AtRelease
<1>4. OneTable'
  BY <1>1, <1>3 DEF TInv, OneTable, HoldsTable, Internal
<1> QED BY <1>2, <1>3, <1>4 DEF TInv, Released, NewTable, OldTable, OpenTable

(* A call opens the table, or closes it and leaves it alone.                *)
LEMMA CallTables ==
  ASSUME IInv, TInv, CallAny
  PROVE  TInv'
<1>1. ASSUME pc = "idle", UNCHANGED <<slots, slotCount, allocList, listPages>>,
             pc' \in {"idle", "leave", "search", "dealloc"},
             pc' = "dealloc" => ~ growing',
             pc' = "idle" \/ page' = Set(TablePages, "rw")
      PROVE  TInv'
  <2>1. Indices' = Indices /\ TablePages' = TablePages
    BY <1>1 DEF Indices, TablePages
  <2>2. ~ AtRelease /\ ~ AtRelease'
    BY <1>1 DEF AtRelease
  <2>3. OneTable' /\ NewTable' /\ OldTable'
    <3>1. \A i \in Indices : /\ Internal(i) => slots'[i] = slots[i]
                             /\ Internal(i)' => Internal(i)
      BY <1>1 DEF Internal
    <3> QED BY <1>1, <2>2, <3>1, SameTables
  <2>4. FreeAddressed'
    BY <1>1, <2>1 DEF TInv, FreeAddressed
  <2>5. OpenTable'
    <3>1. PICK i \in Indices : TablePages \subseteq Pages(slots[i])
      BY TableSlot
    <3>2. slots[i] \in Slot /\ SlotOK(slots[i])
      BY DEF IInv, MemoryOK
    <3>3. TablePages \subseteq 1 .. NPages
      BY <3>1, <3>2, SlotPages
    <3> QED BY <1>1, <2>1, <3>3 DEF OpenTable, Set
  <2> QED BY <2>2, <2>3, <2>4, <2>5 DEF TInv, Released
<1>2. ASSUME NEW reason, Stop(reason), pc = "idle"
      PROVE  TInv'
  BY <1>2, StopTables DEF Stop
<1>3. ASSUME NEW r, NEW opened \in BOOLEAN, pc = "idle", BeginAllocate(r, opened)
      PROVE  TInv'
  BY <1>1, <1>2, <1>3 DEF BeginAllocate
<1>4. ASSUME NEW a, NEW r, pc = "idle", BeginDeallocate(a, r)
      PROVE  TInv'
  BY <1>1, <1>4 DEF BeginDeallocate, IInv, LocalsAgree
<1>5. ASSUME Close, UnchangedButPage, UNCHANGED pc, pc = "idle"
      PROVE  TInv'
  BY <1>1, <1>5 DEF UnchangedButPage
<1>6. ASSUME UNCHANGED <<mem, pc>>, pc = "idle"
      PROVE  TInv'
  BY <1>1, <1>6 DEF mem
<1>7. ASSUME NEW n, NEW t, NEW b, Allocate(n, t, b)
      PROVE  TInv'
  BY <1>3, <1>7 DEF Allocate, NextCall
<1>8. ASSUME NEW a, NEW n, NEW b, Memalign(a, n, b)
      PROVE  TInv'
  BY <1>3, <1>8 DEF Memalign, NextCall
<1>14. ASSUME NEW a, NEW n, NEW b, PosixMemalign(a, n, b)
       PROVE  TInv'
  BY <1>6, <1>8, <1>14 DEF PosixMemalign, NextCall
<1>9. ASSUME NEW p, NEW n, NEW b, Realloc(p, n, b)
      PROVE  TInv'
  BY <1>3, <1>4, <1>9 DEF Realloc, NextCall
<1>10. ASSUME NEW p, NEW t, Free(p, t)
       PROVE  TInv'
  BY <1>4, <1>6, <1>10 DEF Free, NextCall
<1>11. ASSUME NEW p, Check(p)
       PROVE  TInv'
  BY <1>2, <1>5, <1>11 DEF Check
<1>12. ASSUME NEW p, MallocUsableSize(p)
       PROVE  TInv'
  BY <1>2, <1>5, <1>12 DEF MallocUsableSize
<1>13. ASSUME CheckAll PROVE TInv'
  BY <1>5, <1>13 DEF CheckAll
<1> QED BY <1>7, <1>8, <1>9, <1>10, <1>11, <1>12, <1>13, <1>14 DEF CallAny

(* Steps within a call that change neither the slots nor the access to any  *)
(* page, outside the exchange of the table.                                 *)
LEMMA ControlTables ==
  ASSUME IInv, TInv, pc \notin {"idle", "stopped", "swap", "dealloc"},
         UNCHANGED <<slots, slotCount, allocList, listPages, page>>,
         ~ AtRelease, ~ AtRelease',
         growing' \in {growing, FALSE}, pc' # "swap",
         pc' = "dealloc" => ~ growing'
  PROVE  TInv'
<1>1. Indices' = Indices /\ TablePages' = TablePages
  BY DEF Indices, TablePages
<1>2. OneTable' /\ NewTable' /\ OldTable'
  <2>1. \A i \in Indices : /\ Internal(i) => slots'[i] = slots[i]
                           /\ Internal(i)' => Internal(i)
    BY DEF Internal
  <2> QED BY <2>1, SameTables
<1>3. FreeAddressed' /\ OpenTable'
  BY <1>1 DEF TInv, FreeAddressed, OpenTable
<1> QED BY <1>2, <1>3 DEF TInv, Released

LEMMA SearchTables ==
  ASSUME IInv, TInv, SearchFound \/ SearchFailed
  PROVE  TInv'
<1>1. pc = "search"
  BY DEF SearchFound, SearchFailed
<1>2. CASE Stop("no empty slot")
  BY <1>1, <1>2, StopTables DEF Stop
<1>3. CASE /\ pc' \in {"carve", "create"} \/ (pc' = "reduce" /\ red'.from = "create")
           /\ UNCHANGED mem /\ UNCHANGED growing
  BY <1>1, <1>3, ControlTables DEF mem, AtRelease
<1>4. CASE SearchFound
  BY <1>3, <1>4 DEF SearchFound
<1>5. CASE SearchFailed
  <2>1. \/ Stop("no empty slot")
        \/ /\ \/ Reduce(KBOf(ChunkPages(Current)), "create")
              \/ pc' = "create" /\ red' = red
           /\ UNCHANGED <<mem, req, growing, addr, why>>
    BY <1>5 DEF SearchFailed
  <2>2. ASSUME NEW kB, Reduce(kB, "create"),
               UNCHANGED <<mem, req, growing, addr, why>>
        PROVE  TInv'
    BY <1>3, <2>2 DEF Reduce
  <2>3. CASE pc' = "create" /\ UNCHANGED <<mem, req, growing, addr, why>>
    BY <1>3, <2>3
  <2> QED BY <1>2, <2>1, <2>2, <2>3
<1> QED BY <1>4, <1>5

LEMMA CreateFailedTables ==
  ASSUME IInv, TInv, pc \in {"create", "retry", "last"}, NEW n,
         CreateFailed(n) \/ RetryFailed(n) \/ LastFailed(n)
  PROVE  TInv'
<1>1. CASE Stop("out of memory")
  BY <1>1, StopTables DEF Stop
<1>2. CASE /\ \/ pc' \in {"search", "leave", "last"}
              \/ pc' = "reduce" /\ red'.from = "retry"
           /\ UNCHANGED mem
           /\ growing' \in {growing, FALSE}
  BY <1>2, ControlTables DEF mem, AtRelease
<1>3. ASSUME NoMemory PROVE TInv'
  BY <1>2, <1>3 DEF NoMemory
<1>4. ASSUME NEW kB, Reduce(kB, "retry"),
             UNCHANGED <<mem, req, growing, full, emp, addr, why, calls>>
      PROVE  TInv'
  BY <1>2, <1>4 DEF Reduce
<1>5. ASSUME pc' = "last", UNCHANGED <<mem, ctl, why, calls>> PROVE TInv'
  BY <1>2, <1>5 DEF ctl
<1>6. CASE CreateFailed(n)
  BY <1>3, <1>4, <1>6 DEF CreateFailed
<1>7. CASE RetryFailed(n)
  BY <1>3, <1>4, <1>5, <1>7 DEF RetryFailed
<1>8. CASE LastFailed(n)
  BY <1>1, <1>3, <1>8 DEF LastFailed
<1> QED BY <1>6, <1>7, <1>8

LEMMA MoveTables ==
  ASSUME IInv, TInv, Move
  PROVE  TInv'
<1>1. pc = "move" /\ ~ growing
  BY DEF Move, IInv, LocalsAgree
<1>2. CASE Stop("unknown address") \/ Stop("segmentation fault")
  BY <1>1, <1>2, StopTables DEF Stop
<1>3. CASE pc' = "dealloc" /\ UNCHANGED <<mem, growing>>
  BY <1>1, <1>3, ControlTables DEF mem, AtRelease
<1> QED BY <1>2, <1>3 DEF Move

(* What Page_Create() changes: one slot, and pages that were not mapped.    *)
LEMMA CreatedEffect ==
  ASSUME IInv, pc \in {"create", "retry", "last"}, Created
  PROVE  /\ full \in Indices /\ slots[full].state = "EMPTY"
         /\ slots'[full].state = "FREE" /\ slots'[full].user = NULL
         /\ \A i \in Indices \ {full} : slots'[i] = slots[i]
         /\ \A p \in 1 .. NPages : page[p] # "unmapped" => page'[p] = page[p]
         /\ \A p \in 1 .. NPages : page'[p] = page[p] \/ p \in Pages(slots'[full])
         /\ pc' = "carve" /\ Indices' = Indices
         /\ UNCHANGED <<slotCount, allocList, listPages, growing, full, addr>>
         /\ UNCHANGED <<req, sumProtectedMem>>
<1>1. /\ full \in Indices /\ slots[full] = EmptySlot
      /\ slots \in [Indices -> Slot]
  BY DEF IInv, LocalsAgree, AtCreate, In, MemoryOK, SlotOK
<1>2. PICK b \in MapAt :
        /\ CanMap(b, ChunkPages(Current))
        /\ page' = Set(b .. b + ChunkPages(Current) - 1, "rw")
        /\ slots' = [slots EXCEPT ![full] =
                       [@ EXCEPT !.state = "FREE", !.base = b,
                                 !.len = ChunkPages(Current)]]
  BY DEF Created
<1>3. /\ pc' = "carve"
      /\ UNCHANGED <<slotCount, allocList, listPages, ctl, sumProtectedMem>>
  BY DEF Created
<1>4. slots'[full] = [EmptySlot EXCEPT !.state = "FREE", !.base = b,
                                       !.len = ChunkPages(Current)]
  BY <1>1, <1>2
<1>5. slots'[full].state = "FREE" /\ slots'[full].user = NULL
  BY <1>4 DEF EmptySlot, NULL
<1>6. \A p \in 1 .. NPages : page[p] # "unmapped" => page'[p] = page[p]
  BY <1>2 DEF Set, CanMap
<1>7. \A i \in Indices \ {full} : slots'[i] = slots[i]
  BY <1>1, <1>2
<1>8. slots[full].state = "EMPTY"
  BY <1>1 DEF EmptySlot
<1>9. \A p \in 1 .. NPages : page'[p] = page[p] \/ p \in Pages(slots'[full])
  <2>1. slots'[full].base = b /\ slots'[full].len = ChunkPages(Current)
    BY <1>4 DEF EmptySlot
  <2> QED BY <1>2, <2>1 DEF Set, Pages
<1> QED BY <1>1, <1>3, <1>5, <1>6, <1>7, <1>8, <1>9 DEF ctl, Indices

LEMMA CreatedTables ==
  ASSUME IInv, TInv, pc \in {"create", "retry", "last"}, Created
  PROVE  TInv'
<1>1. /\ full \in Indices /\ slots[full].state = "EMPTY"
      /\ slots'[full].state = "FREE" /\ slots'[full].user = NULL
      /\ \A i \in Indices \ {full} : slots'[i] = slots[i]
      /\ \A p \in 1 .. NPages : page[p] # "unmapped" => page'[p] = page[p]
      /\ pc' = "carve" /\ Indices' = Indices
      /\ UNCHANGED <<slotCount, allocList, listPages, growing, full, addr>>
  BY CreatedEffect
<1>2. ~ AtRelease /\ ~ AtRelease'
  BY <1>1 DEF AtRelease
<1>3. OneTable' /\ NewTable' /\ OldTable'
  <2>1. \A i \in Indices : /\ Internal(i) => slots'[i] = slots[i]
                           /\ Internal(i)' => Internal(i)
    BY <1>1 DEF Internal
  <2> QED BY <1>1, <1>2, <2>1, SameTables
<1>4. FreeAddressed'
  BY <1>1 DEF TInv, FreeAddressed
<1>5. OpenTable'
  <2>1. PICK i \in Indices : TablePages \subseteq Pages(slots[i])
    BY TableSlot
  <2>2. slots[i] \in Slot /\ SlotOK(slots[i])
    BY DEF IInv, MemoryOK
  <2>3. TablePages \subseteq 1 .. NPages
    BY <2>1, <2>2, SlotPages
  <2>4. \A p \in TablePages : page[p] = "rw"
    BY DEF TInv, OpenTable
  <2>5. TablePages' = TablePages
    BY <1>1 DEF TablePages
  <2> QED BY <1>1, <2>3, <2>4, <2>5 DEF OpenTable
<1> QED BY <1>2, <1>3, <1>4, <1>5 DEF TInv, Released

(* What one round of reduceProtectedMemory() changes: one protected slot    *)
(* and pages of it that it gives up.                                        *)
LEMMA ReduceEffect ==
  ASSUME IInv, ReduceToBegin \/ ReduceToEmpty
  PROVE  \E i \in In({"ALL_PROTECTED", "BEGIN_PROTECTED"}) :
           /\ slots'[i].state \in {"BEGIN_PROTECTED", "EMPTY"}
           /\ \A j \in Indices \ {i} : slots'[j] = slots[j]
           /\ \A p \in 1 .. NPages :
                \/ page'[p] = page[p]
                \/ p \in Pages(slots[i]) /\ p \notin Pages(slots'[i])
           /\ \A p \in Pages(slots[i]) :
                p \in Pages(slots'[i]) \/ page'[p] # "rw"
           /\ Pages(slots'[i]) \subseteq Pages(slots[i])
           /\ slots'[i].state = "BEGIN_PROTECTED" =>
                /\ slots'[i].user = slots[i].user
                /\ slots'[i].alloc = slots[i].alloc
           /\ pc = "reduce" /\ pc' \in {"reduce", red.from}
           /\ red'.from = red.from /\ Indices' = Indices
           /\ UNCHANGED <<slotCount, allocList, listPages, growing, full, addr, req>>
<1>1. /\ pc = "reduce" /\ Indices' = Indices
      /\ UNCHANGED <<slotCount, allocList, listPages, growing, full, addr, req>>
  BY DEF ReduceToBegin, ReduceToEmpty, Indices
<1>2. ASSUME NEW kB, Reduced(kB)
      PROVE  pc' \in {"reduce", red.from} /\ red'.from = red.from
  <2>1. red \in Reduction
    BY DEF IInv, Scalars
  <2> QED BY <1>1, <1>2, <2>1 DEF Reduced, Reduction
<1>3. CASE ReduceToBegin
  <2>1. PICK i \in Indices :
          /\ IsFirst(i, In({"ALL_PROTECTED"}))
          /\ Page_Delete(CutPages(slots[i]))
          /\ slots' = [slots EXCEPT ![i] =
                         [@ EXCEPT !.state = "BEGIN_PROTECTED",
                                   !.len = KeptLen(slots[i])]]
          /\ Reduced(CutKB(slots[i]))
    BY <1>3 DEF ReduceToBegin
  <2> DEFINE s == slots[i]
             t == [s EXCEPT !.state = "BEGIN_PROTECTED", !.len = KeptLen(s)]
  <2>2. /\ s.state = "ALL_PROTECTED" /\ s \in Slot /\ SlotOK(s)
        /\ slots \in [Indices -> Slot]
    BY <2>1 DEF IsFirst, In, IInv, MemoryOK
  <2>3. slots'[i] = t /\ \A j \in Indices \ {i} : slots'[j] = slots[j]
    BY <2>1, <2>2
  <2>4. t.state = "BEGIN_PROTECTED" /\ t.user = s.user /\ t.base = s.base
        /\ t.len = KeptLen(s) /\ t.alloc = s.alloc
    BY <2>2 DEF Slot
  <2>5. /\ KeptLen(s) \in Nat /\ KeptLen(s) <= s.len
        /\ s.base \in Nat /\ s.len \in Nat
    BY <2>2 DEF KeptLen, Slot, SlotOK, Pages
  <2> HIDE DEF t, s
  <2>6. /\ Pages(t) = s.base .. s.base + KeptLen(s) - 1
        /\ Pages(s) = s.base .. s.base + s.len - 1
        /\ CutPages(s) = s.base + KeptLen(s) .. s.base + s.len - 1
    BY <2>4 DEF Pages, CutPages
  <2>7. /\ Pages(t) \subseteq Pages(s)
        /\ \A p \in CutPages(s) : p \in Pages(s) /\ p \notin Pages(t)
        /\ \A p \in Pages(s) : p \in Pages(t) \/ p \in CutPages(s)
    BY <2>5, <2>6
  <2>8. \A p \in 1 .. NPages :
          page'[p] = page[p] \/ (p \in Pages(s) /\ p \notin Pages(t))
    BY <2>1, <2>7, DeletedPages DEF IInv, MemoryOK, s
  <2>9. i \in In({"ALL_PROTECTED", "BEGIN_PROTECTED"})
    BY <2>2 DEF In, s
  <2>10. \A p \in Pages(s) : p \in Pages(t) \/ page'[p] # "rw"
    <3>1. \A p \in Pages(s) : p \in 1 .. NPages
      BY <2>2, SlotPages DEF s
    <3> QED BY <2>1, <2>7, <3>1, DeletedPages DEF IInv, MemoryOK, s
  <2> QED BY <1>1, <1>2, <2>1, <2>3, <2>4, <2>7, <2>8, <2>9, <2>10 DEF s
<1>4. CASE ReduceToEmpty
  <2>1. PICK i \in Indices :
          /\ IsFirst(i, In({"BEGIN_PROTECTED"}))
          /\ Page_Delete(Pages(slots[i]))
          /\ slots' = [slots EXCEPT ![i] = EmptySlot]
          /\ Reduced(KBOf(slots[i].len))
    BY <1>4 DEF ReduceToEmpty
  <2>2. slots'[i] = EmptySlot /\ \A j \in Indices \ {i} : slots'[j] = slots[j]
    BY <2>1 DEF IInv, MemoryOK
  <2>3. Pages(slots'[i]) = {} /\ slots'[i].state = "EMPTY"
    BY <2>2, EmptySlotFacts DEF EmptySlot
  <2>4. i \in In({"ALL_PROTECTED", "BEGIN_PROTECTED"})
    BY <2>1 DEF IsFirst, In
  <2>5. \A p \in 1 .. NPages : page'[p] = page[p] \/ p \in Pages(slots[i])
    BY <2>1, DeletedPages DEF IInv, MemoryOK
  <2>6. \A p \in Pages(slots[i]) : page'[p] # "rw"
    <3>1. \A p \in Pages(slots[i]) : p \in 1 .. NPages
      BY SlotPages DEF IInv, MemoryOK
    <3> QED BY <2>1, <3>1, DeletedPages DEF IInv, MemoryOK
  <2> QED BY <1>1, <1>2, <2>1, <2>2, <2>3, <2>4, <2>5, <2>6
<1> QED BY <1>3, <1>4

(* Pages outside the block of the table do not matter to it.                *)
LEMMA TableStaysOpen ==
  ASSUME IInv, NEW i \in Indices, TablePages \subseteq Pages(slots[i]),
         NEW j \in Indices, j # i,
         \A p \in TablePages : page[p] = "rw",
         \A p \in 1 .. NPages : page'[p] = page[p] \/ p \in Pages(slots[j]),
         UNCHANGED <<allocList, listPages>>
  PROVE  OpenTable'
<1>1. TablePages' = TablePages
  BY DEF TablePages
<1>2. slots[i] \in Slot /\ SlotOK(slots[i])
  BY DEF IInv, MemoryOK
<1>3. \A p \in TablePages : p \in 1 .. NPages /\ p \notin Pages(slots[j])
  BY <1>2, SlotPages DEF IInv, MemoryOK, Disjoint
<1> QED BY <1>1, <1>3 DEF OpenTable

LEMMA ReduceTables ==
  ASSUME IInv, TInv, ReduceToBegin \/ ReduceToEmpty
  PROVE  TInv'
<1>1. PICK k \in In({"ALL_PROTECTED", "BEGIN_PROTECTED"}) :
        /\ slots'[k].state \in {"BEGIN_PROTECTED", "EMPTY"}
        /\ \A j \in Indices \ {k} : slots'[j] = slots[j]
        /\ \A p \in 1 .. NPages : page'[p] = page[p] \/ p \in Pages(slots[k])
        /\ pc = "reduce" /\ pc' \in {"reduce", red.from}
        /\ red'.from = red.from /\ Indices' = Indices
        /\ UNCHANGED <<slotCount, allocList, listPages, growing, full, addr, req>>
  BY ReduceEffect
<1>2. k \in Indices /\ slots[k].state \in {"ALL_PROTECTED", "BEGIN_PROTECTED"}
  BY DEF In
<1>3. red.from \in {"create", "retry", "release"}
  BY <1>1 DEF IInv, LocalsAgree, Scalars, Reduction
<1>4. AtRelease' = AtRelease
  BY <1>1, <1>3 DEF AtRelease
<1>5. OneTable' /\ NewTable' /\ OldTable'
  <2>1. \A i \in Indices : /\ Internal(i) => slots'[i] = slots[i]
                           /\ Internal(i)' => Internal(i)
    BY <1>1, <1>2 DEF Internal
  <2> QED BY <1>1, <1>3, <1>4, <2>1, SameTables
<1>6. FreeAddressed'
  BY <1>1, <1>2 DEF TInv, FreeAddressed
<1>7. OpenTable'
  <2>1. PICK i \in Indices : HoldsTable(i) /\ TablePages \subseteq Pages(slots[i])
    BY TableSlot
  <2>2. i # k
    BY <1>2, <2>1 DEF HoldsTable, Internal
  <2>3. \A p \in TablePages : page[p] = "rw"
    BY <1>1 DEF TInv, OpenTable
  <2> QED BY <1>1, <1>2, <2>1, <2>2, <2>3, TableStaysOpen
<1>8. Released'
  <2> SUFFICES ASSUME AtRelease' PROVE Released'
    BY DEF Released
  <2>1. /\ full \in Indices /\ slots[full].state \in {"FREE", "IN_USE"}
        /\ slots[full].user = addr /\ slots[full].alloc = Current.type
    BY <1>4 DEF TInv, Released, IInv, LocalsAgree, In
  <2>2. slots'[full] = slots[full]
    BY <1>1, <1>2, <2>1
  <2>3. Current' = Current
    BY <1>1 DEF Current, TableRequest
  <2> QED BY <1>1, <2>1, <2>2, <2>3 DEF Released
<1> QED BY <1>5, <1>6, <1>7, <1>8 DEF TInv

LEMMA ReduceExhaustedTables ==
  ASSUME IInv, TInv, ReduceExhausted
  PROVE  TInv'
<1>1. /\ pc = "reduce" /\ red' = [red EXCEPT !.more = FALSE] /\ pc' = red.from
      /\ UNCHANGED <<slots, slotCount, allocList, listPages, page, req, growing,
                     full, emp, addr>>
  BY DEF ReduceExhausted, mem
<1>2. red \in Reduction /\ red.from \in {"create", "retry", "release"}
  BY <1>1 DEF IInv, Scalars, LocalsAgree, Reduction
<1>3. red'.from = red.from
  BY <1>1, <1>2 DEF Reduction
<1>4. AtRelease' = AtRelease
  BY <1>1, <1>2, <1>3 DEF AtRelease
<1>5. Indices' = Indices /\ TablePages' = TablePages /\ Current' = Current
  BY <1>1 DEF Indices, TablePages, Current, TableRequest
<1>6. OneTable' /\ NewTable' /\ OldTable'
  <2>1. \A i \in Indices : /\ Internal(i) => slots'[i] = slots[i]
                           /\ Internal(i)' => Internal(i)
    BY <1>1 DEF Internal
  <2> QED BY <1>1, <1>2, <1>4, <2>1, SameTables
<1>7. FreeAddressed' /\ OpenTable' /\ Released'
  BY <1>1, <1>4, <1>5 DEF TInv, FreeAddressed, OpenTable, Released
<1> QED BY <1>6, <1>7 DEF TInv

LEMMA LeaveTables ==
  ASSUME IInv, TInv, Leave
  PROVE  TInv'
<1>1. /\ pc = "leave" /\ pc' = "idle" /\ growing' = FALSE
      /\ UNCHANGED <<slots, slotCount, allocList, listPages>>
  BY DEF Leave
<1>2. ~ AtRelease /\ ~ AtRelease'
  BY <1>1 DEF AtRelease
<1>3. OneTable' /\ NewTable' /\ OldTable'
  <2>1. \A i \in Indices : /\ Internal(i) => slots'[i] = slots[i]
                           /\ Internal(i)' => Internal(i)
    BY <1>1 DEF Internal
  <2> QED BY <1>1, <1>2, <2>1, SameTables
<1>4. FreeAddressed'
  BY <1>1 DEF TInv, FreeAddressed, Indices
<1> QED BY <1>1, <1>2, <1>3, <1>4 DEF TInv, Released, OpenTable

(* _duma_deallocate() finds the block that was named: the old table, while  *)
(* the table is being exchanged.                                            *)
LEMMA DeallocateTables ==
  ASSUME IInv, TInv, Deallocate
  PROVE  TInv'
<1>1. pc = "dealloc" /\ ~ AtRelease
  BY DEF Deallocate, AtRelease
<1>2. CASE Stop("unknown address") \/ Stop("already freed") \/ Stop("free mismatch")
  BY <1>1, <1>2, StopTables DEF Stop
<1>3. CASE addr \in {NULL, NullAddr} /\ pc' = "leave" /\ UNCHANGED <<mem, ctl, why>>
  <2>1. ~ growing
    BY <1>1, <1>3 DEF TInv, OldTable
  <2>2. ~ AtRelease'
    BY <1>3 DEF AtRelease
  <2>3. /\ UNCHANGED <<slots, slotCount, allocList, listPages, page, growing,
                       full, addr>>
        /\ Indices' = Indices /\ TablePages' = TablePages
    BY <1>3 DEF mem, ctl, Indices, TablePages
  <2>4. OneTable' /\ NewTable' /\ OldTable'
    <3>1. \A i \in Indices : /\ Internal(i) => slots'[i] = slots[i]
                             /\ Internal(i)' => Internal(i)
      BY <2>3 DEF Internal
    <3> QED BY <1>1, <1>3, <2>1, <2>2, <2>3, <3>1, SameTables
  <2>5. FreeAddressed' /\ OpenTable'
    BY <1>1, <1>3, <2>3 DEF TInv, FreeAddressed, OpenTable
  <2> QED BY <2>2, <2>4, <2>5 DEF TInv, Released
<1>4. ASSUME NEW i \in Indices, addr \notin {NULL, NullAddr},
             slots[i].user = addr, ~ Mismatch(slots[i]), full' = i,
             \/ Reduce(KBOf(slots[i].len), "release")
             \/ pc' = "release" /\ red' = red,
             UNCHANGED <<mem, req, growing, emp, addr, why>>
      PROVE  TInv'
  <2>1. AtRelease' /\ pc' \in {"release", "reduce"}
    BY <1>4 DEF AtRelease, Reduce
  <2>2. /\ UNCHANGED <<slots, slotCount, allocList, listPages, page>>
        /\ Indices' = Indices /\ TablePages' = TablePages /\ Current' = Current
    BY <1>4 DEF mem, Indices, TablePages, Current, TableRequest
  <2>3. Released'
    BY <1>4, <2>2 DEF Released, Mismatch
  <2>4. OneTable'
    <3>1. PICK k \in Indices :
            /\ HoldsTable(k)
            /\ growing => slots[k].user # addr
            /\ \A j \in Indices \ {k} :
                 Internal(j) => growing /\ slots[j].user = addr
      BY <1>1 DEF TInv, OneTable, AtRelease
    <3>2. k # i
      <4>1. CASE growing
        BY <1>4, <3>1, <4>1
      <4>2. CASE ~ growing
        <5>1. slots[i].alloc = req.type /\ req.type # "INTERNAL"
          BY <1>1, <1>4, <4>2 DEF Mismatch, Current, IInv, LocalsAgree
        <5> QED BY <3>1, <5>1 DEF HoldsTable, Internal
      <4> QED BY <4>1, <4>2
    <3>3. ASSUME NEW j \in Indices \ {k}, Internal(j)
          PROVE  growing /\ j = i
      BY <1>4, <3>1, <3>3, SameUser DEF TInv
    <3>4. HoldsTable(k)' /\ \A j \in Indices : Internal(j)' = Internal(j)
      BY <2>2, <3>1 DEF HoldsTable, Internal
    <3> QED BY <1>4, <2>1, <2>2, <3>2, <3>3, <3>4 DEF OneTable
  <2>5. FreeAddressed' /\ OpenTable'
    BY <1>1, <2>1, <2>2 DEF TInv, FreeAddressed, OpenTable
  <2> QED BY <2>1, <2>3, <2>4, <2>5 DEF TInv, NewTable, OldTable
<1>5. ASSUME NEW i \in Indices, addr \notin {NULL, NullAddr},
             SlotForUserAddress(i, addr), ~ Mismatch(slots[i]), full' = i,
             IF MustReduce(KBOf(slots[i].len))
               THEN Reduce(KBOf(slots[i].len), "release")
               ELSE pc' = "release" /\ red' = red,
             UNCHANGED <<mem, req, growing, emp, addr, why>>
      PROVE  TInv'
  BY <1>4, <1>5 DEF SlotForUserAddress, IsFirst
<1> QED BY <1>2, <1>3, <1>5 DEF Deallocate

(* What the end of _duma_deallocate() changes: the block being released.    *)
LEMMA ReleaseEffect ==
  ASSUME IInv, Release
  PROVE  /\ full \in Indices /\ slots[full].state \in {"FREE", "IN_USE"}
         /\ \A i \in Indices \ {full} : slots'[i] = slots[i]
         /\ \A p \in 1 .. NPages : page'[p] = page[p] \/ p \in Pages(slots[full])
         /\ \/ /\ slots'[full].state = "EMPTY" /\ Pages(slots'[full]) = {}
               /\ \A p \in Pages(slots[full]) : page'[p] # "rw"
            \/ /\ slots[full].alloc # "INTERNAL"
               /\ slots'[full] = [slots[full] EXCEPT !.state = "ALL_PROTECTED"]
               /\ \A p \in Pages(slots[full]) : page'[p] = "none"
         /\ pc = "release" /\ pc' = AfterDeallocate /\ growing' = FALSE
         /\ Indices' = Indices
         /\ UNCHANGED <<slotCount, allocList, listPages, full, addr, req>>
<1>1. /\ pc = "release" /\ pc' = AfterDeallocate /\ growing' = FALSE
      /\ Indices' = Indices
      /\ UNCHANGED <<slotCount, allocList, listPages, full, addr, req>>
  BY DEF Release, Indices
<1>2. /\ full \in Indices /\ slots[full].state \in {"FREE", "IN_USE"}
      /\ slots \in [Indices -> Slot] /\ slots[full] \in Slot /\ SlotOK(slots[full])
  BY <1>1 DEF IInv, LocalsAgree, AtRelease, In, MemoryOK
<1>3. \A p \in Pages(slots[full]) : p \in 1 .. NPages
  BY <1>2, SlotPages
<1>4. CASE /\ MayProtect(slots[full])
           /\ slots' = [slots EXCEPT ![full].state = "ALL_PROTECTED"]
           /\ page' = Set(Pages(slots[full]), "none")
  <2>1. slots[full].alloc # "INTERNAL"
    BY <1>4 DEF MayProtect
  <2>2. /\ slots'[full] = [slots[full] EXCEPT !.state = "ALL_PROTECTED"]
        /\ \A i \in Indices \ {full} : slots'[i] = slots[i]
    BY <1>2, <1>4
  <2>3. /\ \A p \in 1 .. NPages : page'[p] = page[p] \/ p \in Pages(slots[full])
        /\ \A p \in Pages(slots[full]) : page'[p] = "none"
    BY <1>3, <1>4 DEF Set
  <2> QED BY <1>1, <1>2, <2>1, <2>2, <2>3
<1>5. CASE /\ slots' = [slots EXCEPT ![full] = EmptySlot]
           /\ Page_Delete(Pages(slots[full]))
  <2>1. slots'[full] = EmptySlot /\ \A i \in Indices \ {full} : slots'[i] = slots[i]
    BY <1>2, <1>5
  <2>2. slots'[full].state = "EMPTY" /\ Pages(slots'[full]) = {}
    BY <2>1, EmptySlotFacts DEF EmptySlot
  <2>3. /\ \A p \in 1 .. NPages : page'[p] = page[p] \/ p \in Pages(slots[full])
        /\ \A p \in Pages(slots[full]) : page'[p] # "rw"
    BY <1>3, <1>5, DeletedPages DEF IInv, MemoryOK
  <2> QED BY <1>1, <1>2, <2>1, <2>2, <2>3
<1> QED BY <1>4, <1>5 DEF Release

LEMMA ReleaseTables ==
  ASSUME IInv, TInv, Release
  PROVE  TInv'
<1>1. /\ full \in Indices
      /\ \A i \in Indices \ {full} : slots'[i] = slots[i]
      /\ \A p \in 1 .. NPages : page'[p] = page[p] \/ p \in Pages(slots[full])
      /\ slots'[full].state \in {"EMPTY", "ALL_PROTECTED"}
      /\ pc = "release" /\ pc' \in {"search", "leave"} /\ growing' = FALSE
      /\ Indices' = Indices
      /\ UNCHANGED <<slotCount, allocList, listPages, full, addr, req>>
  <2>1. /\ full \in Indices
        /\ \A i \in Indices \ {full} : slots'[i] = slots[i]
        /\ \A p \in 1 .. NPages : page'[p] = page[p] \/ p \in Pages(slots[full])
        /\ \/ slots'[full].state = "EMPTY"
           \/ slots'[full] = [slots[full] EXCEPT !.state = "ALL_PROTECTED"]
        /\ pc = "release" /\ pc' = AfterDeallocate /\ growing' = FALSE
        /\ Indices' = Indices
        /\ UNCHANGED <<slotCount, allocList, listPages, full, addr, req>>
    BY ReleaseEffect
  <2>2. slots[full] \in Slot
    BY <2>1 DEF IInv, MemoryOK
  <2>3. slots'[full].state \in {"EMPTY", "ALL_PROTECTED"}
    BY <2>1, <2>2 DEF Slot
  <2> QED BY <2>1, <2>3 DEF AfterDeallocate
<1>2. AtRelease /\ ~ AtRelease'
  BY <1>1 DEF AtRelease
<1>3. PICK i \in Indices :
        /\ HoldsTable(i) /\ i # full
        /\ \A j \in Indices \ {i} : Internal(j) => j = full
  BY <1>1, <1>2 DEF TInv, OneTable
<1>4. OneTable'
  <2>1. HoldsTable(i)'
    BY <1>1, <1>3 DEF HoldsTable, Internal, TablePages
  <2>2. \A j \in Indices \ {i} : ~ Internal(j)'
    BY <1>1, <1>3 DEF Internal
  <2> QED BY <1>1, <1>2, <2>1, <2>2 DEF OneTable
<1>5. FreeAddressed'
  BY <1>1 DEF TInv, FreeAddressed
<1>6. OpenTable'
  <2>1. \A p \in TablePages : page[p] = "rw"
    BY <1>1 DEF TInv, OpenTable
  <2> QED BY <1>1, <1>3, <2>1, TableStaysOpen DEF HoldsTable
<1> QED BY <1>1, <1>2, <1>4, <1>5, <1>6 DEF TInv, Released, NewTable, OldTable

(* allocateMoreSlots() exchanges the table.                                 *)
LEMMA SwapTables ==
  ASSUME IInv, TInv, Swap
  PROVE  TInv'
<1> DEFINE new == PageOf(slots[full].user)
<1>1. /\ pc = "swap" /\ pc' = "dealloc"
      /\ slotCount' = slotCount + SlotsPerPage
      /\ slots' = [i \in 1 .. slotCount + SlotsPerPage |->
                     IF i \in Indices THEN slots[i] ELSE EmptySlot]
      /\ allocList' = new /\ listPages' = listPages + 1
      /\ addr' = allocList * PageSize
      /\ UNCHANGED <<page, req, growing, full>>
  BY DEF Swap
<1>2. /\ slotCount \in Nat /\ SlotsPerPage \in Nat /\ listPages \in Nat
      /\ listPages > 0 /\ allocList \in Nat
  BY HeapAssumption DEF IInv, Scalars, TableKept
<1>3. /\ growing /\ slots[full].user = new * PageSize
      /\ slots[full].usz = (listPages + 1) * PageSize
      /\ \A p \in new .. new + listPages : page[p] = "rw"
  BY <1>1 DEF TInv, NewTable
<1>4. /\ full \in Indices /\ Internal(full)
      /\ slots[full] \in Slot /\ SlotOK(slots[full])
      /\ new .. new + listPages \subseteq Pages(slots[full])
  BY <1>1 DEF IInv, LocalsAgree, TableKept, MemoryOK, Internal
<1>5. new \in Nat /\ new \in Pages(slots[full])
  BY <1>4 DEF SlotOK, Pages, Slot, Internal
<1>6. /\ Indices' = 1 .. slotCount + SlotsPerPage /\ Indices \subseteq Indices'
      /\ \A i \in Indices : slots'[i] = slots[i]
      /\ \A i \in Indices' \ Indices : slots'[i] = EmptySlot
  BY <1>1, <1>2 DEF Indices
<1> HIDE DEF new
<1>7. TablePages' = new .. new + listPages
  <2>1. new + (listPages + 1) - 1 = new + listPages
    BY <1>2, <1>5
  <2> QED BY <1>1, <2>1 DEF TablePages
<1>8. PICK i \in Indices :
        /\ HoldsTable(i) /\ i # full
        /\ \A j \in Indices \ {i} : Internal(j) => j = full
  BY <1>1 DEF TInv, OneTable
<1>9. allocList \in Pages(slots[i]) /\ addr' = slots[i].user
  BY <1>1, <1>2, <1>8 DEF HoldsTable, TablePages
<1>10. PageOf(allocList * PageSize) = allocList
  BY <1>2, PageOfStart
<1>11. slots[full].user # addr'
  <2>1. PageOf(slots[full].user) \in Pages(slots[full])
    BY <1>5 DEF new
  <2>2. allocList \notin Pages(slots[full])
    BY <1>4, <1>8, <1>9 DEF IInv, MemoryOK, Disjoint
  <2> QED BY <1>1, <1>10, <2>1, <2>2
<1>12. addr' \notin {NULL, NullAddr}
  <2>1. slots[i] \in Slot /\ SlotOK(slots[i])
    BY DEF IInv, MemoryOK
  <2>2. allocList > 2
    BY <1>9, <2>1, SlotPages
  <2>3. PageOf(NullAddr) = 2 /\ PageOf(NULL) = 0
    <3>1. PageOf(2 * PageSize) = 2 /\ PageOf(0 * PageSize) = 0
      BY PageOfStart
    <3>2. 0 * PageSize = 0
      BY AddrAssumption
    <3> QED BY <3>1, <3>2 DEF NullAddr, NULL
  <2> QED BY <1>1, <1>2, <1>10, <2>2, <2>3
<1>13. HoldsTable(full)'
  BY <1>1, <1>3, <1>4, <1>6, <1>7 DEF HoldsTable, Internal
<1>14. ASSUME NEW j \in Indices' \ {full}, Internal(j)'
       PROVE  growing' /\ slots'[j].user = addr'
  <2>1. j \in Indices
    BY <1>6, <1>14 DEF Internal, EmptySlot
  <2>2. Internal(j)
    BY <1>6, <1>14, <2>1 DEF Internal
  <2>3. j = i
    BY <1>8, <1>14, <2>1, <2>2
  <2> QED BY <1>1, <1>3, <1>6, <1>9, <2>1, <2>3
<1>15. ~ AtRelease'
  BY <1>1 DEF AtRelease
<1>16. OneTable'
  BY <1>1, <1>4, <1>6, <1>11, <1>13, <1>14, <1>15 DEF OneTable
<1>17. FreeAddressed'
  BY <1>6 DEF TInv, FreeAddressed, EmptySlot
<1>18. OpenTable'
  BY <1>1, <1>3, <1>7 DEF OpenTable
<1> QED BY <1>1, <1>12, <1>15, <1>16, <1>17, <1>18
        DEF TInv, Released, NewTable, OldTable

(* What giving out a block changes: its slot, the slot of the rest, and the *)
(* access to the live and the dead pages.                                   *)
LEMMA CarveEffect ==
  ASSUME IInv, Carve, pc' # "stopped"
  PROVE  /\ full \in Indices /\ slots[full].state = "FREE"
         /\ slots[full].base \in Nat /\ ValidRequest(Current)
         /\ slots'[full] = UsedSlot(Current, slots[full].base)
         /\ Pages(slots'[full]) = slots[full].base ..
                                  slots[full].base + InternalPages(Current) - 1
         /\ Pages(slots'[full]) \subseteq Pages(slots[full])
         /\ \A p \in Pages(slots[full]) : \E i \in Indices : p \in Pages(slots'[i])
         /\ \A i \in Indices \ {full} :
              \/ slots'[i] = slots[i]
              \/ /\ slots[i].state = "EMPTY" /\ slots'[i].state = "FREE"
                 /\ PageOf(slots'[i].user) \in Pages(slots'[i])
         /\ page' = [p \in 1 .. NPages |->
                      IF p \in DeadPages(Current, slots[full].base) THEN "none"
                      ELSE IF p \in LivePages(Current, slots[full].base) THEN "rw"
                      ELSE page[p]]
         /\ pc = "carve" /\ pc' = AfterAllocate /\ Indices' = Indices
         /\ UNCHANGED <<slotCount, allocList, listPages, req, growing, full,
                        addr, red, sumProtectedMem>>
<1> DEFINE r == Current
           s == slots[full]
           n == InternalPages(r)
           t == UsedSlot(r, s.base)
           u == RestSlot(s, n)
<1>1. /\ pc = "carve"
      /\ s.len > n => emp # 0
      /\ page' = [p \in 1 .. NPages |->
                   IF p \in DeadPages(r, s.base) THEN "none"
                   ELSE IF p \in LivePages(r, s.base) THEN "rw" ELSE page[p]]
      /\ slots' = [i \in Indices |->
                     IF i = full THEN t
                     ELSE IF s.len > n /\ i = emp THEN u ELSE slots[i]]
      /\ pc' = AfterAllocate
      /\ UNCHANGED <<slotCount, allocList, listPages, sumAllocatedMem,
                     sumProtectedMem, ctl, why>>
  BY DEF Carve, Stop
<1>2. ValidRequest(r) /\ r.type \in AllocTypes /\ n \in Nat /\ n > 0
  BY CurrentFacts
<1>3. /\ full \in Indices /\ s.state = "FREE" /\ s.len >= n
      /\ emp # 0 => emp \in Indices /\ slots[emp].state = "EMPTY"
      /\ s \in Slot /\ SlotOK(s)
  BY <1>1 DEF IInv, LocalsAgree, In, MemoryOK
<1>4. /\ s.base \in Nat /\ s.len \in Nat /\ s.base > 2
      /\ s.base + s.len - 1 <= NPages /\ NPages \in Nat
  BY <1>3, HeapAssumption DEF Slot, SlotOK
<1>5. s.base + n - 1 <= NPages
  BY <1>2, <1>3, <1>4
<1>6. Pages(t) = s.base .. s.base + n - 1
  BY <1>2, <1>4, <1>5, UsedSlotFacts
<1>7. Pages(s) = s.base .. s.base + s.len - 1
  BY DEF Pages
<1>8. Pages(t) \subseteq Pages(s)
  <2> HIDE DEF t, n, s
  <2> QED BY <1>2, <1>3, <1>4, <1>6, <1>7
<1>9. ASSUME NEW i \in Indices \ {full}
      PROVE  \/ slots'[i] = slots[i]
             \/ /\ slots[i].state = "EMPTY" /\ slots'[i].state = "FREE"
                /\ PageOf(slots'[i].user) \in Pages(slots'[i])
  <2>1. CASE s.len > n /\ i = emp
    <3>1. slots'[i] = u
      BY <1>1, <1>9, <2>1
    <3>2. u.state = "FREE" /\ u.user = (s.base + n) * PageSize
      BY <1>3 DEF RestSlot, Slot
    <3>3. n < s.len
      BY <1>2, <1>4, <2>1
    <3>4. Pages(u) = s.base + n .. s.base + s.len - 1
      BY <1>2, <1>3, <3>3, RestSlotFacts, Zenon
    <3>5. PageOf((s.base + n) * PageSize) = s.base + n
      <4>1. s.base + n \in Int
        BY <1>2, <1>4
      <4> HIDE DEF s, n
      <4> QED BY <4>1, PageOfStart
    <3>6. s.base + n \in s.base + n .. s.base + s.len - 1
      <4> HIDE DEF s, n
      <4> QED BY <1>2, <1>4, <3>3
    <3>7. slots[i].state = "EMPTY"
      BY <1>1, <1>3, <2>1
    <3> HIDE DEF u, s, n
    <3> QED BY <3>1, <3>2, <3>4, <3>5, <3>6, <3>7
  <2>2. CASE ~ (s.len > n /\ i = emp)
    BY <1>1, <1>9, <2>2
  <2> QED BY <2>1, <2>2
<1>10. slots'[full] = t
  BY <1>1, <1>3
<1>11. /\ Indices' = Indices
       /\ UNCHANGED <<slotCount, allocList, listPages, req, growing, full,
                      addr, red, sumProtectedMem>>
  BY <1>1 DEF ctl, Indices
<1>12. ASSUME NEW p \in Pages(s)
       PROVE  \E i \in Indices : p \in Pages(slots'[i])
  <2>1. CASE p \in Pages(t)
    BY <1>3, <1>10, <2>1
  <2>2. CASE p \notin Pages(t)
    <3>1. p \in s.base + n .. s.base + s.len - 1 /\ n < s.len
      <4> HIDE DEF s, n, t
      <4> QED BY <1>2, <1>4, <1>6, <1>7, <1>12, <2>2
    <3>2. Pages(u) = s.base + n .. s.base + s.len - 1
      BY <1>2, <1>3, <3>1, RestSlotFacts, Zenon
    <3>3. emp \in Indices /\ slots[emp].state = "EMPTY" /\ s.len > n
      <4> HIDE DEF s, n
      <4> QED BY <1>1, <1>2, <1>3, <1>4, <3>1
    <3>4. slots'[emp] = u
      BY <1>1, <1>3, <3>3
    <3> QED BY <3>1, <3>2, <3>3, <3>4
  <2> QED BY <2>1, <2>2
<1> QED BY <1>1, <1>2, <1>3, <1>4, <1>6, <1>8, <1>9, <1>10, <1>11, <1>12

LEMMA CarveTables ==
  ASSUME IInv, TInv, Carve
  PROVE  TInv'
<1>1. pc = "carve" /\ ~ AtRelease
  BY DEF Carve, AtRelease
<1>2. CASE pc' = "stopped"
  <2>1. UNCHANGED <<mem, ctl>>
    BY <1>2 DEF Carve, Stop, AfterAllocate
  <2> QED BY <1>1, <1>2, <2>1, StopTables
<1>3. CASE pc' # "stopped"
  <2> DEFINE b == slots[full].base
             r == Current
  <2>1. /\ full \in Indices /\ slots[full].state = "FREE"
        /\ b \in Nat /\ ValidRequest(r)
        /\ slots'[full] = UsedSlot(r, b)
        /\ Pages(slots'[full]) = b .. b + InternalPages(r) - 1
        /\ Pages(slots'[full]) \subseteq Pages(slots[full])
        /\ \A i \in Indices \ {full} :
             \/ slots'[i] = slots[i]
             \/ /\ slots[i].state = "EMPTY" /\ slots'[i].state = "FREE"
                /\ PageOf(slots'[i].user) \in Pages(slots'[i])
        /\ page' = [p \in 1 .. NPages |->
                     IF p \in DeadPages(r, b) THEN "none"
                     ELSE IF p \in LivePages(r, b) THEN "rw" ELSE page[p]]
        /\ pc' = AfterAllocate /\ Indices' = Indices
        /\ UNCHANGED <<slotCount, allocList, listPages, req, growing, full, addr>>
    BY <1>3, CarveEffect
  <2>2. slots'[full].state = "IN_USE" /\ slots'[full].alloc = r.type
        /\ slots'[full].user = UserAddr(r, b) /\ slots'[full].usz = r.userSize
    BY <2>1 DEF UsedSlot
  <2>3. ~ AtRelease'
    BY <2>1 DEF AtRelease, AfterAllocate
  <2>4. FreeAddressed'
    BY <2>1, <2>2 DEF TInv, FreeAddressed
  <2>5. PICK i \in Indices :
          /\ HoldsTable(i) /\ i # full
          /\ \A j \in Indices \ {i} : ~ Internal(j)
    BY <1>1, <2>1 DEF TInv, OneTable, HoldsTable, Internal
  <2>6. slots'[i] = slots[i] /\ HoldsTable(i)'
    BY <2>1, <2>5 DEF HoldsTable, Internal, TablePages
  <2>7. \A p \in TablePages : /\ p \in 1 .. NPages /\ page[p] = "rw"
                             /\ p \notin DeadPages(r, b)
    <3>1. slots[i] \in Slot /\ SlotOK(slots[i])
      BY DEF IInv, MemoryOK
    <3>2. DeadPages(r, b) \subseteq Pages(slots[full])
      BY <2>1, DeadWithin
    <3>3. \A p \in Pages(slots[i]) : p \notin Pages(slots[full])
      BY <2>1, <2>5 DEF IInv, MemoryOK, Disjoint
    <3>4. \A p \in TablePages : page[p] = "rw"
      BY <1>1 DEF TInv, OpenTable
    <3> QED BY <2>5, <3>1, <3>2, <3>3, <3>4, SlotPages DEF HoldsTable
  <2>8. OpenTable'
    BY <2>1, <2>7 DEF OpenTable, TablePages
  <2>9. CASE ~ growing
    <3>1. pc' # "swap"
      BY <2>1, <2>9 DEF AfterAllocate
    <3>2. slots'[full].alloc # "INTERNAL"
      BY <1>1, <2>2, <2>9 DEF Current, IInv, LocalsAgree
    <3>3. \A j \in Indices \ {i} : ~ Internal(j)'
      BY <2>1, <2>5, <3>2 DEF Internal
    <3>4. OneTable'
      BY <2>1, <2>3, <2>6, <2>9, <3>1, <3>3 DEF OneTable
    <3> QED BY <2>1, <2>3, <2>4, <2>8, <2>9, <3>1, <3>4
            DEF TInv, Released, NewTable, OldTable
  <2>10. CASE growing
    <3>1. pc' = "swap" /\ r = TableRequest
      BY <2>1, <2>10 DEF AfterAllocate, Current
    <3>2. \A j \in Indices \ {i} : Internal(j)' => j = full
      BY <2>1, <2>5 DEF Internal
    <3>3. OneTable'
      BY <2>1, <2>5, <2>6, <2>10, <3>1, <3>2 DEF OneTable
    <3>4. NewTable'
      <4> DEFINE L == listPages + 1
                 user == UserAddr(r, b)
      <4>1. listPages \in Nat /\ listPages > 0 /\ PageSize \in Nat \ {0}
        BY AddrAssumption DEF IInv, Scalars, TableKept
      <4>2. user = b * PageSize /\ PageOf(user) = b
        BY <2>1, <3>1, <4>1, TableGeometry
      <4>3. r.userSize = L * PageSize /\ ~ r.protectBelow /\ r.userSize # 0
        <5>1. r.userSize = L * PageSize /\ ~ r.protectBelow
          BY <3>1 DEF TableRequest
        <5>2. L * PageSize > 0
          BY <4>1
        <5> QED BY <5>1, <5>2
      <4>4. /\ PageOf(user) .. PageOf(user + r.userSize - 1) \subseteq LivePages(r, b)
            /\ \A p \in LivePages(r, b) : /\ p \notin DeadPages(r, b)
                                         /\ p \in b .. b + InternalPages(r) - 1
        BY <2>1, <4>3, BufferPages
      <4> HIDE DEF L, user, b, r
      <4>5. b + L - 1 <= PageOf(user + r.userSize - 1)
            /\ PageOf(user + r.userSize - 1) \in Int
        <5>1. L \in Nat /\ L > 0 /\ b \in Nat
          BY <2>1, <4>1 DEF L
        <5>2. b * PageSize \in Int /\ L * PageSize \in Int
          BY <4>1, <5>1
        <5>3. (b + L - 1) * PageSize = b * PageSize + L * PageSize - PageSize
          BY <4>1, <5>1
        <5>4. (b + L - 1) * PageSize <= user + r.userSize - 1
          BY <4>1, <4>2, <4>3, <5>2, <5>3
        <5>5. user + r.userSize - 1 \in Int /\ b + L - 1 \in Int
          BY <4>2, <4>3, <5>1, <5>2
        <5> QED BY <4>1, <5>4, <5>5, DivGreatest, DivFacts DEF PageOf
      <4>6. \A p \in b .. b + listPages : p \in LivePages(r, b)
        BY <2>1, <4>1, <4>2, <4>4, <4>5 DEF L
      <4>7. \A p \in b .. b + listPages : p \in 1 .. NPages
        <5>1. slots[full] \in Slot /\ SlotOK(slots[full])
          BY <2>1 DEF IInv, MemoryOK
        <5> QED BY <2>1, <4>4, <4>6, <5>1, SlotPages
      <4>8. \A p \in b .. b + listPages : page'[p] = "rw"
        BY <2>1, <4>4, <4>6, <4>7
      <4>9. PageOf(slots'[full].user) = b /\ slots'[full].user = b * PageSize
            /\ slots'[full].usz = (listPages + 1) * PageSize
        BY <2>2, <4>2, <4>3 DEF L, user, r, b
      <4> QED BY <2>1, <2>10, <4>8, <4>9 DEF NewTable
    <3> QED BY <2>1, <2>3, <2>4, <2>8, <3>1, <3>3, <3>4 DEF TInv, Released, OldTable
  <2> QED BY <2>9, <2>10
<1> QED BY <1>2, <1>3

LEMMA InitTables ==
  ASSUME Init
  PROVE  TInv
<1>1. /\ SlotsPerPage \in Nat /\ SlotsPerPage >= 2 /\ CreationPages \in Nat \ {0}
      /\ PageSize \in Nat
  BY AddrAssumption, HeapAssumption
<1>2. /\ Indices = 1 .. SlotsPerPage /\ 1 \in Indices /\ 2 \in Indices
      /\ slots[1] = FirstTable
      /\ slots[2] = FirstFree \/ slots[2] = EmptySlot
      /\ slots[2] = FirstFree => CreationPages > 1
      /\ \A i \in Indices \ {1, 2} : slots[i] = EmptySlot
  BY <1>1 DEF Init, Indices, EmptySlot, FirstFree
<1>3. /\ FirstTable.state = "IN_USE" /\ FirstTable.alloc = "INTERNAL"
      /\ FirstTable.user = 3 * PageSize /\ FirstTable.usz = PageSize
      /\ Pages(FirstTable) = {3}
      /\ FirstFree.state = "FREE" /\ FirstFree.user = 4 * PageSize
      /\ EmptySlot.state = "EMPTY"
  BY DEF FirstTable, FirstFree, EmptySlot, Pages
<1>4. FreeAddressed
  <2>1. PageOf(4 * PageSize) = 4
    BY PageOfStart
  <2>2. CreationPages > 1 => 4 \in Pages(FirstFree)
    BY <1>1 DEF FirstFree, Pages
  <2> QED BY <1>2, <1>3, <2>1, <2>2 DEF FreeAddressed
<1>5. /\ allocList = 3 /\ listPages = 1 /\ pc = "idle" /\ ~ growing
  BY DEF Init
<1>6. ~ AtRelease
  BY <1>5 DEF AtRelease
<1>7. TablePages = {3} /\ listPages * PageSize = PageSize
  BY <1>1, <1>5 DEF TablePages
<1>8. HoldsTable(1)
  BY <1>2, <1>3, <1>5, <1>7 DEF HoldsTable, Internal
<1>9. \A j \in Indices \ {1} : ~ Internal(j)
  BY <1>2, <1>3 DEF Internal
<1>10. OneTable
  BY <1>2, <1>5, <1>6, <1>8, <1>9 DEF OneTable
<1> QED BY <1>4, <1>5, <1>6, <1>10
        DEF TInv, Released, NewTable, OldTable, OpenTable

LEMMA NextTables ==
  ASSUME IInv, TInv, [Next]_vars
  PROVE  TInv'
<1>1. CASE CallAny
  BY <1>1, CallTables
<1>2. CASE Create \/ Retry \/ Last
  BY <1>2, CreatedTables, CreateFailedTables DEF Create, Retry, Last
<1>3. CASE Step
  BY <1>2, <1>3, SearchTables, CarveTables, SwapTables, MoveTables,
     DeallocateTables, ReleaseTables, ReduceTables, ReduceExhaustedTables,
     LeaveTables DEF Step
<1>4. CASE UNCHANGED vars
  <2>1. /\ UNCHANGED <<mem, pc, ctl>>
        /\ UNCHANGED <<slots, slotCount, allocList, listPages, page, req,
                       growing, full, emp, addr, red>>
    BY <1>4 DEF vars, mem, ctl
  <2>2. Indices' = Indices /\ TablePages' = TablePages /\ Current' = Current
        /\ AtRelease' = AtRelease
    BY <2>1 DEF Indices, TablePages, Current, TableRequest, AtRelease
  <2> QED BY <2>1, <2>2 DEF TInv, FreeAddressed, Released, OneTable, HoldsTable,
                            Internal, NewTable, OldTable, OpenTable
<1> QED BY <1>1, <1>3, <1>4 DEF Next, Finished

LEMMA TablesInductive == Spec => [](IInv /\ TInv)
<1>1. Init => IInv /\ TInv
  BY InitInv, InitTables
<1>2. IInv /\ TInv /\ [Next]_vars => (IInv /\ TInv)'
  BY NextInv, NextTables
<1> QED BY <1>1, <1>2, PTL DEF Spec

(* Within a call the slot table is accessible, and it is the one internal   *)
(* block in use: allocateMoreSlots() always finds and releases the old      *)
(* table, and no error path leaves it behind.                               *)
THEOREM Opened == Spec => []TableOpen
<1>1. IInv /\ TInv => TableOpen
  <2> SUFFICES ASSUME TInv PROVE TableOpen
    OBVIOUS
  <2>1. pc \notin {"idle", "stopped"} => \A p \in TablePages : page[p] = "rw"
    BY DEF TInv, OpenTable
  <2>2. PICK i \in Indices :
          HoldsTable(i) /\ \A j \in Indices \ {i} : Internal(j) => growing
    BY DEF TInv, OneTable
  <2> QED BY <2>1, <2>2 DEF TableOpen, HoldsTable, Internal
<1> QED BY <1>1, TablesInductive, PTL

-----------------------------------------------------------------------------
(* The pages of the blocks.                                                 *)

(* An alignment above the page size and DUMA_PROTECT_BELOW are not used     *)
(* together: with both, Page_AllowAccess() gets a size that reaches beyond  *)
(* the block.                                                               *)
NoSpill ==
  TRUE \in ProtectBelow =>
    \A a \in Alignments \cup {DefaultAlignment(n, ALIGNMENT) : n \in Sizes \ {0}} :
      a <= PageSize

RequestFits ==
  req.userSize # 0 /\ req.protectBelow => req.alignment <= PageSize

(* Buffers in use and freed memory that is kept, which a step must not      *)
(* disturb; internal blocks and free ones are the allocator's own.          *)
Protected(s) == s.state \in {"ALL_PROTECTED", "BEGIN_PROTECTED"}

Held(s) == Protected(s) \/ (s.state = "IN_USE" /\ s.alloc # "INTERNAL")

Same(i) ==
  slots'[i] = slots[i] /\ \A p \in Pages(slots[i]) : page'[p] = page[p]

(* The step leaves the slots outside K, and the access to their pages.      *)
Frame(K) ==
  /\ \A i \in Indices \ K : Held(slots[i]) => Same(i)
  /\ \A i \in Indices' \ K : Held(slots'[i]) => i \in Indices /\ Held(slots[i])

Guarded(s, pg) ==
  /\ s.prot \in Pages(s) /\ pg[s.prot] = "none"
  /\ s.usz > 0 =>
       /\ UserPages(s) \subseteq Pages(s)
       /\ \A p \in UserPages(s) : pg[p] = "rw"
       /\ \/ s.prot = PageOf(s.user) - 1
          \/ s.prot = PageOf(s.user + s.usz - 1) + 1

PagesInv == RequestFits /\ GuardPages /\ FreedHidden

(* The page of a slot is mapped and in no other slot.                       *)
LEMMA SlotPageFacts ==
  ASSUME IInv, NEW i \in Indices, NEW p \in Pages(slots[i])
  PROVE  /\ p \in 1 .. NPages /\ page[p] # "unmapped"
         /\ \A j \in Indices \ {i} : p \notin Pages(slots[j])
<1>1. slots[i] \in Slot /\ SlotOK(slots[i])
  BY DEF IInv, MemoryOK
<1>2. p \in 1 .. NPages
  BY <1>1, SlotPages
<1> QED BY <1>2 DEF IInv, MemoryOK, Owned, OwnedPage, Disjoint

(* Steps that change no slot, and at most the access to the slot table.     *)
LEMMA QuietFrame ==
  ASSUME IInv, TInv, UNCHANGED <<slots, slotCount>>,
         \A p \in 1 .. NPages : page'[p] = page[p] \/ p \in TablePages
  PROVE  Frame({})
<1>1. PICK k \in Indices : HoldsTable(k) /\ TablePages \subseteq Pages(slots[k])
  BY TableSlot
<1>2. ASSUME NEW i \in Indices, Held(slots[i])
      PROVE  Same(i)
  <2>1. i # k
    BY <1>1, <1>2 DEF Held, Protected, HoldsTable, Internal
  <2>2. \A p \in Pages(slots[i]) : p \in 1 .. NPages /\ p \notin TablePages
    BY <1>1, <2>1, SlotPageFacts
  <2> QED BY <2>2 DEF Same
<1> QED BY <1>2 DEF Frame, Indices

LEMMA CreatedFrame ==
  ASSUME IInv, pc \in {"create", "retry", "last"}, Created
  PROVE  Frame({})
<1>1. /\ full \in Indices /\ slots[full].state = "EMPTY"
      /\ slots'[full].state = "FREE"
      /\ \A i \in Indices \ {full} : slots'[i] = slots[i]
      /\ \A p \in 1 .. NPages : page[p] # "unmapped" => page'[p] = page[p]
      /\ Indices' = Indices
  BY CreatedEffect
<1>2. ASSUME NEW i \in Indices, Held(slots[i])
      PROVE  Same(i)
  <2>1. i # full
    BY <1>1, <1>2 DEF Held, Protected
  <2>2. \A p \in Pages(slots[i]) : p \in 1 .. NPages /\ page[p] # "unmapped"
    BY SlotPageFacts
  <2> QED BY <1>1, <2>1, <2>2 DEF Same
<1>3. ASSUME NEW i \in Indices, Held(slots'[i])
      PROVE  Held(slots[i])
  BY <1>1, <1>3 DEF Held, Protected
<1> QED BY <1>1, <1>2, <1>3 DEF Frame

LEMMA SwapFrame ==
  ASSUME IInv, Swap
  PROVE  Frame({})
<1>1. /\ slotCount \in Nat /\ SlotsPerPage \in Nat
  BY HeapAssumption DEF IInv, Scalars
<1>2. /\ slots' = [i \in 1 .. slotCount + SlotsPerPage |->
                     IF i \in Indices THEN slots[i] ELSE EmptySlot]
      /\ slotCount' = slotCount + SlotsPerPage /\ page' = page
  BY DEF Swap
<1>3. /\ \A i \in Indices : i \in Indices' /\ slots'[i] = slots[i]
      /\ \A i \in Indices' \ Indices : slots'[i] = EmptySlot
  BY <1>1, <1>2 DEF Indices
<1>4. ~ Held(EmptySlot)
  BY DEF Held, Protected, EmptySlot
<1> QED BY <1>2, <1>3, <1>4 DEF Frame, Same

(* The block given out is guarded from the start.                           *)
LEMMA CarveFrame ==
  ASSUME IInv, RequestFits, Carve, pc' # "stopped"
  PROVE  /\ Frame({full}) /\ full \in Indices /\ ~ Held(slots[full])
         /\ slots'[full].state = "IN_USE"
         /\ Guarded(slots'[full], page')
         /\ \A p \in 1 .. NPages : page'[p] = page[p] \/ p \in Pages(slots'[full])
<1> DEFINE b == slots[full].base
           r == Current
           t == UsedSlot(r, b)
           block == b .. b + InternalPages(r) - 1
<1>1. /\ full \in Indices /\ slots[full].state = "FREE"
      /\ b \in Nat /\ ValidRequest(r)
      /\ slots'[full] = t /\ Pages(t) = block
      /\ block \subseteq Pages(slots[full])
      /\ \A i \in Indices \ {full} :
           \/ slots'[i] = slots[i]
           \/ slots[i].state = "EMPTY" /\ slots'[i].state = "FREE"
      /\ page' = [p \in 1 .. NPages |->
                   IF p \in DeadPages(r, b) THEN "none"
                   ELSE IF p \in LivePages(r, b) THEN "rw" ELSE page[p]]
      /\ Indices' = Indices
  BY CarveEffect
<1>2. /\ t.state = "IN_USE" /\ t.alloc = r.type /\ t.user = UserAddr(r, b)
      /\ t.usz = r.userSize /\ t.prot = ProtPage(r, b)
  BY DEF UsedSlot
<1>3. r.userSize # 0 => (r.protectBelow => r.alignment <= PageSize)
  BY DEF RequestFits, Current, TableRequest
<1>4. r.userSize \in Nat
  BY <1>1 DEF ValidRequest
<1>5. \A p \in Pages(slots[full]) : p \in 1 .. NPages
  BY <1>1, SlotPageFacts
<1> HIDE DEF t, r, b
<1>6. r.userSize # 0 =>
        /\ t.prot \in block /\ t.prot \in DeadPages(r, b)
        /\ UserPages(t) \subseteq LivePages(r, b)
        /\ LivePages(r, b) \subseteq block
        /\ \A p \in LivePages(r, b) : p \notin DeadPages(r, b)
        /\ \/ t.prot = PageOf(t.user) - 1
           \/ t.prot = PageOf(t.user + t.usz - 1) + 1
  BY <1>1, <1>2, <1>3, BufferPages DEF UserPages
<1>7. r.userSize = 0 =>
        /\ t.prot \in block /\ t.prot \in DeadPages(r, b)
        /\ LivePages(r, b) \subseteq block
  BY <1>1, <1>2 DEF ProtPage, DeadPages, LivePages, InternalPages
<1>8. Guarded(t, page')
  BY <1>1, <1>2, <1>4, <1>5, <1>6, <1>7 DEF Guarded
<1>9. \A p \in 1 .. NPages : page'[p] = page[p] \/ p \in block
  BY <1>1, <1>6, <1>7, DeadWithin
<1>10. ASSUME NEW i \in Indices \ {full}, Held(slots[i])
       PROVE  Same(i)
  <2>1. slots'[i] = slots[i]
    BY <1>1, <1>10 DEF Held, Protected
  <2>2. \A p \in Pages(slots[i]) : p \in 1 .. NPages /\ p \notin Pages(slots[full])
    BY <1>1, SlotPageFacts
  <2> QED BY <1>1, <1>9, <2>1, <2>2 DEF Same
<1>11. ASSUME NEW i \in Indices \ {full}, Held(slots'[i])
       PROVE  Held(slots[i])
  BY <1>1, <1>11 DEF Held, Protected
<1>12. ~ Held(slots[full])
  BY <1>1 DEF Held, Protected
<1> QED BY <1>1, <1>2, <1>8, <1>9, <1>10, <1>11, <1>12 DEF Frame

LEMMA ReleaseFrame ==
  ASSUME IInv, Release
  PROVE  Frame({full})
<1>1. /\ full \in Indices /\ Indices' = Indices
      /\ \A i \in Indices \ {full} : slots'[i] = slots[i]
      /\ \A p \in 1 .. NPages : page'[p] = page[p] \/ p \in Pages(slots[full])
  BY ReleaseEffect
<1>2. ASSUME NEW i \in Indices \ {full}, NEW p \in Pages(slots[i])
      PROVE  page'[p] = page[p]
  BY <1>1, SlotPageFacts
<1> QED BY <1>1, <1>2 DEF Frame, Same

LEMMA ReduceFrame ==
  ASSUME IInv, ReduceToBegin \/ ReduceToEmpty
  PROVE  \E k \in Indices :
           /\ Frame({k}) /\ Protected(slots[k])
           /\ slots'[k].state \in {"BEGIN_PROTECTED", "EMPTY"}
           /\ Pages(slots'[k]) \subseteq Pages(slots[k])
           /\ \A p \in Pages(slots'[k]) : page'[p] = page[p]
           /\ slots'[k].state = "BEGIN_PROTECTED" =>
                /\ slots'[k].user = slots[k].user
                /\ slots'[k].alloc = slots[k].alloc
           /\ pc = "reduce" /\ pc' \in {"reduce", red.from}
           /\ red'.from = red.from /\ Indices' = Indices
           /\ UNCHANGED <<growing, addr, req>>
<1>1. PICK k \in In({"ALL_PROTECTED", "BEGIN_PROTECTED"}) :
        /\ slots'[k].state \in {"BEGIN_PROTECTED", "EMPTY"}
        /\ \A j \in Indices \ {k} : slots'[j] = slots[j]
        /\ \A p \in 1 .. NPages :
             \/ page'[p] = page[p]
             \/ p \in Pages(slots[k]) /\ p \notin Pages(slots'[k])
        /\ Pages(slots'[k]) \subseteq Pages(slots[k])
        /\ slots'[k].state = "BEGIN_PROTECTED" =>
             /\ slots'[k].user = slots[k].user
             /\ slots'[k].alloc = slots[k].alloc
        /\ pc = "reduce" /\ pc' \in {"reduce", red.from}
        /\ red'.from = red.from /\ Indices' = Indices
        /\ UNCHANGED <<growing, addr, req>>
  BY ReduceEffect
<1>2. k \in Indices /\ Protected(slots[k])
  BY DEF In, Protected
<1>3. ASSUME NEW i \in Indices \ {k}, NEW p \in Pages(slots[i])
      PROVE  page'[p] = page[p]
  BY <1>1, <1>2, SlotPageFacts
<1>4. Frame({k})
  BY <1>1, <1>3 DEF Frame, Same
<1>5. \A p \in Pages(slots'[k]) : page'[p] = page[p]
  BY <1>1, <1>2, SlotPageFacts
<1> QED BY <1>1, <1>2, <1>4, <1>5

(* The calls of the program only open and close the table.                  *)
LEMMA CallQuiet ==
  ASSUME CallAny
  PROVE  /\ UNCHANGED <<slots, slotCount>>
         /\ page' = page \/ page' = Set(TablePages, "rw")
                         \/ page' = Set(TablePages, "none")
<1> DEFINE Quiet == /\ UNCHANGED <<slots, slotCount>>
                    /\ \/ page' = page \/ page' = Set(TablePages, "rw")
                       \/ page' = Set(TablePages, "none")
<1>1. ASSUME NEW reason, Stop(reason) PROVE Quiet
  BY <1>1 DEF Stop, mem
<1>2. ASSUME NEW r, NEW opened \in BOOLEAN, BeginAllocate(r, opened) PROVE Quiet
  BY <1>1, <1>2 DEF BeginAllocate
<1>3. ASSUME NEW a, NEW r, BeginDeallocate(a, r) PROVE Quiet
  BY <1>3 DEF BeginDeallocate
<1>4. ASSUME Close, UnchangedButPage PROVE Quiet
  BY <1>4 DEF Close, UnchangedButPage
<1>5. ASSUME UNCHANGED mem PROVE Quiet
  BY <1>5 DEF mem
<1> HIDE DEF Quiet
<1>6. ASSUME NEW n, NEW t, NEW b, Allocate(n, t, b) PROVE Quiet
  BY <1>2, <1>6 DEF Allocate
<1>7. ASSUME NEW a, NEW n, NEW b, Memalign(a, n, b) PROVE Quiet
  BY <1>2, <1>7 DEF Memalign
<1>14. ASSUME NEW a, NEW n, NEW b, PosixMemalign(a, n, b) PROVE Quiet
  BY <1>5, <1>7, <1>14 DEF PosixMemalign, NextCall
<1>8. ASSUME NEW p, NEW n, NEW b, Realloc(p, n, b) PROVE Quiet
  BY <1>2, <1>3, <1>8 DEF Realloc
<1>9. ASSUME NEW p, NEW t, Free(p, t) PROVE Quiet
  BY <1>3, <1>5, <1>9 DEF Free
<1>10. ASSUME NEW p, Check(p) PROVE Quiet
  BY <1>1, <1>4, <1>10 DEF Check
<1>11. ASSUME NEW p, MallocUsableSize(p) PROVE Quiet
  BY <1>1, <1>4, <1>11 DEF MallocUsableSize
<1>12. ASSUME CheckAll PROVE Quiet
  BY <1>4, <1>12 DEF CheckAll
<1>13. Quiet
  BY <1>6, <1>7, <1>8, <1>9, <1>10, <1>11, <1>12, <1>14 DEF CallAny
<1> QED BY <1>13 DEF Quiet

(* Without a request that spills, every step leaves all that is held alone, *)
(* but for the block it gives out, releases or gives up.                    *)
LEMMA StepFrame ==
  ASSUME IInv, TInv, [Next]_vars
  PROVE  \/ Frame({})
         \/ Carve /\ pc' # "stopped"
         \/ Release
         \/ ReduceToBegin \/ ReduceToEmpty
<1>1. ASSUME UNCHANGED mem PROVE Frame({})
  BY <1>1, QuietFrame DEF mem
<1>2. ASSUME UNCHANGED <<slots, slotCount>>,
             page' = Set(TablePages, "rw") \/ page' = Set(TablePages, "none")
      PROVE  Frame({})
  BY <1>2, QuietFrame DEF Set
<1>3. CASE CallAny
  <2>1. UNCHANGED <<slots, slotCount>>
        /\ (page' = page \/ page' = Set(TablePages, "rw")
                         \/ page' = Set(TablePages, "none"))
    BY <1>3, CallQuiet
  <2> QED BY <1>2, <2>1, QuietFrame
<1>4. CASE SearchFound
  BY <1>1, <1>4 DEF SearchFound
<1>5. CASE SearchFailed
  BY <1>1, <1>5 DEF SearchFailed, Stop
<1>6. CASE Create \/ Retry \/ Last
  <2>1. CASE Created
    BY <1>6, <2>1, CreatedFrame DEF Create, Retry, Last
  <2>2. ASSUME NEW n, CreateFailed(n) \/ RetryFailed(n) \/ LastFailed(n)
        PROVE  UNCHANGED mem
    BY <2>2 DEF CreateFailed, RetryFailed, LastFailed, NoMemory, Stop
  <2> QED BY <1>1, <1>6, <2>1, <2>2 DEF Create, Retry, Last
<1>7. CASE Carve /\ pc' = "stopped"
  BY <1>1, <1>7 DEF Carve, Stop, AfterAllocate
<1>8. CASE Swap
  BY <1>8, SwapFrame
<1>9. CASE Move
  BY <1>1, <1>9 DEF Move, Stop
<1>10. CASE Deallocate
  BY <1>1, <1>10 DEF Deallocate, Stop
<1>11. CASE ReduceExhausted
  BY <1>1, <1>11 DEF ReduceExhausted
<1>12. CASE Leave
  BY <1>2, <1>12 DEF Leave
<1>13. CASE UNCHANGED vars
  BY <1>1, <1>13 DEF vars
<1> QED BY <1>3, <1>4, <1>5, <1>6, <1>7, <1>8, <1>9, <1>10, <1>11, <1>12, <1>13
        DEF Next, Step, Finished

(* Every request of the program fits, if the two options are kept apart.    *)
LEMMA RequestStep ==
  ASSUME NoSpill, IInv, RequestFits, [Next]_vars
  PROVE  RequestFits'
<1> DEFINE Fit(r) == r.userSize # 0 /\ r.protectBelow => r.alignment <= PageSize
<1>1. ASSUME req' = req \/ Fit(req') PROVE RequestFits'
  BY <1>1 DEF RequestFits
<1>2. ASSUME NEW reason, Stop(reason) PROVE req' = req
  BY <1>2 DEF Stop, ctl
<1>3. ASSUME NEW r, NEW opened \in BOOLEAN, BeginAllocate(r, opened)
      PROVE  req' = req \/ req' = r
  BY <1>2, <1>3 DEF BeginAllocate, ctl
<1>4. ASSUME NEW a, NEW t, BeginDeallocate(a, [NoRequest EXCEPT !.type = t])
      PROVE  Fit(req')
  BY <1>4 DEF BeginDeallocate, NoRequest
<1>5. ASSUME NEW n \in Sizes, NEW t, NEW b \in ProtectBelow, NEW old
      PROVE  Fit(DefaultRequest(n, t, b, old))
  BY <1>5, HeapAssumption DEF DefaultRequest, NoSpill
<1>6. ASSUME NEW n \in Sizes, NEW b \in ProtectBelow, NEW a \in Alignments
      PROVE  Fit([DefaultRequest(n, "MALLOC", b, NULL) EXCEPT !.alignment = a])
  BY <1>6, HeapAssumption DEF DefaultRequest, NoSpill
<1> HIDE DEF Fit
<1>7. ASSUME NEW n \in Sizes, NEW t, NEW b \in ProtectBelow, Allocate(n, t, b)
      PROVE  RequestFits'
  BY <1>1, <1>3, <1>5, <1>7 DEF Allocate
<1>8. ASSUME NEW a \in Alignments, NEW n \in Sizes, NEW b \in ProtectBelow,
             Memalign(a, n, b)
      PROVE  RequestFits'
  BY <1>1, <1>3, <1>6, <1>8 DEF Memalign
<1>20. ASSUME NEW a \in Alignments, NEW n \in Sizes, NEW b \in ProtectBelow,
              PosixMemalign(a, n, b)
       PROVE  RequestFits'
  BY <1>1, <1>8, <1>20 DEF PosixMemalign, ctl
<1>9. ASSUME NEW p, NEW n \in Sizes, NEW b \in ProtectBelow, Realloc(p, n, b)
      PROVE  RequestFits'
  BY <1>1, <1>3, <1>4, <1>5, <1>9 DEF Realloc
<1>10. ASSUME NEW p, NEW t, Free(p, t) PROVE RequestFits'
  BY <1>1, <1>4, <1>10 DEF Free, ctl
<1>11. ASSUME NEW p, Check(p) \/ MallocUsableSize(p) \/ CheckAll
       PROVE  RequestFits'
  BY <1>1, <1>2, <1>11 DEF Check, MallocUsableSize, CheckAll, UnchangedButPage, ctl
<1>12. CASE CallAny
  <2>1. CASE \E n \in Sizes, t \in UserTypes, b \in ProtectBelow : Allocate(n, t, b)
    BY <1>7, <2>1
  <2>2. CASE \E a \in Alignments, n \in Sizes, b \in ProtectBelow :
               Memalign(a, n, b) \/ PosixMemalign(a, n, b)
    BY <1>8, <1>20, <2>2
  <2>3. CASE \E p \in Pointers, n \in Sizes, b \in ProtectBelow : Realloc(p, n, b)
    BY <1>9, <2>3
  <2>4. CASE \E p \in Pointers, t \in UserTypes : Free(p, t)
    BY <1>10, <2>4
  <2>5. CASE \/ \E p \in Pointers : Check(p) \/ MallocUsableSize(p)
             \/ CheckAll
    BY <1>11, <2>5
  <2> QED BY <1>12, <2>1, <2>2, <2>3, <2>4, <2>5 DEF CallAny
<1>13. CASE SearchFound \/ SearchFailed
  BY <1>1, <1>2, <1>13 DEF SearchFound, SearchFailed
<1>14. CASE Create \/ Retry \/ Last
  BY <1>1, <1>2, <1>14 DEF Create, Retry, Last, Created, CreateFailed, RetryFailed,
                       LastFailed, NoMemory, ctl
<1>15. CASE Carve \/ Swap \/ Move
  BY <1>1, <1>2, <1>15 DEF Carve, Swap, Move, ctl
<1>16. CASE Deallocate \/ Release
  BY <1>1, <1>2, <1>16 DEF Deallocate, Release, ctl
<1>17. CASE ReduceToBegin \/ ReduceToEmpty \/ ReduceExhausted
  BY <1>1, <1>17 DEF ReduceToBegin, ReduceToEmpty, ReduceExhausted
<1>18. CASE Leave
  BY <1>18 DEF Leave, RequestFits, NoRequest
<1>19. CASE UNCHANGED vars
  BY <1>1, <1>19 DEF vars, ctl
<1> QED BY <1>12, <1>13, <1>14, <1>15, <1>16, <1>17, <1>18, <1>19
        DEF Next, Step, Finished

(* A page the program can access belongs to a slot: what munmap() leaves    *)
(* behind is inaccessible.                                                  *)
Listed(p) == \E i \in Indices : p \in Pages(slots[i])

OpenListed == \A p \in 1 .. NPages : page[p] = "rw" => Listed(p)

LEMMA ListedQuiet ==
  ASSUME IInv, TInv, OpenListed, UNCHANGED <<slots, slotCount>>,
         \A p \in 1 .. NPages : page'[p] = page[p] \/ p \in TablePages
  PROVE  OpenListed'
<1>1. \A p \in 1 .. NPages : page'[p] = "rw" => Listed(p)
  BY TableSlot DEF OpenListed, Listed
<1> QED BY <1>1 DEF OpenListed, Listed, Indices

LEMMA ListedStep ==
  ASSUME IInv, TInv, RequestFits, OpenListed, [Next]_vars
  PROVE  OpenListed'
<1>1. ASSUME UNCHANGED mem PROVE OpenListed'
  BY <1>1, ListedQuiet DEF mem
<1>2. \A i \in Indices : slots[i].state = "EMPTY" => Pages(slots[i]) = {}
  BY EmptySlotFacts DEF IInv, MemoryOK, SlotOK
<1>3. CASE CallAny
  <2>1. UNCHANGED <<slots, slotCount>>
        /\ (page' = page \/ page' = Set(TablePages, "rw")
                         \/ page' = Set(TablePages, "none"))
    BY <1>3, CallQuiet
  <2> QED BY <2>1, ListedQuiet DEF Set
<1>4. CASE SearchFound
  BY <1>1, <1>4 DEF SearchFound
<1>5. CASE SearchFailed
  BY <1>1, <1>5 DEF SearchFailed, Stop
<1>6. CASE Create \/ Retry \/ Last
  <2>1. CASE Created
    <3>1. /\ full \in Indices /\ slots[full].state = "EMPTY"
          /\ \A i \in Indices \ {full} : slots'[i] = slots[i]
          /\ \A p \in 1 .. NPages : page'[p] = page[p] \/ p \in Pages(slots'[full])
          /\ Indices' = Indices
      BY <1>6, <2>1, CreatedEffect DEF Create, Retry, Last
    <3>2. ASSUME NEW p \in 1 .. NPages, page'[p] = "rw"
          PROVE  \E i \in Indices : p \in Pages(slots'[i])
      <4>1. CASE p \in Pages(slots'[full])
        BY <3>1, <4>1
      <4>2. CASE page[p] = "rw"
        <5>1. PICK i \in Indices : p \in Pages(slots[i])
          BY <4>2 DEF OpenListed, Listed
        <5>2. i # full
          BY <1>2, <3>1, <5>1
        <5> QED BY <3>1, <5>1, <5>2
      <4> QED BY <3>1, <3>2, <4>1, <4>2
    <3> QED BY <3>1, <3>2 DEF OpenListed, Listed
  <2>2. ASSUME NEW n, CreateFailed(n) \/ RetryFailed(n) \/ LastFailed(n)
        PROVE  UNCHANGED mem
    BY <2>2 DEF CreateFailed, RetryFailed, LastFailed, NoMemory, Stop
  <2> QED BY <1>1, <1>6, <2>1, <2>2 DEF Create, Retry, Last
<1>7. CASE Carve /\ pc' = "stopped"
  BY <1>1, <1>7 DEF Carve, Stop, AfterAllocate
<1>8. CASE Carve /\ pc' # "stopped"
  <2>1. /\ full \in Indices /\ Indices' = Indices
        /\ \A p \in Pages(slots[full]) : \E i \in Indices : p \in Pages(slots'[i])
        /\ \A i \in Indices \ {full} :
             slots'[i] = slots[i] \/ slots[i].state = "EMPTY"
    BY <1>8, CarveEffect
  <2>2. \A p \in 1 .. NPages : page'[p] = page[p] \/ p \in Pages(slots'[full])
    BY <1>8, CarveFrame
  <2>3. ASSUME NEW p \in 1 .. NPages, page[p] = "rw"
        PROVE  \E i \in Indices : p \in Pages(slots'[i])
    <3>1. PICK i \in Indices : p \in Pages(slots[i])
      BY <2>3 DEF OpenListed, Listed
    <3> QED BY <1>2, <2>1, <3>1
  <2> QED BY <2>1, <2>2, <2>3 DEF OpenListed, Listed
<1>9. CASE Swap
  <2>1. /\ slotCount \in Nat /\ SlotsPerPage \in Nat
    BY HeapAssumption DEF IInv, Scalars
  <2>2. /\ slots' = [i \in 1 .. slotCount + SlotsPerPage |->
                       IF i \in Indices THEN slots[i] ELSE EmptySlot]
        /\ slotCount' = slotCount + SlotsPerPage /\ page' = page
    BY <1>9 DEF Swap
  <2>3. \A i \in Indices : i \in Indices' /\ slots'[i] = slots[i]
    BY <2>1, <2>2 DEF Indices
  <2> QED BY <2>2, <2>3 DEF OpenListed, Listed
<1>10. CASE Move
  BY <1>1, <1>10 DEF Move, Stop
<1>11. CASE Deallocate
  BY <1>1, <1>11 DEF Deallocate, Stop
<1>12. CASE Release
  <2>1. /\ full \in Indices /\ Indices' = Indices
        /\ \A i \in Indices \ {full} : slots'[i] = slots[i]
        /\ \A p \in 1 .. NPages : page'[p] = page[p] \/ p \in Pages(slots[full])
        /\ \A p \in Pages(slots[full]) : page'[p] # "rw"
    BY <1>12, ReleaseEffect
  <2>2. ASSUME NEW p \in 1 .. NPages, page'[p] = "rw"
        PROVE  \E i \in Indices : p \in Pages(slots'[i])
    <3>1. p \notin Pages(slots[full]) /\ page[p] = "rw"
      BY <2>1, <2>2
    <3>2. PICK i \in Indices : p \in Pages(slots[i])
      BY <3>1 DEF OpenListed, Listed
    <3> QED BY <2>1, <3>1, <3>2
  <2> QED BY <2>1, <2>2 DEF OpenListed, Listed
<1>13. CASE ReduceToBegin \/ ReduceToEmpty
  <2>1. PICK k \in In({"ALL_PROTECTED", "BEGIN_PROTECTED"}) :
          /\ \A j \in Indices \ {k} : slots'[j] = slots[j]
          /\ \A p \in 1 .. NPages : page'[p] = page[p] \/ p \in Pages(slots[k])
          /\ \A p \in Pages(slots[k]) : p \in Pages(slots'[k]) \/ page'[p] # "rw"
          /\ Indices' = Indices
    BY <1>13, ReduceEffect
  <2>2. k \in Indices
    BY DEF In
  <2>3. ASSUME NEW p \in 1 .. NPages, page'[p] = "rw"
        PROVE  \E i \in Indices : p \in Pages(slots'[i])
    <3>1. CASE p \in Pages(slots[k])
      BY <2>1, <2>2, <2>3, <3>1
    <3>2. CASE p \notin Pages(slots[k])
      <4>1. PICK i \in Indices : p \in Pages(slots[i])
        BY <2>1, <2>3, <3>2 DEF OpenListed, Listed
      <4> QED BY <2>1, <3>2, <4>1
    <3> QED BY <3>1, <3>2
  <2> QED BY <2>1, <2>3 DEF OpenListed, Listed
<1>14. CASE ReduceExhausted
  BY <1>1, <1>14 DEF ReduceExhausted
<1>15. CASE Leave
  BY <1>15, ListedQuiet DEF Leave, Set
<1>16. CASE UNCHANGED vars
  BY <1>1, <1>16 DEF vars
<1> QED BY <1>3, <1>4, <1>5, <1>6, <1>7, <1>8, <1>9, <1>10, <1>11, <1>12, <1>13,
           <1>14, <1>15, <1>16 DEF Next, Step, Finished

(* The pages in no slot, as FreedHidden has them.                           *)
LEMMA UnlistedClosed ==
  ASSUME IInv
  PROVE  OpenListed <=>
           \A p \in Mapped \ UNION {Pages(slots[i]) : i \in Indices} :
             page[p] = "none"
<1>1. \A p : p \in UNION {Pages(slots[i]) : i \in Indices} <=> Listed(p)
  BY DEF Listed
<1>2. \A p \in 1 .. NPages : page[p] \in {"unmapped", "none", "rw"}
  BY DEF IInv, MemoryOK, PageMaps
<1> QED BY <1>1, <1>2 DEF OpenListed, Mapped

(* What a guarded buffer and a hidden block are, depends on their own pages.*)
LEMMA GuardedSame ==
  ASSUME NEW s, NEW pg, NEW pg2, Guarded(s, pg),
         \A p \in Pages(s) : pg2[p] = pg[p]
  PROVE  Guarded(s, pg2)
BY DEF Guarded

LEMMA PagesStep ==
  ASSUME IInv, TInv, PagesInv, IInv', RequestFits', [Next]_vars
  PROVE  PagesInv'
<1> DEFINE Hidden(i) == \A p \in Pages(slots[i]) : page[p] = "none"
<1>1. /\ \A i \in Indices : Held(slots[i]) /\ ~ Protected(slots[i]) =>
                            Guarded(slots[i], page)
      /\ \A i \in Indices : Protected(slots[i]) => Hidden(i)
  BY DEF PagesInv, GuardPages, FreedHidden, InUse, In, Held, Protected, Guarded
<1>8. OpenListed'
  BY UnlistedClosed, ListedStep DEF PagesInv, FreedHidden
<1>2. SUFFICES
        /\ \A i \in Indices' : Held(slots'[i]) /\ ~ Protected(slots'[i]) =>
                              Guarded(slots'[i], page')
        /\ \A i \in Indices' : Protected(slots'[i]) =>
                              \A p \in Pages(slots'[i]) : page'[p] = "none"
  <2>1. \A i \in Indices' : Protected(slots'[i]) =>
                           PageOf(slots'[i].user) \in Pages(slots'[i])
    BY DEF IInv, MemoryOK, SlotOK, Protected
  <2>2. (\A p \in Mapped \ UNION {Pages(slots[i]) : i \in Indices} :
           page[p] = "none")'
    BY <1>8, UnlistedClosed, PTL
  <2> QED BY <2>1, <2>2
          DEF PagesInv, GuardPages, FreedHidden, InUse, In, Held, Protected, Guarded
<1>3. ASSUME NEW K, Frame(K), NEW i \in Indices' \ K, Held(slots'[i])
      PROVE  /\ ~ Protected(slots'[i]) => Guarded(slots'[i], page')
             /\ Protected(slots'[i]) => \A p \in Pages(slots'[i]) : page'[p] = "none"
  <2>1. i \in Indices /\ Held(slots[i]) /\ Same(i)
    BY <1>3 DEF Frame
  <2>2. slots'[i] = slots[i] /\ \A p \in Pages(slots[i]) : page'[p] = page[p]
    BY <2>1 DEF Same
  <2> QED BY <1>1, <2>1, <2>2, GuardedSame
<1>4. CASE Frame({})
  BY <1>3, <1>4 DEF Held
<1>5. CASE Carve /\ pc' # "stopped"
  <2>1. Frame({full}) /\ slots'[full].state = "IN_USE" /\ Guarded(slots'[full], page')
    BY <1>5, CarveFrame DEF PagesInv
  <2>2. ~ Protected(slots'[full])
    BY <2>1 DEF Protected
  <2> QED BY <1>3, <2>1, <2>2 DEF Held
<1>6. CASE Release
  <2>1. Frame({full})
    BY <1>6, ReleaseFrame
  <2>2. /\ full \in Indices /\ slots[full].state \in {"FREE", "IN_USE"}
        /\ \/ slots'[full].state = "EMPTY"
           \/ /\ slots'[full] = [slots[full] EXCEPT !.state = "ALL_PROTECTED"]
              /\ \A p \in Pages(slots[full]) : page'[p] = "none"
    BY <1>6, ReleaseEffect
  <2>3. CASE slots'[full].state = "EMPTY"
    BY <1>3, <2>1, <2>3 DEF Held, Protected
  <2>4. CASE /\ slots'[full] = [slots[full] EXCEPT !.state = "ALL_PROTECTED"]
             /\ \A p \in Pages(slots[full]) : page'[p] = "none"
    <3>1. slots[full] \in Slot
      BY <2>2 DEF IInv, MemoryOK
    <3>2. Protected(slots'[full]) /\ Pages(slots'[full]) = Pages(slots[full])
      BY <2>4, <3>1 DEF Slot, Protected, Pages
    <3> QED BY <1>3, <2>1, <2>4, <3>2 DEF Held
  <2> QED BY <2>2, <2>3, <2>4
<1>7. CASE ReduceToBegin \/ ReduceToEmpty
  <2>1. PICK k \in Indices :
          /\ Frame({k}) /\ Protected(slots[k])
          /\ slots'[k].state \in {"BEGIN_PROTECTED", "EMPTY"}
          /\ Pages(slots'[k]) \subseteq Pages(slots[k])
          /\ \A p \in Pages(slots'[k]) : page'[p] = page[p]
    BY <1>7, ReduceFrame
  <2>2. /\ Held(slots'[k]) => Protected(slots'[k])
        /\ \A p \in Pages(slots'[k]) : page'[p] = "none"
    BY <1>1, <2>1 DEF Held, Protected
  <2> QED BY <1>3, <2>1, <2>2 DEF Held
<1> QED BY <1>4, <1>5, <1>6, <1>7, StepFrame

LEMMA InitPages ==
  ASSUME Init
  PROVE  PagesInv
<1>1. \A i \in Indices : ~ Held(slots[i])
  BY HeapAssumption
     DEF Init, Indices, FirstTable, FirstFree, EmptySlot, Held, Protected
<1>2. OpenListed
  <2> SUFFICES ASSUME NEW p \in 1 .. NPages, page[p] = "rw"
               PROVE  Listed(p)
    BY DEF OpenListed
  <2>1. p = 3
    BY DEF Init
  <2>2. 1 \in Indices /\ slots[1] = FirstTable
    BY HeapAssumption DEF Init, Indices
  <2>3. p \in Pages(FirstTable)
    BY <2>1 DEF FirstTable, Pages
  <2> QED BY <2>2, <2>3 DEF Listed
<1>3. \A p \in Mapped \ UNION {Pages(slots[i]) : i \in Indices} : page[p] = "none"
  BY <1>2, InitInv, UnlistedClosed
<1> QED BY <1>1, <1>3
        DEF Init, NoRequest, PagesInv, RequestFits, GuardPages, FreedHidden,
            InUse, In, Held, Protected

LEMMA PagesInductive ==
  ASSUME NoSpill
  PROVE  Spec => [](IInv /\ TInv /\ PagesInv)
<1>1. Init => IInv /\ TInv /\ PagesInv
  BY InitInv, InitTables, InitPages
<1>2. IInv /\ TInv /\ PagesInv /\ [Next]_vars => (IInv /\ TInv /\ PagesInv)'
  BY NextInv, NextTables, RequestStep, PagesStep DEF PagesInv
<1> QED BY <1>1, <1>2, PTL DEF Spec

(* While a buffer is in use the program can access every byte of it, and    *)
(* the page next to it is dead: _duma_allocate() makes it so, and no later  *)
(* call, split, release, reduction or exchange of the table changes it.     *)
THEOREM Guards ==
  ASSUME NoSpill
  PROVE  Spec => []GuardPages
BY PagesInductive, PTL DEF PagesInv

(* Freed memory that is kept stays inaccessible until it is given back, and *)
(* what munmap() did not take stays inaccessible for good.                  *)
THEOREM Hidden ==
  ASSUME NoSpill
  PROVE  Spec => []FreedHidden
BY PagesInductive, PTL DEF PagesInv

(* No step touches a buffer in use, its slot or the access to its pages,    *)
(* except the release of that buffer by a call that names its address.      *)
THEOREM Untouched ==
  ASSUME NoSpill
  PROVE  Spec => LiveUntouched
<1> DEFINE Live == \A i \in InUse :
                     \/ /\ slots'[i] = slots[i]
                        /\ \A p \in Pages(slots[i]) : page'[p] = page[p]
                     \/ pc = "release" /\ i = full /\ slots[i].user = addr
<1>1. IInv /\ TInv /\ PagesInv /\ [Next]_vars => Live
  <2> SUFFICES ASSUME IInv, TInv, PagesInv, [Next]_vars, NEW i \in InUse
               PROVE  Same(i) \/ (pc = "release" /\ i = full /\ slots[i].user = addr)
    BY DEF Same
  <2>1. i \in Indices /\ Held(slots[i]) /\ ~ Protected(slots[i])
    BY DEF InUse, Held, Protected
  <2>2. CASE Frame({})
    BY <2>1, <2>2 DEF Frame
  <2>3. CASE Carve /\ pc' # "stopped"
    BY <2>1, <2>3, CarveFrame DEF Frame, PagesInv
  <2>4. CASE Release
    <3>1. Frame({full}) /\ pc = "release"
      BY <2>4, ReleaseFrame DEF Release
    <3>2. slots[full].user = addr
      BY <3>1 DEF TInv, Released, AtRelease
    <3> QED BY <2>1, <3>1, <3>2 DEF Frame
  <2>5. CASE ReduceToBegin \/ ReduceToEmpty
    BY <2>1, <2>5, ReduceFrame DEF Frame
  <2> QED BY <2>2, <2>3, <2>4, <2>5, StepFrame
<1>2. Spec => [][Live]_vars
  BY <1>1, PagesInductive, PTL DEF Spec
<1> QED BY <1>2 DEF LiveUntouched

-----------------------------------------------------------------------------
(* The account of the protected memory.                                     *)

PendingKB == IF pc = "reduce" THEN red.got ELSE 0

Accounted ==
  /\ KBOf(Cardinality(ProtectedPages)) + PendingKB <= sumProtectedMem
  /\ PROTECT_FREE >= 0 => sumProtectedMem <= PROTECT_FREE

LEMMA ProtectedFinite ==
  ASSUME IInv
  PROVE  /\ IsFiniteSet(ProtectedPages) /\ Cardinality(ProtectedPages) \in Nat
         /\ \A p : p \in ProtectedPages <=>
                   \E i \in Indices : Protected(slots[i]) /\ p \in Pages(slots[i])
<1>1. \A p : p \in ProtectedPages <=>
            \E i \in Indices : Protected(slots[i]) /\ p \in Pages(slots[i])
  BY DEF ProtectedPages, In, Protected
<1>2. ProtectedPages \subseteq 1 .. NPages
  BY <1>1, SlotPageFacts
<1>3. IsFiniteSet(1 .. NPages)
  BY FS_Interval, HeapAssumption
<1>4. IsFiniteSet(ProtectedPages)
  BY <1>2, <1>3, FS_Subset
<1> QED BY <1>1, <1>4, FS_CardinalityType

(* Pages that are taken away from a set, and pages that are added to one.   *)
LEMMA CardinalityWithout ==
  ASSUME NEW S, IsFiniteSet(S), NEW a \in Int, NEW n \in Nat,
         a .. a + n - 1 \subseteq S, NEW T, T \subseteq S,
         \A p \in a .. a + n - 1 : p \notin T
  PROVE  Cardinality(T) + n <= Cardinality(S)
<1> DEFINE I == a .. a + n - 1
<1>1. Cardinality(I) = n /\ IsFiniteSet(I)
  <2>1. a + n - 1 \in Int
    OBVIOUS
  <2>2. Cardinality(I) = IF a > a + n - 1 THEN 0 ELSE (a + n - 1) - a + 1
    BY <2>1, FS_Interval
  <2>3. IsFiniteSet(I)
    BY <2>1, FS_Interval
  <2> QED BY <2>2, <2>3
<1> HIDE DEF I
<1>2. IsFiniteSet(S \ I) /\ Cardinality(S \ I) = Cardinality(S) - Cardinality(S \cap I)
  BY FS_Difference
<1>3. S \cap I = I /\ T \in SUBSET (S \ I)
  BY Zenon DEF I
<1>4. IsFiniteSet(T) /\ Cardinality(T) <= Cardinality(S \ I)
  BY <1>2, <1>3, FS_Subset
<1>5. Cardinality(S) \in Nat /\ Cardinality(T) \in Nat
  BY <1>4, FS_CardinalityType
<1>6. Cardinality(S \cap I) = n
  BY <1>1, <1>3
<1>7. Cardinality(S \ I) = Cardinality(S) - n
  BY <1>2, <1>6
<1> QED BY <1>4, <1>5, <1>7

LEMMA CardinalityWith ==
  ASSUME NEW S, IsFiniteSet(S), NEW a \in Int, NEW n \in Nat,
         NEW T, T \subseteq S \cup (a .. a + n - 1)
  PROVE  Cardinality(T) <= Cardinality(S) + n /\ Cardinality(T) \in Nat
<1> DEFINE I == a .. a + n - 1
<1>1. Cardinality(I) = n /\ IsFiniteSet(I)
  <2>1. a + n - 1 \in Int
    OBVIOUS
  <2>2. Cardinality(I) = IF a > a + n - 1 THEN 0 ELSE (a + n - 1) - a + 1
    BY <2>1, FS_Interval
  <2>3. IsFiniteSet(I)
    BY <2>1, FS_Interval
  <2> QED BY <2>2, <2>3
<1>2. T \in SUBSET (S \cup I)
  OBVIOUS
<1> HIDE DEF I
<1>3. /\ IsFiniteSet(S \cup I)
      /\ Cardinality(S \cup I) = Cardinality(S) + Cardinality(I) - Cardinality(S \cap I)
  BY <1>1, FS_Union
<1>4. IsFiniteSet(T) /\ Cardinality(T) <= Cardinality(S \cup I)
  BY <1>2, <1>3, FS_Subset
<1>5. S \cap I \in SUBSET S
  OBVIOUS
<1>6. IsFiniteSet(S \cap I)
  BY <1>5, FS_Subset
<1>7. /\ Cardinality(S) \in Nat /\ Cardinality(T) \in Nat
      /\ Cardinality(S \cap I) \in Nat
  BY <1>4, <1>6, FS_CardinalityType
<1> QED BY <1>1, <1>3, <1>4, <1>7

LEMMA KBFacts ==
  ASSUME NEW m \in Nat, NEW n \in Nat, NEW k \in Nat
  PROVE  /\ KBOf(n) \in Nat
         /\ m + k <= n => KBOf(m) + KBOf(k) <= KBOf(n)
         /\ m <= n + k => KBOf(m) <= KBOf(n) + KBOf(k)
<1>1. KBPerPage \in Nat
  BY AddrAssumption
<1> DEFINE c == KBPerPage
<1> HIDE DEF c
<1>2. c \in Nat
  BY <1>1 DEF c
<1>3. \A x, y \in Nat : x * c \in Nat /\ (x + y) * c = x * c + y * c
  BY <1>2
<1>4. \A x, y \in Nat : x <= y => x * c <= y * c
  BY <1>2
<1>5. m + k <= n => m * c + k * c <= n * c
  <2>1. m + k \in Nat
    OBVIOUS
  <2> QED BY <1>3, <1>4, <2>1
<1>6. m <= n + k => m * c <= n * c + k * c
  <2>1. n + k \in Nat
    OBVIOUS
  <2> QED BY <1>3, <1>4, <2>1
<1> QED BY <1>3, <1>5, <1>6 DEF KBOf, c

(* A step that protects nothing more and gives nothing up.                  *)
LEMMA QuietAccount ==
  ASSUME IInv, Accounted, ProtectedPages' \subseteq ProtectedPages,
         sumProtectedMem' = sumProtectedMem,
         pc' = "reduce" => red'.got = 0 \/ (pc = "reduce" /\ red' = red)
  PROVE  Accounted'
<1> DEFINE m == Cardinality(ProtectedPages')
           n == Cardinality(ProtectedPages)
<1>1. m \in Nat /\ n \in Nat /\ m <= n
  <2>1. IsFiniteSet(ProtectedPages) /\ n \in Nat
    BY ProtectedFinite
  <2>2. ProtectedPages' \in SUBSET ProtectedPages
    OBVIOUS
  <2>3. IsFiniteSet(ProtectedPages') /\ m <= n
    BY <2>1, <2>2, FS_Subset
  <2> QED BY <2>1, <2>3, FS_CardinalityType
<1>2. sumProtectedMem \in Int /\ PendingKB \in Nat
  BY DEF IInv, Scalars, Reduction, PendingKB
<1>3. PendingKB' \in {0, PendingKB}
  BY DEF PendingKB
<1>4. KBOf(n) + PendingKB <= sumProtectedMem
      /\ (PROTECT_FREE >= 0 => sumProtectedMem <= PROTECT_FREE)
  BY DEF Accounted
<1> HIDE DEF m, n
<1>5. KBOf(m) <= KBOf(n) /\ KBOf(m) \in Nat /\ KBOf(n) \in Nat
  <2>1. KBOf(0) = 0
    BY AddrAssumption DEF KBOf
  <2>2. m <= n + 0
    BY <1>1
  <2>3. KBOf(m) <= KBOf(n) + KBOf(0)
    BY <1>1, <2>2, KBFacts
  <2>4. KBOf(m) \in Nat /\ KBOf(n) \in Nat
    BY <1>1, KBFacts
  <2> QED BY <2>1, <2>3, <2>4
<1>6. KBOf(m) + PendingKB' <= sumProtectedMem
  BY <1>2, <1>3, <1>4, <1>5
<1> QED BY <1>4, <1>6 DEF Accounted, m

(* One round of reduceProtectedMemory() takes as much off the pages kept as *)
(* it adds to what it has given back.                                       *)
LEMMA ReducedAccount ==
  ASSUME IInv, Accounted, pc = "reduce", NEW k \in Nat, Reduced(KBOf(k)),
         Cardinality(ProtectedPages') \in Nat,
         Cardinality(ProtectedPages') + k <= Cardinality(ProtectedPages)
  PROVE  Accounted'
<1> DEFINE m == Cardinality(ProtectedPages')
           n == Cardinality(ProtectedPages)
           kB == KBOf(k)
<1>1. m \in Nat /\ n \in Nat /\ m + k <= n
  BY ProtectedFinite
<1>2. KBOf(m) + kB <= KBOf(n) /\ KBOf(m) \in Nat /\ KBOf(n) \in Nat /\ kB \in Nat
  <2> HIDE DEF m, n
  <2> QED BY <1>1, KBFacts
<1>3. /\ red \in Reduction /\ red.got \in Nat /\ red.from # "reduce"
      /\ sumProtectedMem \in Int /\ PROTECT_FREE \in Int
  BY HeapAssumption DEF IInv, Scalars, Reduction
<1>4. /\ KBOf(n) + red.got <= sumProtectedMem
      /\ PROTECT_FREE >= 0 => sumProtectedMem <= PROTECT_FREE
  BY DEF Accounted, PendingKB
<1>5. CASE red.got + kB >= red.want
  <2>1. sumProtectedMem' = sumProtectedMem - (red.got + kB) /\ pc' = red.from
    BY <1>5 DEF Reduced
  <2>2. PendingKB' = 0
    BY <1>3, <2>1 DEF PendingKB
  <2> HIDE DEF m, n, kB
  <2>3. KBOf(m) <= sumProtectedMem'
        /\ (PROTECT_FREE >= 0 => sumProtectedMem' <= PROTECT_FREE)
    BY <1>2, <1>3, <1>4, <2>1
  <2> QED BY <1>2, <2>2, <2>3 DEF Accounted, m
<1>6. CASE ~ (red.got + kB >= red.want)
  <2>1. /\ sumProtectedMem' = sumProtectedMem /\ pc' = pc
        /\ red' = [red EXCEPT !.got = red.got + kB]
    BY <1>6 DEF Reduced
  <2>2. PendingKB' = red.got + kB
    BY <1>3, <2>1 DEF PendingKB, Reduction
  <2> HIDE DEF m, n, kB
  <2>3. KBOf(m) + (red.got + kB) <= sumProtectedMem
    BY <1>2, <1>3, <1>4
  <2> QED BY <1>4, <2>1, <2>2, <2>3 DEF Accounted, m
<1> QED BY <1>5, <1>6

LEMMA CarveAccount ==
  ASSUME IInv, Accounted, Carve
  PROVE  Accounted'
<1>1. pc = "carve" /\ sumProtectedMem' = sumProtectedMem /\ pc' # "reduce"
  BY DEF Carve, Stop, mem, AfterAllocate
<1>2. ProtectedPages' \subseteq ProtectedPages
  <2>1. CASE pc' = "stopped"
    <3>1. UNCHANGED mem
      BY <2>1 DEF Carve, Stop, AfterAllocate
    <3> QED BY <3>1 DEF mem, ProtectedPages, In, Indices
  <2>2. CASE pc' # "stopped"
    <3>1. /\ Indices' = Indices /\ full \in Indices
          /\ \A i \in Indices \ {full} : \/ slots'[i] = slots[i]
                                         \/ slots'[i].state = "FREE"
      BY <2>2, CarveEffect
    <3>2. slots'[full].state = "IN_USE"
      BY <2>2, CarveEffect DEF UsedSlot
    <3> QED BY <3>1, <3>2 DEF ProtectedPages, In
  <2> QED BY <2>1, <2>2
<1> QED BY <1>1, <1>2, QuietAccount

LEMMA ReleaseAccount ==
  ASSUME IInv, Accounted, Release
  PROVE  Accounted'
<1> DEFINE s == slots[full]
<1>1. /\ full \in Indices /\ Indices' = Indices /\ pc' # "reduce"
      /\ \A i \in Indices \ {full} : slots'[i] = slots[i]
  BY ReleaseEffect DEF AfterDeallocate
<1>2. s \in Slot /\ s.len \in Nat /\ s.base \in Nat /\ slots \in [Indices -> Slot]
  BY <1>1 DEF IInv, MemoryOK, Slot
<1>3. CASE /\ MayProtect(s)
           /\ slots' = [slots EXCEPT ![full].state = "ALL_PROTECTED"]
           /\ sumProtectedMem' = sumProtectedMem + KBOf(s.len)
  <2> DEFINE m == Cardinality(ProtectedPages')
             n == Cardinality(ProtectedPages)
  <2>1. slots'[full] = [s EXCEPT !.state = "ALL_PROTECTED"]
    BY <1>1, <1>2, <1>3
  <2>2. Pages(slots'[full]) = s.base .. s.base + s.len - 1
    BY <1>2, <2>1 DEF Slot, Pages
  <2>3. ProtectedPages' \subseteq ProtectedPages \cup (s.base .. s.base + s.len - 1)
    BY <1>1, <2>2 DEF ProtectedPages, In
  <2>4. IsFiniteSet(ProtectedPages) /\ n \in Nat
    BY ProtectedFinite
  <2>5. m \in Nat /\ m <= n + s.len
    <3> HIDE DEF s
    <3> QED BY <1>2, <2>3, <2>4, CardinalityWith
  <2> HIDE DEF m, n, s
  <2>6. KBOf(m) <= KBOf(n) + KBOf(s.len)
    BY <1>2, <2>4, <2>5, KBFacts
  <2>7. KBOf(m) \in Nat /\ KBOf(n) \in Nat /\ KBOf(s.len) \in Nat
    BY <1>2, <2>4, <2>5, KBFacts
  <2>8. /\ KBOf(n) <= sumProtectedMem
        /\ sumProtectedMem \in Int
    <3>1. PendingKB \in Nat /\ sumProtectedMem \in Int
      BY DEF PendingKB, IInv, Scalars, Reduction
    <3> QED BY <2>7, <3>1 DEF Accounted, n
  <2>9. PROTECT_FREE >= 0 => sumProtectedMem + KBOf(s.len) <= PROTECT_FREE
    BY <1>3, HeapAssumption DEF MayProtect
  <2>10. PendingKB' = 0
    BY <1>1 DEF PendingKB
  <2>11. KBOf(m) <= sumProtectedMem'
    BY <1>3, <2>6, <2>7, <2>8
  <2> QED BY <1>3, <2>7, <2>9, <2>10, <2>11 DEF Accounted, m
<1>4. CASE slots' = [slots EXCEPT ![full] = EmptySlot] /\ UNCHANGED sumProtectedMem
  <2>1. slots'[full].state = "EMPTY"
    BY <1>1, <1>2, <1>4 DEF EmptySlot
  <2>2. ProtectedPages' \subseteq ProtectedPages
    BY <1>1, <2>1 DEF ProtectedPages, In
  <2> QED BY <1>1, <1>4, <2>2, QuietAccount
<1> QED BY <1>3, <1>4 DEF Release

LEMMA ReduceToBeginAccount ==
  ASSUME IInv, Accounted, ReduceToBegin
  PROVE  Accounted'
<1>1. PICK i \in Indices :
        /\ IsFirst(i, In({"ALL_PROTECTED"}))
        /\ slots' = [slots EXCEPT ![i] =
                       [@ EXCEPT !.state = "BEGIN_PROTECTED",
                                 !.len = KeptLen(slots[i])]]
        /\ Reduced(CutKB(slots[i]))
  BY DEF ReduceToBegin
<1> DEFINE s == slots[i]
           k == KeptLen(s)
           t == [s EXCEPT !.state = "BEGIN_PROTECTED", !.len = k]
           c == s.len - k
<1>2. /\ s.state = "ALL_PROTECTED" /\ s \in Slot /\ SlotOK(s)
      /\ slots \in [Indices -> Slot] /\ pc = "reduce"
  BY <1>1 DEF IsFirst, In, IInv, MemoryOK, ReduceToBegin
<1>3. /\ slots'[i] = t /\ \A j \in Indices \ {i} : slots'[j] = slots[j]
      /\ Indices' = Indices
  BY <1>1, <1>2 DEF ReduceToBegin, Indices
<1>4. t.base = s.base /\ t.len = k
  BY <1>2 DEF Slot
<1>5. /\ k \in Nat /\ k <= s.len /\ s.base \in Nat /\ s.len \in Nat
  BY <1>2 DEF KeptLen, Slot, SlotOK, Pages
<1> HIDE DEF k, t
<1>6. /\ Pages(t) = s.base .. s.base + k - 1
      /\ Pages(s) = s.base .. s.base + s.len - 1
  BY <1>4 DEF Pages
<1>7. c \in Nat /\ s.base + k \in Int /\ s.base + k + c - 1 = s.base + s.len - 1
  BY <1>5
<1> HIDE DEF s
<1> HIDE DEF c
<1>8. /\ Pages(t) \subseteq Pages(s)
      /\ s.base + k .. s.base + k + c - 1 \subseteq Pages(s)
      /\ \A p \in s.base + k .. s.base + k + c - 1 : p \notin Pages(t)
  <2>1. s.base + k .. s.base + k + c - 1 = s.base + k .. s.base + s.len - 1
    BY <1>7
  <2>2. Pages(t) \subseteq Pages(s)
    BY <1>5, <1>6
  <2>3. s.base + k .. s.base + s.len - 1 \subseteq Pages(s)
    BY <1>5, <1>6
  <2>4. \A p \in s.base + k .. s.base + s.len - 1 : p \notin Pages(t)
    BY <1>5, <1>6
  <2> QED BY <2>1, <2>2, <2>3, <2>4
<1>9. /\ s.base + k .. s.base + k + c - 1 \subseteq ProtectedPages
      /\ ProtectedPages' \subseteq ProtectedPages
  BY <1>2, <1>3, <1>8 DEF s, ProtectedPages, In
<1>10. ASSUME NEW p \in s.base + k .. s.base + k + c - 1
       PROVE  p \notin ProtectedPages'
  <2> SUFFICES ASSUME p \in ProtectedPages' PROVE FALSE
    OBVIOUS
  <2>1. PICK j \in Indices : p \in Pages(slots'[j])
    BY <1>3 DEF ProtectedPages, In
  <2>2. j # i
    BY <1>3, <1>8, <2>1
  <2> QED BY <1>3, <1>8, <2>1, <2>2, SlotPageFacts DEF s
<1>11. /\ Cardinality(ProtectedPages') \in Nat
       /\ Cardinality(ProtectedPages') + c <= Cardinality(ProtectedPages)
  <2>1. IsFiniteSet(ProtectedPages)
    BY ProtectedFinite
  <2>2. IsFiniteSet(ProtectedPages')
    BY <1>9, <2>1, FS_Subset
  <2>3. \A p \in s.base + k .. s.base + k + c - 1 : p \notin ProtectedPages'
    BY <1>10
  <2>4. Cardinality(ProtectedPages') + c <= Cardinality(ProtectedPages)
    <3> DEFINE T == ProtectedPages'
               a == s.base + k
    <3> HIDE DEF T, a
    <3>1. /\ a \in Int /\ c \in Nat /\ a .. a + c - 1 \subseteq ProtectedPages
          /\ T \subseteq ProtectedPages /\ \A p \in a .. a + c - 1 : p \notin T
      BY <1>7, <1>9, <2>3 DEF T, a
    <3>2. Cardinality(T) + c <= Cardinality(ProtectedPages)
      BY <2>1, <3>1, CardinalityWithout
    <3> QED BY <3>2 DEF T
  <2> QED BY <2>2, <2>4, FS_CardinalityType
<1>12. Reduced(KBOf(c))
  BY <1>1 DEF CutKB, c, k, s
<1> QED BY <1>2, <1>7, <1>11, <1>12, ReducedAccount

LEMMA ReduceToEmptyAccount ==
  ASSUME IInv, Accounted, ReduceToEmpty
  PROVE  Accounted'
<1>1. PICK i \in Indices :
        /\ IsFirst(i, In({"BEGIN_PROTECTED"}))
        /\ slots' = [slots EXCEPT ![i] = EmptySlot]
        /\ Reduced(KBOf(slots[i].len))
  BY DEF ReduceToEmpty
<1> DEFINE s == slots[i]
<1>2. /\ s.state = "BEGIN_PROTECTED" /\ s \in Slot
      /\ slots \in [Indices -> Slot] /\ pc = "reduce"
  BY <1>1 DEF IsFirst, In, IInv, MemoryOK, ReduceToEmpty
<1>3. /\ slots'[i] = EmptySlot /\ \A j \in Indices \ {i} : slots'[j] = slots[j]
      /\ Indices' = Indices
  BY <1>1, <1>2 DEF ReduceToEmpty, Indices
<1>4. s.base \in Nat /\ s.len \in Nat /\ Pages(s) = s.base .. s.base + s.len - 1
  BY <1>2 DEF Slot, Pages
<1> HIDE DEF s
<1>5. /\ Pages(s) \subseteq ProtectedPages
      /\ ProtectedPages' \subseteq ProtectedPages
  BY <1>2, <1>3, EmptySlotFacts DEF s, ProtectedPages, In
<1>6. ASSUME NEW p \in Pages(s)
      PROVE  p \notin ProtectedPages'
  <2> SUFFICES ASSUME p \in ProtectedPages' PROVE FALSE
    OBVIOUS
  <2>1. PICK j \in Indices : p \in Pages(slots'[j])
    BY <1>3 DEF ProtectedPages, In
  <2>2. j # i
    BY <1>3, <2>1, EmptySlotFacts
  <2> QED BY <1>3, <1>6, <2>1, <2>2, SlotPageFacts DEF s
<1>7. /\ Cardinality(ProtectedPages') \in Nat
      /\ Cardinality(ProtectedPages') + s.len <= Cardinality(ProtectedPages)
  <2>1. IsFiniteSet(ProtectedPages)
    BY ProtectedFinite
  <2>2. IsFiniteSet(ProtectedPages')
    BY <1>5, <2>1, FS_Subset
  <2>3. Cardinality(ProtectedPages') + s.len <= Cardinality(ProtectedPages)
    <3> DEFINE T == ProtectedPages'
               a == s.base
               n == s.len
    <3> HIDE DEF T, a, n
    <3>1. /\ a \in Int /\ n \in Nat /\ a .. a + n - 1 \subseteq ProtectedPages
          /\ T \subseteq ProtectedPages /\ \A p \in a .. a + n - 1 : p \notin T
      BY <1>4, <1>5, <1>6 DEF T, a, n
    <3>2. Cardinality(T) + n <= Cardinality(ProtectedPages)
      BY <2>1, <3>1, CardinalityWithout
    <3> QED BY <3>2 DEF T, n
  <2> QED BY <2>2, <2>3, FS_CardinalityType
<1> QED BY <1>1, <1>2, <1>4, <1>7, ReducedAccount DEF s

(* A step that leaves the blocks that are held alone protects no pages.     *)
LEMMA FrameProtects ==
  ASSUME Frame({})
  PROVE  ProtectedPages' \subseteq ProtectedPages
<1>1. ASSUME NEW i \in Indices', Protected(slots'[i])
      PROVE  i \in Indices /\ Protected(slots[i]) /\ slots'[i] = slots[i]
  BY <1>1 DEF Frame, Held, Same
<1> QED BY <1>1 DEF ProtectedPages, In, Protected

(* Only releases and reductions change sumProtectedMem, and a reduction     *)
(* begins with nothing given back.                                          *)
LEMMA CallSums ==
  ASSUME CallAny
  PROVE  sumProtectedMem' = sumProtectedMem /\ pc' # "reduce"
<1> DEFINE Quiet == sumProtectedMem' = sumProtectedMem /\ pc' # "reduce"
<1>1. ASSUME NEW reason, Stop(reason) PROVE Quiet
  BY <1>1 DEF Stop, mem
<1>2. ASSUME NEW r, NEW opened \in BOOLEAN, BeginAllocate(r, opened) PROVE Quiet
  BY <1>1, <1>2 DEF BeginAllocate
<1>3. ASSUME NEW a, NEW r, BeginDeallocate(a, r) PROVE Quiet
  BY <1>3 DEF BeginDeallocate
<1>4. ASSUME pc = "idle", UNCHANGED pc, UnchangedButPage \/ UNCHANGED mem
      PROVE  Quiet
  BY <1>4 DEF UnchangedButPage, mem
<1> HIDE DEF Quiet
<1>6. ASSUME NEW n, NEW t, NEW b, Allocate(n, t, b) PROVE Quiet
  BY <1>2, <1>6 DEF Allocate
<1>7. ASSUME NEW a, NEW n, NEW b, Memalign(a, n, b) PROVE Quiet
  BY <1>2, <1>7 DEF Memalign
<1>14. ASSUME NEW a, NEW n, NEW b, PosixMemalign(a, n, b) PROVE Quiet
  BY <1>4, <1>7, <1>14 DEF PosixMemalign, NextCall
<1>8. ASSUME NEW p, NEW n, NEW b, Realloc(p, n, b) PROVE Quiet
  BY <1>2, <1>3, <1>8 DEF Realloc
<1>9. ASSUME NEW p, NEW t, Free(p, t) PROVE Quiet
  BY <1>3, <1>4, <1>9 DEF Free, NextCall
<1>10. ASSUME NEW p, Check(p) PROVE Quiet
  BY <1>1, <1>4, <1>10 DEF Check
<1>11. ASSUME NEW p, MallocUsableSize(p) PROVE Quiet
  BY <1>1, <1>4, <1>11 DEF MallocUsableSize
<1>12. ASSUME CheckAll PROVE Quiet
  BY <1>4, <1>12 DEF CheckAll
<1>13. Quiet
  BY <1>6, <1>7, <1>8, <1>9, <1>10, <1>11, <1>12, <1>14 DEF CallAny
<1> QED BY <1>13 DEF Quiet

LEMMA StepSums ==
  ASSUME IInv, [Next]_vars
  PROVE  \/ /\ sumProtectedMem' = sumProtectedMem
            /\ pc' = "reduce" => red'.got = 0 \/ (pc = "reduce" /\ red' = red)
         \/ Carve \/ Release \/ ReduceToBegin \/ ReduceToEmpty
<1> DEFINE Quiet ==
      /\ sumProtectedMem' = sumProtectedMem
      /\ pc' = "reduce" => red'.got = 0 \/ (pc = "reduce" /\ red' = red)
<1>1. ASSUME NEW reason, Stop(reason) PROVE Quiet
  BY <1>1 DEF Stop, mem
<1>2. ASSUME NEW kB, NEW from, Reduce(kB, from), UNCHANGED mem PROVE Quiet
  BY <1>2 DEF Reduce, mem
<1>3. ASSUME UNCHANGED mem, pc' # "reduce" PROVE Quiet
  BY <1>3 DEF mem
<1>4. CASE CallAny
  BY <1>4, CallSums
<1>5. CASE SearchFound
  BY <1>3, <1>5 DEF SearchFound
<1>6. CASE SearchFailed
  <2>1. \/ Stop("no empty slot")
        \/ /\ \/ Reduce(KBOf(ChunkPages(Current)), "create")
              \/ pc' = "create" /\ red' = red
           /\ UNCHANGED <<mem, req, growing, addr, why>>
    BY <1>6 DEF SearchFailed
  <2> QED BY <1>1, <1>2, <1>3, <2>1
<1>7. CASE Create \/ Retry \/ Last
  <2>1. CASE Created
    BY <2>1 DEF Created
  <2>2. ASSUME NoMemory PROVE Quiet
    BY <2>2 DEF NoMemory, mem
  <2> HIDE DEF Quiet
  <2>3. ASSUME NEW n, CreateFailed(n) PROVE Quiet
    BY <1>2, <2>2, <2>3 DEF CreateFailed
  <2>4. ASSUME NEW n, RetryFailed(n) PROVE Quiet
    BY <1>2, <1>3, <2>2, <2>4 DEF RetryFailed
  <2>5. ASSUME NEW n, LastFailed(n) PROVE Quiet
    BY <1>1, <2>2, <2>5 DEF LastFailed
  <2> QED BY <1>7, <2>1, <2>3, <2>4, <2>5 DEF Create, Retry, Last, Quiet
<1>8. CASE Swap
  BY <1>8 DEF Swap
<1>9. CASE Move
  <2>1. \/ Stop("unknown address") \/ Stop("segmentation fault")
        \/ pc' = "dealloc" /\ UNCHANGED mem
    BY <1>9 DEF Move
  <2> QED BY <1>1, <1>3, <2>1
<1>10. CASE Deallocate
  <2>1. \/ Stop("unknown address") \/ Stop("already freed")
        \/ Stop("free mismatch")
        \/ pc' \in {"leave", "release"} /\ UNCHANGED mem
        \/ \E kB : Reduce(kB, "release") /\ UNCHANGED mem
    BY <1>10 DEF Deallocate
  <2> QED BY <1>1, <1>2, <1>3, <2>1
<1>11. CASE ReduceExhausted
  <2>1. red.from # "reduce"
    BY DEF IInv, Scalars, Reduction
  <2> QED BY <1>3, <1>11, <2>1 DEF ReduceExhausted
<1>12. CASE Leave
  BY <1>12 DEF Leave
<1>13. CASE UNCHANGED vars
  BY <1>13 DEF vars, mem, ctl
<1> QED BY <1>4, <1>5, <1>6, <1>7, <1>8, <1>9, <1>10, <1>11, <1>12, <1>13
        DEF Next, Step, Finished

LEMMA AccountStep ==
  ASSUME IInv, TInv, Accounted, [Next]_vars
  PROVE  Accounted'
<1>1. CASE Carve
  BY <1>1, CarveAccount
<1>2. CASE Release
  BY <1>2, ReleaseAccount
<1>3. CASE ReduceToBegin \/ ReduceToEmpty
  BY <1>3, ReduceToBeginAccount, ReduceToEmptyAccount
<1>4. CASE ~ (Carve \/ Release \/ ReduceToBegin \/ ReduceToEmpty)
  <2>1. ProtectedPages' \subseteq ProtectedPages
    BY <1>4, StepFrame, FrameProtects
  <2> QED BY <1>4, <2>1, StepSums, QuietAccount
<1> QED BY <1>1, <1>2, <1>3, <1>4

LEMMA InitAccount ==
  ASSUME Init
  PROVE  Accounted
<1>1. \A i \in Indices : ~ Protected(slots[i])
  BY HeapAssumption
     DEF Init, Indices, FirstTable, FirstFree, EmptySlot, Protected
<1>2. ProtectedPages = {}
  BY <1>1 DEF ProtectedPages, In, Protected
<1>3. KBOf(Cardinality(ProtectedPages)) = 0
  BY <1>2, FS_EmptySet, AddrAssumption DEF KBOf
<1> QED BY <1>3 DEF Init, Accounted, PendingKB

(* The freed memory that is kept protected stays within DUMA_PROTECT_FREE:  *)
(* the blocks that _duma_deallocate() protects and those that               *)
(* reduceProtectedMemory() cuts and gives up are counted so that            *)
(* sumProtectedMem, less what a reduction in progress has given back        *)
(* already, covers every protected page.                                    *)
THEOREM Bounded == Spec => []ProtectedBounded
<1>1. Init => IInv /\ TInv /\ Accounted
  BY InitInv, InitTables, InitAccount
<1>2. IInv /\ TInv /\ Accounted /\ [Next]_vars => (IInv /\ TInv /\ Accounted)'
  BY NextInv, NextTables, AccountStep
<1>3. ASSUME IInv, Accounted PROVE ProtectedBounded
  <2> DEFINE kept == KBOf(Cardinality(ProtectedPages))
  <2>1. kept \in Nat
    BY <1>3, ProtectedFinite, KBFacts
  <2>2. PendingKB \in Nat /\ sumProtectedMem \in Int /\ PROTECT_FREE \in Int
    BY <1>3, HeapAssumption DEF PendingKB, IInv, Scalars, Reduction
  <2>3. /\ kept + PendingKB <= sumProtectedMem
        /\ PROTECT_FREE >= 0 => sumProtectedMem <= PROTECT_FREE
    BY <1>3 DEF Accounted
  <2> HIDE DEF kept
  <2>4. /\ kept <= sumProtectedMem
        /\ PROTECT_FREE >= 0 => kept <= PROTECT_FREE
    BY <2>1, <2>2, <2>3
  <2> QED BY <2>4 DEF ProtectedBounded, kept
<1> QED BY <1>1, <1>2, <1>3, PTL DEF Spec

-----------------------------------------------------------------------------
(* The implementation of AbstractHeap: what a step does to the blocks in    *)
(* use, to the blocks that are kept and to the task, and which abstract     *)
(* action that is.                                                          *)

(* The library keeps all freed memory and never gives it up on its own; it  *)
(* only does when the system has no room for another chunk.                 *)
Evicts == PROTECT_FREE > 0 \/ MAX_ALLOC > 0 \/ MmapMayFail

KeepsAll == PROTECT_FREE < 0 /\ ~ Evicts

Room == pc \in {"create", "retry", "last"} => ~ MmapFails(ChunkPages(Current))

(* A buffer that is kept whole still lies in the pages of its block.        *)
KeptWithin ==
  \A i \in Indices :
    slots[i].state = "ALL_PROTECTED" /\ slots[i].usz > 0 =>
      UserPages(slots[i]) \subseteq Pages(slots[i])

(* reduceProtectedMemory() runs only where freed memory may be given up.    *)
ReduceKnown == pc \in {"reduce", "retry"} => Evicts

Promised == IInv /\ TInv /\ PagesInv /\ KeptWithin /\ ReduceKnown

-----------------------------------------------------------------------------
(* The task of a state.                                                     *)

Freeing ==
  /\ ~ growing
  /\ pc \in {"dealloc", "release"} \/ (pc = "reduce" /\ red.from = "release")

Allocating == pc \notin {"idle", "stopped", "leave", "move"} /\ ~ Freeing

FreeOf(a) == [op |-> "free", addr |-> a, type |-> req.type]

AllocOf == [op |-> "alloc", size |-> req.userSize, type |-> req.type,
            alignment |-> req.alignment, old |-> req.old]

TaskShape ==
  /\ pc = "idle" => Task = [op |-> "idle"]
  /\ pc = "stopped" => Task = [op |-> "stopped"]
  /\ pc = "leave" => Task = [op |-> "done"]
  /\ pc = "move" => Task = FreeOf(req.old)
  /\ Freeing => Task = FreeOf(addr)
  /\ Allocating => Task = AllocOf

LEMMA Tasks == TaskShape /\ TaskShape'
<1>1. TaskShape
  BY DEF TaskShape, Task, Freeing, Allocating, FreeOf, AllocOf
<1>2. TaskShape'
  BY DEF TaskShape, Task, Freeing, Allocating, FreeOf, AllocOf
<1> QED BY <1>1, <1>2

-----------------------------------------------------------------------------
(* The blocks of a state.                                                   *)

Live == {Block(slots[i]) : i \in InUse}

Kept == {Block(slots[i]) : i \in In({"ALL_PROTECTED", "BEGIN_PROTECTED"})}

Implemented == [Abstract!Next]_<<Live, Kept, Task>>

(* A held slot has the page of its address, and the address is unique.      *)
LEMMA HeldFacts ==
  ASSUME IInv, FreeAddressed, NEW i \in Indices, Held(slots[i])
  PROVE  /\ slots[i] \in Slot /\ PageOf(slots[i].user) \in Pages(slots[i])
         /\ slots[i].user \in Nat /\ slots[i].user # NULL
         /\ \A j \in Indices : slots[j].user = slots[i].user => j = i
<1>1. slots[i] \in Slot /\ SlotOK(slots[i])
  BY DEF IInv, MemoryOK
<1>2. PageOf(slots[i].user) \in Pages(slots[i])
  BY <1>1 DEF SlotOK, Held, Protected
<1>3. PageOf(slots[i].user) > 2
  BY <1>1, <1>2, SlotPages
<1>4. slots[i].user # NULL
  <2>1. PageOf(0) = 0
    BY AddrAssumption DEF PageOf
  <2> QED BY <1>3, <2>1 DEF NULL
<1>5. slots[i].user \in Nat
  BY <1>1 DEF Slot
<1> QED BY <1>1, <1>2, <1>4, <1>5, SameUser

(* Every byte of a block lies in the pages of its slot.                     *)
LEMMA ExtentWithin ==
  ASSUME NEW s \in Slot, PageOf(s.user) \in Pages(s),
         s.state # "BEGIN_PROTECTED" /\ s.usz > 0 =>
           UserPages(s) \subseteq Pages(s),
         NEW x \in Abstract!Extent(Block(s))
  PROVE  PageOf(x) \in Pages(s)
<1>1. s.user \in Nat /\ s.usz \in Nat
  BY DEF Slot
<1>2. CASE s.state = "BEGIN_PROTECTED" \/ s.usz = 0
  <2>1. x = s.user
    BY <1>1, <1>2 DEF Abstract!Extent, Block
  <2> QED BY <2>1
<1>3. CASE ~ (s.state = "BEGIN_PROTECTED" \/ s.usz = 0)
  <2>1. x \in s.user .. s.user + s.usz - 1
    BY <1>1, <1>3 DEF Abstract!Extent, Block
  <2>2. x \in Int /\ s.user <= x /\ x <= s.user + s.usz - 1
        /\ s.user + s.usz - 1 \in Int
    BY <1>1, <2>1
  <2>3. /\ PageOf(x) \in Int /\ PageOf(s.user) \in Int
        /\ PageOf(s.user + s.usz - 1) \in Int
        /\ PageOf(s.user) <= PageOf(x)
        /\ PageOf(x) <= PageOf(s.user + s.usz - 1)
    BY <1>1, <2>2, PageMonotone
  <2>4. PageOf(x) \in UserPages(s)
    BY <2>3 DEF UserPages
  <2> QED BY <1>1, <1>3, <2>4
<1> QED BY <1>2, <1>3

(* The blocks of two held slots do not overlap.                             *)
LEMMA HeldWithin ==
  ASSUME Promised, NEW i \in Indices, Held(slots[i]),
         NEW x \in Abstract!Extent(Block(slots[i]))
  PROVE  PageOf(x) \in Pages(slots[i])
<1>1. slots[i] \in Slot /\ PageOf(slots[i].user) \in Pages(slots[i])
  BY HeldFacts DEF Promised, TInv
<1>2. slots[i].state # "BEGIN_PROTECTED" /\ slots[i].usz > 0 =>
        UserPages(slots[i]) \subseteq Pages(slots[i])
  BY DEF Promised, KeptWithin, PagesInv, GuardPages, InUse, Held, Protected
<1> QED BY <1>1, <1>2, ExtentWithin

(* Held slots that stay as they are, and no new ones, are the same blocks.  *)
LEMMA SameBlocks ==
  ASSUME Frame({}), Indices \subseteq Indices'
  PROVE  Live' = Live /\ Kept' = Kept
<1>1. ASSUME NEW i \in Indices, Held(slots[i])
      PROVE  i \in Indices' /\ slots'[i] = slots[i]
  BY <1>1 DEF Frame, Same
<1>2. ASSUME NEW i \in Indices', Held(slots'[i])
      PROVE  i \in Indices /\ Held(slots[i]) /\ slots'[i] = slots[i]
  BY <1>2 DEF Frame, Same
<1>3. InUse' = InUse /\ \A i \in InUse : slots'[i] = slots[i]
  BY <1>1, <1>2 DEF InUse, Held
<1>4. /\ In({"ALL_PROTECTED", "BEGIN_PROTECTED"})' =
           In({"ALL_PROTECTED", "BEGIN_PROTECTED"})
      /\ \A i \in In({"ALL_PROTECTED", "BEGIN_PROTECTED"}) : slots'[i] = slots[i]
  BY <1>1, <1>2 DEF In, Held, Protected
<1> QED BY <1>3, <1>4 DEF Live, Kept, Block

(* Only slot k changes.                                                     *)
LEMMA OtherBlocks ==
  ASSUME NEW k \in Indices, Frame({k}), Indices' = Indices
  PROVE  /\ \A b : b \in Live' <=>
                   \/ \E i \in InUse \ {k} : b = Block(slots[i])
                   \/ k \in InUse' /\ b = Block(slots'[k])
         /\ \A b : b \in Kept' <=>
                   \/ \E i \in Indices \ {k} :
                        Protected(slots[i]) /\ b = Block(slots[i])
                   \/ Protected(slots'[k]) /\ b = Block(slots'[k])
<1>1. ASSUME NEW i \in Indices \ {k}, Held(slots[i]) \/ Held(slots'[i])
      PROVE  slots'[i] = slots[i]
  BY <1>1 DEF Frame, Same
<1>2. \A i \in Indices \ {k} : i \in InUse' <=> i \in InUse
  BY <1>1 DEF InUse, Held
<1>3. \A i \in Indices \ {k} : Protected(slots'[i]) <=> Protected(slots[i])
  BY <1>1 DEF Held
<1>4. \A b : b \in Live' <=> \E i \in Indices : i \in InUse' /\ b = Block(slots'[i])
  BY DEF Live, InUse, Block
<1>5. \A b : b \in Kept' <=>
             \E i \in Indices : Protected(slots'[i]) /\ b = Block(slots'[i])
  BY DEF Kept, In, Protected, Block
<1> QED BY <1>1, <1>2, <1>3, <1>4, <1>5 DEF Held, InUse

-----------------------------------------------------------------------------
(* The invariant of the refinement.                                         *)

(* The block that _duma_deallocate() protects was a buffer in use.          *)
LEMMA ReleasedInUse ==
  ASSUME IInv, AtRelease, slots[full].alloc # "INTERNAL"
  PROVE  full \in InUse
BY DEF IInv, LocalsAgree, MemoryOK, In, InUse, SlotOK

LEMMA KeptWithinStep ==
  ASSUME Promised, [Next]_vars
  PROVE  KeptWithin'
<1>1. ASSUME NEW K, Frame(K), NEW i \in Indices' \ K,
             slots'[i].state = "ALL_PROTECTED", slots'[i].usz > 0
      PROVE  UserPages(slots'[i]) \subseteq Pages(slots'[i])
  <2>1. i \in Indices /\ slots'[i] = slots[i]
    BY <1>1 DEF Frame, Held, Protected, Same
  <2> QED BY <1>1, <2>1 DEF Promised, KeptWithin
<1>2. CASE Frame({})
  BY <1>1, <1>2 DEF KeptWithin
<1>3. CASE Carve /\ pc' # "stopped"
  BY <1>1, <1>3, CarveFrame DEF KeptWithin, Promised, PagesInv
<1>4. CASE Release
  <2>1. Frame({full}) /\ AtRelease /\ full \in Indices
    BY <1>4, ReleaseFrame, ReleaseEffect DEF AtRelease, Promised
  <2>2. CASE slots'[full].state = "EMPTY"
    BY <1>1, <2>1, <2>2 DEF KeptWithin
  <2>3. CASE /\ slots[full].alloc # "INTERNAL"
             /\ slots'[full] = [slots[full] EXCEPT !.state = "ALL_PROTECTED"]
    <3>1. full \in InUse /\ slots[full] \in Slot
      BY <2>1, <2>3, ReleasedInUse DEF Promised, IInv, MemoryOK
    <3>2. /\ slots'[full].usz = slots[full].usz
          /\ UserPages(slots'[full]) = UserPages(slots[full])
          /\ Pages(slots'[full]) = Pages(slots[full])
      BY <2>3, <3>1 DEF Slot, UserPages, Pages
    <3>3. slots'[full].usz > 0 => UserPages(slots'[full]) \subseteq Pages(slots'[full])
      BY <3>1, <3>2 DEF Promised, PagesInv, GuardPages
    <3> QED BY <1>1, <2>1, <3>3 DEF KeptWithin
  <2> QED BY <1>4, <2>2, <2>3, ReleaseEffect DEF Promised
<1>5. CASE ReduceToBegin \/ ReduceToEmpty
  <2>1. PICK k \in Indices :
          /\ Frame({k}) /\ slots'[k].state \in {"BEGIN_PROTECTED", "EMPTY"}
    BY <1>5, ReduceFrame DEF Promised
  <2> QED BY <1>1, <2>1 DEF KeptWithin
<1> QED BY <1>2, <1>3, <1>4, <1>5, StepFrame DEF Promised

LEMMA CallGoesOn ==
  ASSUME CallAny
  PROVE  /\ pc = "idle"
         /\ pc' \in {"idle", "search", "dealloc", "leave", "stopped"}
<1> DEFINE Goes == pc' \in {"idle", "search", "dealloc", "leave", "stopped"}
<1>1. ASSUME NEW reason, Stop(reason) PROVE Goes
  BY <1>1 DEF Stop
<1>2. ASSUME NEW r, NEW opened \in BOOLEAN, BeginAllocate(r, opened) PROVE Goes
  BY <1>1, <1>2 DEF BeginAllocate
<1>3. ASSUME NEW a, NEW r, BeginDeallocate(a, r) PROVE Goes
  BY <1>3 DEF BeginDeallocate
<1>4. ASSUME pc = "idle", UNCHANGED pc PROVE Goes
  BY <1>4
<1> HIDE DEF Goes
<1>5. ASSUME NEW n, NEW t, NEW b, Allocate(n, t, b) PROVE pc = "idle" /\ Goes
  BY <1>2, <1>5 DEF Allocate, NextCall
<1>6. ASSUME NEW a, NEW n, NEW b, Memalign(a, n, b) PROVE pc = "idle" /\ Goes
  BY <1>2, <1>6 DEF Memalign, NextCall
<1>13. ASSUME NEW a, NEW n, NEW b, PosixMemalign(a, n, b) PROVE pc = "idle" /\ Goes
  BY <1>4, <1>6, <1>13 DEF PosixMemalign, NextCall
<1>7. ASSUME NEW p, NEW n, NEW b, Realloc(p, n, b) PROVE pc = "idle" /\ Goes
  BY <1>2, <1>3, <1>7 DEF Realloc, NextCall
<1>8. ASSUME NEW p, NEW t, Free(p, t) PROVE pc = "idle" /\ Goes
  BY <1>3, <1>4, <1>8 DEF Free, NextCall
<1>9. ASSUME NEW p, Check(p) PROVE pc = "idle" /\ Goes
  BY <1>1, <1>4, <1>9 DEF Check
<1>10. ASSUME NEW p, MallocUsableSize(p) PROVE pc = "idle" /\ Goes
  BY <1>1, <1>4, <1>10 DEF MallocUsableSize
<1>11. ASSUME CheckAll PROVE pc = "idle" /\ Goes
  BY <1>4, <1>11 DEF CheckAll
<1>12. pc = "idle" /\ Goes
  BY <1>5, <1>6, <1>7, <1>8, <1>9, <1>10, <1>11, <1>13 DEF CallAny
<1> QED BY <1>12 DEF Goes

LEMMA ReduceKnownStep ==
  ASSUME Promised, KeepsAll => Room, [Next]_vars
  PROVE  ReduceKnown'
<1> SUFFICES ASSUME ~ Evicts, pc \notin {"reduce", "retry"}
             PROVE  pc' \notin {"reduce", "retry"}
  BY DEF ReduceKnown, Promised
<1>1. PROTECT_FREE <= 0 /\ ~ (MAX_ALLOC > 0) /\ PROTECT_FREE \in Int
  BY HeapAssumption DEF Evicts
<1>2. CASE CallAny
  BY <1>2, CallGoesOn
<1>3. CASE SearchFound \/ SearchFailed
  BY <1>1, <1>3 DEF SearchFound, SearchFailed, Stop
<1>4. CASE Create
  <2>1. CASE Created
    BY <2>1 DEF Created
  <2>2. CASE CreateFailed(ChunkPages(Current))
    <3>1. PROTECT_FREE = 0
      BY <1>1, <1>4, <2>2 DEF Create, CreateFailed, KeepsAll, Room
    <3> QED BY <2>2, <3>1 DEF CreateFailed, NoMemory
  <2> QED BY <1>4, <2>1, <2>2 DEF Create
<1>5. CASE Last
  BY <1>5 DEF Last, Created, LastFailed, NoMemory, Stop
<1>6. CASE Carve \/ Swap \/ Move
  BY <1>6 DEF Carve, Swap, Move, Stop, AfterAllocate
<1>7. CASE Deallocate
  <2>1. \A kB : ~ MustReduce(kB)
    BY <1>1 DEF MustReduce
  <2> QED BY <1>7, <2>1 DEF Deallocate, Stop
<1>8. CASE Release \/ Leave
  BY <1>8 DEF Release, AfterDeallocate, Leave
<1>9. CASE Retry \/ ReduceToBegin \/ ReduceToEmpty \/ ReduceExhausted
  BY <1>9 DEF Retry, ReduceToBegin, ReduceToEmpty, ReduceExhausted
<1>10. CASE UNCHANGED vars
  BY <1>10 DEF vars
<1> QED BY <1>2, <1>3, <1>4, <1>5, <1>6, <1>7, <1>8, <1>9, <1>10
        DEF Next, Step, Finished

LEMMA PromisedStep ==
  ASSUME NoSpill, Promised, KeepsAll => Room, [Next]_vars
  PROVE  Promised'
<1>1. IInv' /\ TInv'
  BY NextInv, NextTables DEF Promised
<1>2. PagesInv'
  BY <1>1, RequestStep, PagesStep DEF Promised, PagesInv
<1> QED BY <1>1, <1>2, KeptWithinStep, ReduceKnownStep DEF Promised

LEMMA InitPromised ==
  ASSUME Init
  PROVE  Promised
<1>1. KeptWithin
  BY HeapAssumption DEF Init, Indices, FirstTable, FirstFree, EmptySlot, KeptWithin
<1> QED BY <1>1, InitInv, InitTables, InitPages DEF Init, Promised, ReduceKnown

-----------------------------------------------------------------------------
(* The steps.                                                               *)

LEMMA Stutters ==
  ASSUME Live' = Live, Kept' = Kept, Task' = Task
  PROVE  Implemented
BY DEF Implemented

LEMMA SameTask ==
  ASSUME \/ Allocating /\ Allocating'
         \/ Freeing /\ Freeing' /\ addr' = addr,
         req' = req
  PROVE  Task' = Task /\ Task.op \in {"alloc", "free"}
BY Tasks DEF TaskShape, AllocOf, FreeOf

LEMMA AllocationFails ==
  ASSUME Allocating, pc' \in {"leave", "stopped"}, Live' = Live, Kept' = Kept
  PROVE  Implemented
BY Tasks DEF TaskShape, AllocOf, Implemented, Live, Kept, Abstract!Next,
             Abstract!AllocFails, Abstract!Done, Abstract!Stopped

LEMMA AllocationGoesOn ==
  ASSUME Allocating, Allocating', req' = req, Live' = Live, Kept' = Kept
  PROVE  Implemented
BY SameTask, Stutters

LEMMA ReleaseGoesOn ==
  ASSUME Freeing, Freeing', UNCHANGED <<req, addr>>, Live' = Live, Kept' = Kept
  PROVE  Implemented
BY SameTask, Stutters

(* A wrong address or the wrong function stops the program.                 *)
LEMMA ReleaseStops ==
  ASSUME Task.op = "free",
         \A i \in InUse : ~ (slots[i].user = Task.addr /\ slots[i].alloc = Task.type),
         pc' = "stopped", Live' = Live, Kept' = Kept
  PROVE  Implemented
<1>1. \A b \in Live : ~ Abstract!Names(b)
  BY DEF Live, Block, Abstract!Names
<1> QED BY <1>1, Tasks DEF TaskShape, Implemented, Live, Kept, Abstract!Next,
           Abstract!FreeStops, Abstract!Stopped

(* Slots that do not change hold the same blocks.                           *)
LEMMA QuietBlocks ==
  ASSUME UNCHANGED <<slots, slotCount>>
  PROVE  Live' = Live /\ Kept' = Kept
BY DEF Live, Kept, Block, InUse, In, Indices

LEMMA StopBlocks ==
  ASSUME NEW reason, Stop(reason)
  PROVE  pc' = "stopped" /\ Live' = Live /\ Kept' = Kept
<1>1. UNCHANGED <<slots, slotCount>> /\ pc' = "stopped"
  BY DEF Stop, mem
<1> QED BY <1>1, QuietBlocks

LEMMA CallImplements ==
  ASSUME CallAny
  PROVE  Implemented
<1>1. Live' = Live /\ Kept' = Kept
  BY CallQuiet, QuietBlocks
<1>2. pc = "idle" /\ pc' \in {"idle", "search", "dealloc", "leave", "stopped"}
  BY CallGoesOn
<1>3. Task = Abstract!Idle
  BY <1>2, Tasks DEF TaskShape, Abstract!Idle
<1>4. CASE pc' = "idle"
  <2>1. Task' = [op |-> "idle"]
    BY <1>4, Tasks DEF TaskShape
  <2> QED BY <1>1, <1>3, <2>1, Stutters DEF Abstract!Idle
<1>5. CASE pc' = "stopped"
  <2>1. Task' = [op |-> "stopped"]
    BY <1>5, Tasks DEF TaskShape
  <2> QED BY <1>1, <1>3, <2>1 DEF Implemented, Live, Kept, Abstract!Next,
             Abstract!Refuse, Abstract!Stopped
<1>6. CASE pc' \in {"search", "dealloc", "leave"}
  <2>1. Task'.op \in {"alloc", "free", "done"}
    BY <1>6, Tasks DEF TaskShape, Allocating, Freeing, AllocOf, FreeOf
  <2> QED BY <1>1, <1>3, <2>1 DEF Implemented, Live, Kept, Abstract!Next,
             Abstract!Call
<1> QED BY <1>2, <1>4, <1>5, <1>6

LEMMA SearchImplements ==
  ASSUME SearchFound \/ SearchFailed
  PROVE  Implemented
<1>1. pc = "search" /\ Allocating
  BY DEF SearchFound, SearchFailed, Allocating, Freeing
<1>2. ASSUME UNCHANGED mem, req' = req,
             pc' \in {"carve", "create"} \/ (pc' = "reduce" /\ red'.from = "create")
      PROVE  Implemented
  <2>1. Allocating'
    BY <1>2 DEF Allocating, Freeing
  <2> QED BY <1>1, <1>2, <2>1, QuietBlocks, AllocationGoesOn DEF mem
<1>3. CASE SearchFound
  BY <1>2, <1>3 DEF SearchFound
<1>4. CASE SearchFailed
  <2>1. \/ Stop("no empty slot")
        \/ /\ \/ Reduce(KBOf(ChunkPages(Current)), "create")
              \/ pc' = "create" /\ red' = red
           /\ UNCHANGED <<mem, req, growing, addr, why>>
    BY <1>4 DEF SearchFailed
  <2>2. CASE Stop("no empty slot")
    BY <1>1, <2>2, StopBlocks, AllocationFails
  <2>3. ASSUME NEW kB, Reduce(kB, "create"), UNCHANGED mem, req' = req
        PROVE  Implemented
    BY <1>2, <2>3 DEF Reduce
  <2> QED BY <1>2, <2>1, <2>2, <2>3
<1> QED BY <1>3, <1>4

LEMMA CreateImplements ==
  ASSUME Promised, Create \/ Retry \/ Last
  PROVE  Implemented
<1>1. pc \in {"create", "retry", "last"} /\ Allocating
  BY DEF Create, Retry, Last, Allocating, Freeing
<1>2. ASSUME Created PROVE Implemented
  <2>1. pc' = "carve" /\ Indices' = Indices /\ req' = req
    BY <1>1, <1>2, CreatedEffect DEF Promised
  <2>2. Live' = Live /\ Kept' = Kept
    BY <1>1, <1>2, <2>1, CreatedFrame, SameBlocks DEF Promised
  <2>3. Allocating'
    BY <2>1 DEF Allocating, Freeing
  <2> QED BY <1>1, <2>1, <2>2, <2>3, AllocationGoesOn
<1>3. ASSUME UNCHANGED mem, req' = req,
             \/ pc' \in {"search", "leave", "last"}
             \/ pc' = "reduce" /\ red'.from = "retry"
      PROVE  Implemented
  <2>1. Live' = Live /\ Kept' = Kept
    BY <1>3, QuietBlocks DEF mem
  <2>2. CASE pc' = "leave"
    BY <1>1, <2>1, <2>2, AllocationFails
  <2>3. CASE pc' # "leave"
    <3>1. Allocating'
      BY <1>3, <2>3 DEF Allocating, Freeing
    <3> QED BY <1>1, <1>3, <2>1, <3>1, AllocationGoesOn
  <2> QED BY <2>2, <2>3
<1>4. ASSUME NoMemory PROVE Implemented
  BY <1>3, <1>4 DEF NoMemory
<1>5. ASSUME NEW kB, Reduce(kB, "retry"), UNCHANGED <<mem, req>> PROVE Implemented
  BY <1>3, <1>5 DEF Reduce
<1>6. ASSUME pc' = "last", UNCHANGED <<mem, ctl>> PROVE Implemented
  BY <1>3, <1>6 DEF ctl
<1>7. ASSUME Stop("out of memory") PROVE Implemented
  BY <1>1, <1>7, StopBlocks, AllocationFails
<1>8. ASSUME NEW n, CreateFailed(n) PROVE Implemented
  BY <1>4, <1>5, <1>8 DEF CreateFailed
<1>9. ASSUME NEW n, RetryFailed(n) PROVE Implemented
  BY <1>4, <1>5, <1>6, <1>9 DEF RetryFailed
<1>10. ASSUME NEW n, LastFailed(n) PROVE Implemented
  BY <1>4, <1>7, <1>10 DEF LastFailed
<1> QED BY <1>2, <1>8, <1>9, <1>10 DEF Create, Retry, Last

(* The buffer given out is new: it has the size, the alignment and the type *)
(* that were asked for, and overlaps no block in use or kept.               *)
LEMMA GivenOut ==
  ASSUME NoSpill, Promised, Promised', Carve, pc' # "stopped", ~ growing
  PROVE  LET b == Block(slots'[full])
         IN  /\ b.size = req.userSize /\ b.type = req.type
             /\ b.size > 0 => b.addr % req.alignment = 0
             /\ \A c \in Live \cup Kept : ~ Abstract!Overlap(b, c)
             /\ Live' = Live \cup {b} /\ Kept' = Kept
<1> DEFINE s == slots[full]
           t == slots'[full]
           b == Block(t)
<1>1. /\ full \in Indices /\ s.base \in Nat /\ ValidRequest(Current)
      /\ t = UsedSlot(Current, s.base) /\ Pages(t) \subseteq Pages(s)
      /\ Indices' = Indices
  BY CarveEffect DEF Promised
<1>2. Current = req /\ req.type # "INTERNAL"
  BY DEF Current, Carve, Promised, IInv, LocalsAgree
<1>3. /\ t.state = "IN_USE" /\ t.usz = req.userSize /\ t.alloc = req.type
      /\ t.user = UserAddr(req, s.base)
  BY <1>1, <1>2 DEF UsedSlot
<1>4. b.size = req.userSize /\ b.type = req.type /\ b.addr = UserAddr(req, s.base)
  BY <1>3 DEF Block
<1>5. b.size > 0 => b.addr % req.alignment = 0
  BY <1>1, <1>2, <1>4, AddrAligned
<1>6. Frame({full}) /\ ~ Held(s)
  BY CarveFrame DEF Promised, PagesInv
<1>7. ASSUME NEW x \in Abstract!Extent(b)
      PROVE  PageOf(x) \in Pages(s)
  <2>1. t \in Slot /\ SlotOK(t)
    BY <1>1 DEF Promised, IInv, MemoryOK
  <2>2. PageOf(t.user) \in Pages(t)
    BY <1>3, <2>1 DEF SlotOK
  <2>3. t.usz > 0 => UserPages(t) \subseteq Pages(t)
    BY CarveFrame DEF Promised, PagesInv, Guarded
  <2> HIDE DEF t
  <2>4. PageOf(x) \in Pages(t)
    BY <1>7, <2>1, <2>2, <2>3, ExtentWithin
  <2> QED BY <1>1, <2>4 DEF t
<1>8. ASSUME NEW i \in Indices, Held(slots[i])
      PROVE  ~ Abstract!Overlap(b, Block(slots[i]))
  <2>1. i # full
    BY <1>6, <1>8
  <2>2. \A x \in Abstract!Extent(Block(slots[i])) : PageOf(x) \in Pages(slots[i])
    BY <1>8, HeldWithin
  <2>3. \A p \in Pages(slots[i]) : p \notin Pages(s)
    BY <1>1, <2>1 DEF Promised, IInv, MemoryOK, Disjoint
  <2>4. \A x \in Abstract!Extent(b) : PageOf(x) \in Pages(s)
    BY <1>7
  <2> HIDE DEF s, b
  <2>5. \A x : ~ (x \in Abstract!Extent(b) /\ x \in Abstract!Extent(Block(slots[i])))
    BY <2>2, <2>3, <2>4
  <2> QED BY <2>5 DEF Abstract!Overlap
<1>9. \A c \in Live \cup Kept : ~ Abstract!Overlap(b, c)
  <2> HIDE DEF b
  <2>1. \A c \in Live \cup Kept : \E i \in Indices : Held(slots[i]) /\ c = Block(slots[i])
    BY DEF Live, Kept, InUse, In, Held, Protected
  <2> QED BY <1>8, <2>1
<1>10. Live' = Live \cup {b} /\ Kept' = Kept
  <2>1. /\ \A c : c \in Live' <=> \/ \E i \in InUse \ {full} : c = Block(slots[i])
                                  \/ full \in InUse' /\ c = b
        /\ \A c : c \in Kept' <=>
                  \/ \E i \in Indices \ {full} :
                       Protected(slots[i]) /\ c = Block(slots[i])
                  \/ Protected(t) /\ c = b
    BY <1>1, <1>6, OtherBlocks
  <2>2. full \in InUse' /\ full \notin InUse
    BY <1>1, <1>2, <1>3, <1>6 DEF InUse, Held
  <2>3. ~ Protected(t) /\ ~ Protected(s)
    BY <1>3, <1>6 DEF Protected, Held
  <2>4. /\ \A c : c \in Live <=> \E i \in InUse : c = Block(slots[i])
        /\ \A c : c \in Kept <=>
                  \E i \in Indices : Protected(slots[i]) /\ c = Block(slots[i])
    BY DEF Live, Kept, In, Protected
  <2> HIDE DEF b, t
  <2>5. \A c : c \in Live' <=> c \in Live \/ c = b
    BY <2>1, <2>2, <2>4
  <2>6. \A c : c \in Kept' <=> c \in Kept
    BY <2>1, <2>3, <2>4
  <2>7. Live' = Live \cup {b}
    BY <2>5
  <2>8. Kept' = Kept
    BY <2>6 DEF Kept
  <2> QED BY <2>7, <2>8
<1> QED BY <1>4, <1>5, <1>9, <1>10

LEMMA CarveImplements ==
  ASSUME NoSpill, Promised, Promised', Carve
  PROVE  Implemented
<1>1. pc = "carve" /\ Allocating
  BY DEF Carve, Allocating, Freeing
<1>2. CASE pc' = "stopped"
  <2>1. UNCHANGED <<slots, slotCount>>
    BY <1>2 DEF Carve, Stop, AfterAllocate, mem
  <2> QED BY <1>1, <1>2, <2>1, QuietBlocks, AllocationFails
<1>3. CASE pc' # "stopped" /\ growing
  <2>1. /\ pc' = "swap" /\ UNCHANGED <<req, growing, full>> /\ Indices' = Indices
        /\ full \in Indices /\ slots'[full].alloc = "INTERNAL"
        /\ slots'[full].state = "IN_USE"
    BY <1>3, CarveEffect
       DEF Promised, AfterAllocate, UsedSlot, Current, TableRequest
  <2>2. Frame({full}) /\ ~ Held(slots[full])
    BY <1>3, CarveFrame DEF Promised, PagesInv
  <2>3. ~ Held(slots'[full])
    BY <2>1 DEF Held, Protected
  <2>4. Frame({})
    BY <2>1, <2>2, <2>3 DEF Frame
  <2>5. Allocating'
    BY <2>1 DEF Allocating, Freeing
  <2> QED BY <1>1, <2>1, <2>4, <2>5, SameBlocks, AllocationGoesOn
<1>4. CASE pc' # "stopped" /\ ~ growing
  <2>1. /\ pc' = IF req.old # NULL THEN "move" ELSE "leave"
        /\ req' = req
    BY <1>4, CarveEffect DEF Promised, AfterAllocate
  <2>2. Task' = IF req.old = NULL THEN Abstract!Done
                ELSE Abstract!FreeTask(req.old, req.type)
    BY <2>1, Tasks DEF TaskShape, FreeOf, Abstract!Done, Abstract!FreeTask
  <2>3. Task = AllocOf
    BY <1>1, Tasks DEF TaskShape
  <2>4. PICK b : /\ b.size = req.userSize /\ b.type = req.type
                 /\ b.size > 0 => b.addr % req.alignment = 0
                 /\ \A c \in Live \cup Kept : ~ Abstract!Overlap(b, c)
                 /\ Live' = Live \cup {b} /\ Kept' = Kept
    BY <1>4, GivenOut
  <2>5. Task' = Abstract!AfterAlloc
    BY <2>2, <2>3 DEF AllocOf, Abstract!AfterAlloc, Abstract!Done, NULL
  <2>6. /\ Task.op = "alloc" /\ Task.size = req.userSize
        /\ Task.type = req.type /\ Task.alignment = req.alignment
    BY <2>3 DEF AllocOf
  <2>7. Abstract!Alloc
    BY <2>4, <2>5, <2>6 DEF Abstract!Alloc, Live, Kept
  <2> QED BY <2>7 DEF Implemented, Abstract!Next
<1> QED BY <1>2, <1>3, <1>4

LEMMA SwapImplements ==
  ASSUME Promised, Swap
  PROVE  Implemented
<1>1. /\ pc = "swap" /\ pc' = "dealloc" /\ UNCHANGED <<req, growing>>
      /\ slotCount' = slotCount + SlotsPerPage
  BY DEF Swap
<1>2. growing
  BY <1>1 DEF Promised, TInv, NewTable
<1>3. Allocating /\ Allocating'
  BY <1>1, <1>2 DEF Allocating, Freeing
<1>4. Indices \subseteq Indices'
  <2>1. slotCount \in Nat /\ SlotsPerPage \in Nat
    BY HeapAssumption DEF Promised, IInv, Scalars
  <2> QED BY <1>1, <2>1 DEF Indices
<1> QED BY <1>1, <1>3, <1>4, SwapFrame, SameBlocks, AllocationGoesOn DEF Promised

(* A buffer in use that has an address is the one that is found.            *)
LEMMA Found ==
  ASSUME Promised, NEW i \in InUse, NEW j \in Indices, slots[j].user = slots[i].user
  PROVE  j = i
BY HeldFacts DEF Promised, TInv, InUse, Held

LEMMA MoveImplements ==
  ASSUME Promised, Move
  PROVE  Implemented
<1>1. pc = "move" /\ ~ growing
  BY DEF Move, Promised, IInv, LocalsAgree
<1>2. /\ Task = FreeOf(req.old) /\ Task.op = "free"
      /\ Task.addr = req.old /\ Task.type = req.type
  BY <1>1, Tasks DEF TaskShape, FreeOf
<1>3. CASE NoSlotFor(req.old) /\ Stop("unknown address")
  BY <1>2, <1>3, StopBlocks, ReleaseStops DEF NoSlotFor, InUse
<1>4. ASSUME NEW i \in Indices, SlotForUserAddress(i, req.old),
             Smaller(req.userSize, slots[i].usz) > 0,
             ~ Readable(req.old, Smaller(req.userSize, slots[i].usz)),
             Stop("segmentation fault")
      PROVE  Implemented
  <2>1. slots[i].user = req.old
    BY <1>4 DEF SlotForUserAddress, IsFirst
  <2>2. i \notin InUse
    <3> SUFFICES ASSUME i \in InUse PROVE FALSE
      OBVIOUS
    <3> DEFINE a == req.old
               u == slots[i].usz
               n == Smaller(req.userSize, u)
    <3>1. slots[i] \in Slot /\ a \in Nat /\ u \in Nat /\ req.userSize \in Nat
      BY DEF Promised, IInv, MemoryOK, Scalars, Request, Slot
    <3>2. n \in Nat /\ n > 0 /\ n <= u
      <4>1. n > 0
        BY <1>4
      <4>2. n = IF req.userSize < u THEN req.userSize ELSE u
        BY DEF Smaller
      <4> HIDE DEF n, u
      <4> QED BY <3>1, <4>1, <4>2
    <3>3. UserPages(slots[i]) = PageOf(a) .. PageOf(a + u - 1)
      BY <2>1 DEF UserPages
    <3> HIDE DEF n, u, a
    <3>4. /\ PageOf(a + n - 1) \in Int /\ PageOf(a + u - 1) \in Int
          /\ PageOf(a + n - 1) <= PageOf(a + u - 1) /\ PageOf(a) \in Int
      <4>1. a + n - 1 \in Int /\ a + u - 1 \in Int /\ a + n - 1 <= a + u - 1
        BY <3>1, <3>2
      <4>2. a \in Int /\ a <= a
        BY <3>1
      <4> QED BY <4>1, <4>2, PageMonotone
    <3>5. PageOf(a) .. PageOf(a + n - 1) \subseteq UserPages(slots[i])
      BY <3>3, <3>4
    <3>6. /\ UserPages(slots[i]) \subseteq Pages(slots[i])
          /\ \A p \in UserPages(slots[i]) : page[p] = "rw"
      BY <3>1, <3>2 DEF Promised, PagesInv, GuardPages, u
    <3>7. \A p \in Pages(slots[i]) : p \in 1 .. NPages
      BY SlotPageFacts DEF Promised
    <3>8. Readable(a, n)
      BY <3>5, <3>6, <3>7 DEF Readable
    <3> QED BY <1>4, <3>8 DEF a, n, u
  <2>3. \A j \in InUse : slots[j].user # req.old
    BY <2>1, <2>2, Found
  <2> QED BY <1>2, <1>4, <2>3, StopBlocks, ReleaseStops
<1>5. CASE addr' = req.old /\ pc' = "dealloc" /\ UNCHANGED <<mem, req, growing>>
  <2>1. Freeing' /\ Task' = FreeOf(req.old)
    BY <1>1, <1>5, Tasks DEF Freeing, TaskShape, FreeOf
  <2> QED BY <1>2, <1>5, <2>1, QuietBlocks, Stutters DEF mem
<1> QED BY <1>3, <1>4, <1>5 DEF Move

LEMMA DeallocateImplements ==
  ASSUME Promised, Deallocate
  PROVE  Implemented
<1>1. pc = "dealloc" /\ growing \in BOOLEAN
  BY DEF Deallocate, Promised, IInv, Scalars
<1>2. ~ growing => /\ Freeing /\ Task = FreeOf(addr) /\ Task.op = "free"
                   /\ Task.addr = addr /\ Task.type = req.type
  BY <1>1, Tasks DEF TaskShape, Freeing, FreeOf
<1>3. growing => Allocating
  BY <1>1 DEF Allocating, Freeing
<1>4. ASSUME NEW reason, Stop(reason),
             ~ growing => \A i \in InUse : ~ (slots[i].user = addr
                                                /\ slots[i].alloc = req.type)
      PROVE  Implemented
  <2>1. pc' = "stopped" /\ Live' = Live /\ Kept' = Kept
    BY <1>4, StopBlocks
  <2>2. CASE growing
    BY <1>3, <2>1, <2>2, AllocationFails
  <2>3. CASE ~ growing
    BY <1>2, <1>4, <2>1, <2>3, ReleaseStops
  <2> QED BY <2>2, <2>3
<1>5. CASE addr \in {NULL, NullAddr} /\ pc' = "leave" /\ UNCHANGED <<mem, ctl, why>>
  <2>1. ~ growing
    BY <1>1, <1>5 DEF Promised, TInv, OldTable
  <2>2. Live' = Live /\ Kept' = Kept
    BY <1>5, QuietBlocks DEF mem
  <2>3. Task' = [op |-> "done"]
    BY <1>5, Tasks DEF TaskShape
  <2> QED BY <1>2, <1>5, <2>1, <2>2, <2>3
          DEF Implemented, Live, Kept, Abstract!Next, Abstract!FreeNothing,
              Abstract!Done
<1>6. CASE NoSlotFor(addr) /\ Stop("unknown address")
  BY <1>4, <1>6 DEF NoSlotFor, InUse
<1>7. ASSUME NEW i \in Indices, SlotForUserAddress(i, addr),
             \/ slots[i].state \in {"ALL_PROTECTED", "BEGIN_PROTECTED"}
             \/ Mismatch(slots[i]),
             Stop("already freed") \/ Stop("free mismatch")
      PROVE  Implemented
  <2>1. slots[i].user = addr
    BY <1>7 DEF SlotForUserAddress, IsFirst
  <2>2. \A j \in InUse : slots[j].user = addr => i = j
    BY <2>1, Found
  <2>3. ~ growing => \A j \in InUse : ~ (slots[j].user = addr
                                           /\ slots[j].alloc = req.type)
    BY <1>7, <2>2 DEF Mismatch, Current, InUse
  <2> QED BY <1>4, <1>7, <2>3
<1>8. ASSUME NEW i \in Indices, UNCHANGED <<mem, req, growing, emp, addr, why>>,
             \/ Reduce(KBOf(slots[i].len), "release")
             \/ pc' = "release" /\ red' = red
      PROVE  Implemented
  <2>1. Live' = Live /\ Kept' = Kept
    BY <1>8, QuietBlocks DEF mem
  <2>2. CASE growing
    <3>1. Allocating'
      BY <1>8, <2>2 DEF Allocating, Freeing, Reduce
    <3> QED BY <1>3, <1>8, <2>1, <2>2, <3>1, AllocationGoesOn
  <2>3. CASE ~ growing
    <3>1. Freeing'
      BY <1>8, <2>3 DEF Freeing, Reduce
    <3> QED BY <1>2, <1>8, <2>1, <2>3, <3>1, ReleaseGoesOn
  <2> QED BY <2>2, <2>3
<1>9. ASSUME NEW i \in Indices, SlotForUserAddress(i, addr),
             \/ /\ slots[i].state \in {"ALL_PROTECTED", "BEGIN_PROTECTED"}
                /\ Stop("already freed")
             \/ Mismatch(slots[i]) /\ Stop("free mismatch")
             \/ /\ IF MustReduce(KBOf(slots[i].len))
                     THEN Reduce(KBOf(slots[i].len), "release")
                     ELSE pc' = "release" /\ red' = red
                /\ UNCHANGED <<mem, req, growing, emp, addr, why>>
      PROVE  Implemented
  BY <1>7, <1>8, <1>9
<1> QED BY <1>5, <1>6, <1>9 DEF Deallocate

(* The release takes exactly the named buffer out of use, and keeps it or   *)
(* gives it back; the old slot table is none of the program's buffers.      *)
LEMMA ReleaseImplements ==
  ASSUME Promised, Release
  PROVE  Implemented
<1> DEFINE s == slots[full]
           t == slots'[full]
           b == Block(s)
<1>1. /\ full \in Indices /\ Indices' = Indices /\ pc = "release"
      /\ pc' = AfterDeallocate /\ growing' = FALSE /\ UNCHANGED <<addr, req>>
      /\ \/ t.state = "EMPTY"
         \/ /\ s.alloc # "INTERNAL"
            /\ t = [s EXCEPT !.state = "ALL_PROTECTED"]
  BY ReleaseEffect DEF Promised
<1>2. Frame({full}) /\ AtRelease
  BY <1>1, ReleaseFrame DEF Promised, AtRelease
<1>3. s.user = addr /\ s.alloc = Current.type
  BY <1>2 DEF Promised, TInv, Released
<1>4. CASE growing
  <2>1. s.alloc = "INTERNAL" /\ t.state = "EMPTY"
    BY <1>1, <1>3, <1>4 DEF Current, TableRequest
  <2>2. s.state \in {"FREE", "IN_USE"}
    BY ReleaseEffect DEF Promised
  <2>3. Frame({})
    BY <1>1, <1>2, <2>1, <2>2 DEF Frame, Held, Protected
  <2>4. Allocating /\ Allocating'
    BY <1>1, <1>4 DEF Allocating, Freeing, AfterDeallocate
  <2> QED BY <1>1, <2>3, <2>4, SameBlocks, AllocationGoesOn
<1>5. CASE ~ growing
  <2>1. /\ Task = FreeOf(addr) /\ Task' = [op |-> "done"]
    BY <1>1, <1>5, Tasks DEF TaskShape, Freeing, AfterDeallocate
  <2>2. full \in InUse /\ ~ Protected(s) /\ s.alloc = req.type /\ s \in Slot
    <3>1. s.alloc = req.type /\ req.type # "INTERNAL"
      BY <1>1, <1>3, <1>5 DEF Current, Promised, IInv, LocalsAgree
    <3>2. full \in InUse
      BY <1>2, <3>1, ReleasedInUse DEF Promised
    <3> QED BY <1>1, <3>1, <3>2 DEF InUse, Protected, Promised, IInv, MemoryOK
  <2>3. b \in Live /\ Abstract!Names(b)
    BY <1>3, <2>1, <2>2 DEF Live, Block, FreeOf, Abstract!Names
  <2>4. \A i \in InUse \ {full} : Block(slots[i]) # b
    <3>1. \A i \in InUse \ {full} : slots[i].user # s.user
      BY <1>1, <2>2, Found
    <3> QED BY <3>1 DEF Block
  <2>5. t.state \in {"EMPTY", "ALL_PROTECTED"} /\ full \notin InUse'
        /\ (Protected(t) => Block(t) = b)
    BY <1>1, <2>2 DEF Slot, InUse, Protected, Block
  <2>6. /\ \A c : c \in Live' <=> \/ \E i \in InUse \ {full} : c = Block(slots[i])
                                  \/ full \in InUse' /\ c = Block(t)
        /\ \A c : c \in Kept' <=>
                  \/ \E i \in Indices \ {full} :
                       Protected(slots[i]) /\ c = Block(slots[i])
                  \/ Protected(t) /\ c = Block(t)
    BY <1>1, <1>2, OtherBlocks
  <2>7. /\ \A c : c \in Live <=> \E i \in InUse : c = Block(slots[i])
        /\ \A c : c \in Kept <=>
                  \E i \in Indices : Protected(slots[i]) /\ c = Block(slots[i])
    BY DEF Live, Kept, In, Protected
  <2> DEFINE L == Live'
             K == Kept'
  <2> HIDE DEF L, K
  <2>8. L = Live \ {b}
    <3>1. \A c : c \in L <=> c \in Live /\ c # b
      BY <2>2, <2>4, <2>5, <2>6, <2>7 DEF L
    <3> QED BY <3>1
  <2>9. K = Kept \/ K = Kept \cup {b}
    <3>1. \A c : c \in K <=> c \in Kept \/ (Protected(t) /\ c = b)
      BY <2>2, <2>5, <2>6, <2>7 DEF K
    <3>2. K = IF Protected(t) THEN Kept \cup {b} ELSE Kept
      BY <3>1 DEF Kept
    <3> QED BY <3>2
  <2>10. Abstract!Free
    BY <2>1, <2>3, <2>8, <2>9
       DEF Abstract!Free, Abstract!Done, Live, Kept, L, K, FreeOf
  <2> QED BY <2>10 DEF Implemented, Abstract!Next
<1> QED BY <1>4, <1>5 DEF Promised, IInv, Scalars

(* reduceProtectedMemory() gives up kept blocks, and nothing else.          *)
LEMMA ReduceImplements ==
  ASSUME Promised, ReduceToBegin \/ ReduceToEmpty
  PROVE  Implemented
<1>1. PICK k \in Indices :
        /\ Frame({k}) /\ Protected(slots[k])
        /\ slots'[k].state \in {"BEGIN_PROTECTED", "EMPTY"}
        /\ slots'[k].state = "BEGIN_PROTECTED" =>
             /\ slots'[k].user = slots[k].user
             /\ slots'[k].alloc = slots[k].alloc
        /\ pc = "reduce" /\ pc' \in {"reduce", red.from}
        /\ red'.from = red.from /\ Indices' = Indices
        /\ UNCHANGED <<growing, addr, req>>
  BY ReduceFrame DEF Promised
<1> DEFINE s == slots[k]
           t == slots'[k]
           b == Block(s)
           L == Live'
           K == Kept'
<1>2. Evicts
  BY <1>1 DEF Promised, ReduceKnown
<1>3. Task' = Task /\ Task.op \in {"alloc", "free"}
  <2>1. red.from \in {"create", "retry", "release"}
    BY <1>1 DEF Promised, IInv, Scalars, Reduction, LocalsAgree
  <2>2. \/ Allocating /\ Allocating'
        \/ Freeing /\ Freeing' /\ addr' = addr
    BY <1>1, <2>1 DEF Allocating, Freeing
  <2> QED BY <1>1, <2>2, SameTask
<1>4. /\ \A c : c \in L <=> \/ \E i \in InUse \ {k} : c = Block(slots[i])
                            \/ k \in InUse' /\ c = Block(t)
      /\ \A c : c \in K <=> \/ \E i \in Indices \ {k} :
                                 Protected(slots[i]) /\ c = Block(slots[i])
                            \/ Protected(t) /\ c = Block(t)
  BY <1>1, OtherBlocks
<1>5. /\ \A c : c \in Live <=> \E i \in InUse : c = Block(slots[i])
      /\ \A c : c \in Kept <=>
                \E i \in Indices : Protected(slots[i]) /\ c = Block(slots[i])
  BY DEF Live, Kept, In, Protected
<1>6. \A i \in Indices \ {k} : Block(slots[i]) # b
  <2>1. \A i \in Indices : slots[i].user = s.user => i = k
    BY <1>1, HeldFacts DEF Promised, TInv, Held
  <2> QED BY <2>1 DEF Block
<1>7. k \notin InUse /\ k \notin InUse' /\ b \in Kept
  BY <1>1, <1>5 DEF InUse, Protected
<1>8. Protected(t) => Block(t) = [b EXCEPT !.size = 0]
  BY <1>1 DEF Protected, Block
<1> HIDE DEF L, K, b
<1>9. L = Live
  <2>1. \A c : c \in L <=> c \in Live
    BY <1>4, <1>5, <1>7
  <2> QED BY <2>1 DEF Live
<1>10. K = Kept \ {b} \/ K = (Kept \ {b}) \cup {[b EXCEPT !.size = 0]}
  <2>1. \A c : c \in K <=> \/ c \in Kept /\ c # b
                           \/ Protected(t) /\ c = [b EXCEPT !.size = 0]
    BY <1>1, <1>4, <1>5, <1>6, <1>8 DEF b
  <2>2. K = IF Protected(t) THEN (Kept \ {b}) \cup {[b EXCEPT !.size = 0]}
            ELSE Kept \ {b}
    BY <2>1
  <2> QED BY <2>2
<1>11. Abstract!Evict
  BY <1>2, <1>3, <1>7, <1>9, <1>10 DEF Evicts, Abstract!Evict, Live, Kept, L, K
<1> QED BY <1>11 DEF Implemented, Abstract!Next

LEMMA ReduceExhaustedImplements ==
  ASSUME Promised, ReduceExhausted
  PROVE  Implemented
<1>1. /\ pc = "reduce" /\ red' = [red EXCEPT !.more = FALSE] /\ pc' = red.from
      /\ UNCHANGED <<mem, req, growing, addr>>
  BY DEF ReduceExhausted
<1>2. red \in Reduction /\ red.from \in {"create", "retry", "release"}
  BY <1>1 DEF Promised, IInv, Scalars, LocalsAgree, Reduction
<1>3. \/ Allocating /\ Allocating'
      \/ Freeing /\ Freeing' /\ addr' = addr
  BY <1>1, <1>2 DEF Allocating, Freeing
<1> QED BY <1>1, <1>3, QuietBlocks, AllocationGoesOn, ReleaseGoesOn DEF mem

LEMMA LeaveImplements ==
  ASSUME Leave
  PROVE  Implemented
<1>1. /\ pc = "leave" /\ pc' = "idle" /\ UNCHANGED <<slots, slotCount>>
  BY DEF Leave
<1>2. Task = [op |-> "done"] /\ Task' = [op |-> "idle"]
  BY <1>1, Tasks DEF TaskShape
<1>3. Live' = Live /\ Kept' = Kept
  BY <1>1, QuietBlocks
<1> QED BY <1>2, <1>3 DEF Implemented, Live, Kept, Abstract!Next,
           Abstract!Return, Abstract!Done, Abstract!Idle

LEMMA StepsImplement ==
  ASSUME NoSpill, Promised, Promised', [Next]_vars
  PROVE  Implemented
<1>1. CASE UNCHANGED vars
  <2>1. UNCHANGED <<mem, pc, ctl>>
    BY <1>1 DEF vars
  <2>2. Task' = Task
    BY <2>1 DEF ctl, Task
  <2> QED BY <2>1, <2>2, QuietBlocks, Stutters DEF mem
<1> QED BY <1>1, CallImplements, SearchImplements, CreateImplements,
           CarveImplements, SwapImplements, MoveImplements,
           DeallocateImplements, ReleaseImplements, ReduceImplements,
           ReduceExhaustedImplements, LeaveImplements DEF Next, Step, Finished

LEMMA InitImplements ==
  ASSUME Init
  PROVE  Abstract!Init
<1>1. InUse = {} /\ In({"ALL_PROTECTED", "BEGIN_PROTECTED"}) = {}
  BY HeapAssumption
     DEF Init, Indices, FirstTable, FirstFree, EmptySlot, InUse, In
<1>2. Task = [op |-> "idle"]
  BY Tasks DEF Init, TaskShape
<1> QED BY <1>1, <1>2 DEF Abstract!Init, Abstract!Idle

(* The allocator keeps the promises of AbstractHeap: a new buffer has the   *)
(* size and alignment that were asked for and overlaps no other and no kept *)
(* memory, a release takes exactly the named buffer out of use, exactly the *)
(* wrong releases stop the program, and kept memory is given up only where  *)
(* a limit is set or the system has no room for a chunk.  Where neither can *)
(* be (KeepsAll), the theorem asks that there is room, as a limit that      *)
(* AbstractHeap does not know.                                              *)
THEOREM Promises ==
  ASSUME NoSpill
  PROVE  Spec /\ [](KeepsAll => Room) => ImplementsHeap
<1>1. Init => Promised /\ Abstract!Init
  BY InitPromised, InitImplements
<1>2. Promised /\ (KeepsAll => Room) /\ [Next]_vars => Promised'
  BY PromisedStep
<1>3. Promised /\ Promised' /\ [Next]_vars => Implemented
  BY StepsImplement
<1>4. Implemented => [Abstract!Next]_<<{Block(slots[i]) : i \in InUse},
          {Block(slots[i]) : i \in In({"ALL_PROTECTED", "BEGIN_PROTECTED"})}, Task>>
  BY DEF Implemented, Live, Kept
<1> QED BY <1>1, <1>2, <1>3, <1>4, PTL DEF Spec, ImplementsHeap, Abstract!Spec

(* In every other configuration the allocator keeps them whatever the       *)
(* system does.                                                             *)
THEOREM PromisesLimited ==
  ASSUME NoSpill, ~ KeepsAll
  PROVE  Spec => ImplementsHeap
<1>1. KeepsAll => Room
  OBVIOUS
<1> QED BY <1>1, Promises, PTL

-----------------------------------------------------------------------------
(* The account of the empty slots.                                          *)

(* A page has room for seven slots, and a size_t can count the slots of all *)
(* pages.                                                                   *)
ManySlots == 7 <= SlotsPerPage /\ NPages * SlotsPerPage < SIZE_MOD

(* The request of allocateMoreSlots() gets its memory.                      *)
TableGrows == growing /\ pc \in {"create", "retry", "last"} => growing'

(* That many slots are left during a growth, that many otherwise.           *)
AtLeast(n, m) ==
  (growing => unUsedSlots >= n) /\ (~ growing => unUsedSlots >= m)

(* How many slots the rest of a call may still take: two for a block and    *)
(* what the request leaves of its chunk, and two more while the table is    *)
(* exchanged.                                                               *)
EnoughLeft ==
  /\ pc \in {"idle", "leave", "move"} => unUsedSlots >= 5
  /\ pc = "search" \/ AtCreate => AtLeast(5, 7)
  /\ pc = "carve" => emp # 0 /\ AtLeast(4, 6)
  /\ pc = "swap" => unUsedSlots >= 3
  /\ pc = "dealloc" \/ AtRelease => AtLeast(6, 5)

Counted ==
  /\ slotCount = listPages * SlotsPerPage
  /\ SlotAccounting /\ NoInternalError /\ EnoughLeft

Empty == In({"EMPTY"})

LEMMA IndicesSize ==
  ASSUME slotCount \in Nat
  PROVE  IsFiniteSet(Indices) /\ Cardinality(Indices) = slotCount
<1>1. /\ IsFiniteSet(1 .. slotCount)
      /\ Cardinality(1 .. slotCount) = IF 1 > slotCount THEN 0 ELSE slotCount - 1 + 1
  BY FS_Interval
<1> QED BY <1>1 DEF Indices

LEMMA EmptyFacts ==
  ASSUME IInv
  PROVE  /\ IsFiniteSet(Empty) /\ Cardinality(Empty) \in Nat
         /\ Cardinality(Empty) <= slotCount
<1>1. slotCount \in Nat
  BY DEF IInv, Scalars
<1>2. IsFiniteSet(Indices) /\ Cardinality(Indices) = slotCount
  BY <1>1, IndicesSize
<1>3. Empty \in SUBSET Indices
  BY DEF Empty, In
<1>4. IsFiniteSet(Empty) /\ Cardinality(Empty) <= Cardinality(Indices)
  BY <1>2, <1>3, FS_Subset
<1> QED BY <1>2, <1>4, FS_CardinalityType

(* Two slots that are both empty can be found, and none is wanting.         *)
LEMMA TwoEmpty ==
  ASSUME IInv, Counted, unUsedSlots >= 2
  PROVE  \E i, j \in Empty : i # j
<1>1. unUsedSlots \in Int /\ unUsedSlots <= Cardinality(Empty)
  BY DEF Counted, SlotAccounting, IInv, Scalars, Empty
<1>2. IsFiniteSet(Empty) /\ Cardinality(Empty) \in Nat
  BY EmptyFacts
<1>3. Empty # {}
  BY <1>1, <1>2, FS_EmptySet
<1>4. PICK i \in Empty : TRUE
  BY <1>3
<1>5. Empty # {i}
  BY <1>1, <1>2, FS_Singleton
<1> QED BY <1>4, <1>5

(* The table lies in the address space.                                     *)
LEMMA TableBounded ==
  ASSUME IInv, TInv
  PROVE  listPages <= NPages
<1>1. PICK i \in Indices : TablePages \subseteq Pages(slots[i])
  BY TableSlot
<1>2. TablePages \subseteq 1 .. NPages
  BY <1>1, SlotPageFacts
<1>3. /\ allocList \in Nat /\ listPages \in Nat /\ listPages > 0
      /\ NPages \in Nat
  BY HeapAssumption DEF IInv, Scalars, TableKept
<1>4. allocList \in TablePages /\ allocList + listPages - 1 \in TablePages
  BY <1>3 DEF TablePages
<1> QED BY <1>2, <1>3, <1>4

(* The counter does not wrap.                                               *)
LEMMA CountDown ==
  ASSUME NEW n \in 1 .. SIZE_MOD - 1
  PROVE  Decrement(n) = n - 1
<1>1. SIZE_MOD \in Nat /\ n - 1 \in 0 .. SIZE_MOD - 1
  BY HeapAssumption
<1> QED BY <1>1 DEF Decrement

LEMMA CountUp ==
  ASSUME NEW n \in Nat, n < SIZE_MOD
  PROVE  n % SIZE_MOD = n
BY HeapAssumption

LEMMA CountFacts ==
  ASSUME IInv, Counted
  PROVE  /\ unUsedSlots \in Nat /\ unUsedSlots < SIZE_MOD
         /\ NoInternalError
         /\ growing \in BOOLEAN /\ EnoughLeft
<1>1. unUsedSlots \in 0 .. SIZE_MOD - 1 /\ growing \in BOOLEAN
  BY DEF IInv, Scalars
<1>2. SIZE_MOD \in Nat
  BY HeapAssumption
<1>3. unUsedSlots \in Nat /\ unUsedSlots < SIZE_MOD
  BY <1>1, <1>2
<1> QED BY <1>1, <1>3 DEF Counted, NoInternalError

(* Steps that leave the table alone.                                        *)
LEMMA SameCount ==
  ASSUME Counted, UNCHANGED <<slots, slotCount, listPages, unUsedSlots>>,
         NoInternalError', EnoughLeft'
  PROVE  Counted'
BY DEF Counted, SlotAccounting, In, Indices

(* A slot is taken, or one becomes empty.                                   *)
LEMMA SlotTaken ==
  ASSUME IInv, Counted, NEW k \in Empty, Empty' = Empty \ {k},
         unUsedSlots >= 1, unUsedSlots' = Decrement(unUsedSlots)
  PROVE  SlotAccounting' /\ unUsedSlots' = unUsedSlots - 1
<1>1. unUsedSlots \in 1 .. SIZE_MOD - 1 /\ unUsedSlots <= Cardinality(Empty)
  BY DEF Counted, SlotAccounting, IInv, Scalars, Empty
<1>2. unUsedSlots' = unUsedSlots - 1
  BY <1>1, CountDown
<1>3. Cardinality(Empty') = Cardinality(Empty) - 1 /\ Cardinality(Empty) \in Nat
  BY EmptyFacts, FS_RemoveElement
<1>4. unUsedSlots' <= Cardinality(Empty')
  BY <1>1, <1>2, <1>3
<1> QED BY <1>2, <1>4 DEF SlotAccounting, Empty

LEMMA SlotEmptied ==
  ASSUME IInv, NEW k, k \notin Empty, Empty' = Empty \cup {k}
  PROVE  Cardinality(Empty') = Cardinality(Empty) + 1
BY EmptyFacts, FS_AddElement

LEMMA StopCount ==
  ASSUME Counted, NEW reason, Stop(reason),
         reason \notin {"no empty slot", "mprotect failed"}
  PROVE  Counted'
<1>1. /\ UNCHANGED <<slots, slotCount, listPages, unUsedSlots>>
      /\ pc' = "stopped" /\ why' = reason
  BY DEF Stop, mem
<1>2. EnoughLeft'
  BY <1>1 DEF EnoughLeft, AtLeast, AtCreate, AtRelease
<1> QED BY <1>1, <1>2, SameCount DEF NoInternalError

(* The calls of the program: a request begins with at least five slots, and *)
(* with at least seven unless the table is to grow first.                   *)
LEMMA CallCount ==
  ASSUME IInv, Counted, CallAny
  PROVE  Counted'
<1>1. pc = "idle" => unUsedSlots >= 5 /\ ~ growing
  BY DEF Counted, EnoughLeft, IInv, LocalsAgree
<1>2. unUsedSlots \in Nat /\ NoInternalError
  BY CountFacts
<1>3. ASSUME pc = "idle", NEW r, NEW opened \in BOOLEAN, BeginAllocate(r, opened)
      PROVE  Counted'
  <2>1. CASE Stop("zero size") \/ Stop("alignment")
    BY <2>1, StopCount
  <2>2. CASE /\ pc' \in {"leave", "idle"}
             /\ UNCHANGED <<slots, slotCount, listPages, unUsedSlots, why, growing>>
    <3>1. EnoughLeft'
      BY <1>1, <1>3, <2>2 DEF EnoughLeft, AtLeast, AtCreate, AtRelease
    <3> QED BY <1>2, <2>2, <3>1, SameCount DEF NoInternalError
  <2>3. CASE /\ pc' = "search" /\ growing' = (unUsedSlots < 7)
             /\ UNCHANGED <<slots, slotCount, listPages, unUsedSlots, why>>
    <3>1. AtLeast(5, 7)'
      <4>1. CASE unUsedSlots < 7
        <5>1. growing' = TRUE /\ unUsedSlots' = unUsedSlots /\ unUsedSlots >= 5
          BY <1>1, <1>3, <2>3, <4>1
        <5> QED BY <5>1 DEF AtLeast
      <4>2. CASE unUsedSlots >= 7
        <5>1. ~ growing'
          <6>1. ~ (unUsedSlots < 7)
            BY <1>2, <4>2
          <6>2. growing' = (unUsedSlots < 7)
            BY <2>3, Zenon
          <6> QED BY <6>1, <6>2, Zenon
        <5>2. unUsedSlots' >= 7
          BY <2>3, <4>2
        <5> QED BY <5>1, <5>2, Zenon DEF AtLeast
      <4> QED BY <1>2, <4>1, <4>2
    <3>2. EnoughLeft'
      BY <2>3, <3>1 DEF EnoughLeft, AtCreate, AtRelease
    <3> QED BY <1>2, <2>3, <3>2, SameCount DEF NoInternalError
  <2> QED BY <1>3, <2>1, <2>2, <2>3 DEF BeginAllocate, ctl
<1>4. ASSUME pc = "idle", NEW a, NEW r, BeginDeallocate(a, r)
      PROVE  Counted'
  <2>1. /\ pc' = "dealloc"
        /\ UNCHANGED <<slots, slotCount, listPages, unUsedSlots, why, growing>>
    BY <1>4 DEF BeginDeallocate
  <2>2. EnoughLeft'
    BY <1>1, <1>4, <2>1 DEF EnoughLeft, AtLeast, AtCreate, AtRelease
  <2> QED BY <1>2, <2>1, <2>2, SameCount DEF NoInternalError
<1>5. ASSUME pc = "idle", pc' = "idle",
             UNCHANGED <<slots, slotCount, listPages, unUsedSlots, why, growing>>
      PROVE  Counted'
  <2>1. EnoughLeft'
    BY <1>1, <1>5 DEF EnoughLeft, AtLeast, AtCreate, AtRelease
  <2> QED BY <1>2, <1>5, <2>1, SameCount DEF NoInternalError
<1>6. ASSUME NEW n, NEW t, NEW b, Allocate(n, t, b) PROVE Counted'
  BY <1>3, <1>6 DEF Allocate, NextCall
<1>7. ASSUME NEW a, NEW n, NEW b, Memalign(a, n, b) PROVE Counted'
  BY <1>3, <1>7 DEF Memalign, NextCall
<1>14. ASSUME NEW a, NEW n, NEW b, PosixMemalign(a, n, b) PROVE Counted'
  <2>1. CASE Memalign(a, n, b)
    BY <1>7, <2>1
  <2>2. CASE NextCall /\ UNCHANGED <<mem, pc, ctl, why>>
    BY <1>5, <2>2 DEF NextCall, mem, ctl
  <2> QED BY <1>14, <2>1, <2>2 DEF PosixMemalign
<1>8. ASSUME NEW p, NEW n, NEW b, Realloc(p, n, b) PROVE Counted'
  BY <1>3, <1>4, <1>8 DEF Realloc, NextCall
<1>9. ASSUME NEW p, NEW t, Free(p, t) PROVE Counted'
  <2>1. CASE p \in {NULL, NullAddr}
    BY <1>5, <1>9, <2>1 DEF Free, NextCall, mem, ctl
  <2>2. CASE p \notin {NULL, NullAddr}
    BY <1>4, <1>9, <2>2 DEF Free, NextCall
  <2> QED BY <2>1, <2>2
<1>10. ASSUME pc = "idle", UnchangedButPage, UNCHANGED <<pc, why>> PROVE Counted'
  BY <1>5, <1>10 DEF UnchangedButPage, ctl
<1>11. ASSUME NEW p, Check(p) PROVE Counted'
  BY <1>10, <1>11, StopCount DEF Check
<1>12. ASSUME NEW p, MallocUsableSize(p) PROVE Counted'
  BY <1>10, <1>12, StopCount DEF MallocUsableSize
<1>13. ASSUME CheckAll PROVE Counted'
  BY <1>10, <1>13 DEF CheckAll
<1> QED BY <1>6, <1>7, <1>8, <1>9, <1>11, <1>12, <1>13, <1>14 DEF CallAny

(* The search always finds the slots it needs.                              *)
LEMMA SearchCount ==
  ASSUME IInv, Counted, SearchFound \/ SearchFailed
  PROVE  Counted'
<1>1. /\ pc = "search" /\ unUsedSlots \in Nat /\ growing \in BOOLEAN
      /\ AtLeast(5, 7)
      /\ NoInternalError
  BY CountFacts DEF SearchFound, SearchFailed, EnoughLeft, AtLeast
<1>2. PICK i \in Empty, j \in Empty : i # j
  <2>1. unUsedSlots >= 2
    BY <1>1 DEF AtLeast
  <2> QED BY <2>1, TwoEmpty
<1>3. CASE SearchFound
  <2>1. emp' # 0 /\ pc' = "carve" /\ UNCHANGED <<mem, growing, why>>
    <3>1. In({"EMPTY"}) # {} /\ 0 \notin In({"EMPTY"})
      BY <1>2 DEF Empty, In, Indices
    <3> QED BY <1>3, <3>1 DEF SearchFound, IsFirst
  <2>2. AtLeast(4, 6)'
    BY <1>1, <2>1 DEF AtLeast, mem
  <2>3. EnoughLeft'
    BY <2>1, <2>2 DEF EnoughLeft, AtCreate, AtRelease
  <2> QED BY <1>1, <2>1, <2>3, SameCount DEF NoInternalError, mem
<1>4. CASE SearchFailed
  <2>1. /\ pc' = "create" \/ (pc' = "reduce" /\ red'.from = "create")
        /\ UNCHANGED <<mem, growing, why>>
    <3>1. ~ \A k, l \in In({"EMPTY"}) : k = l
      BY <1>2 DEF Empty
    <3>2. /\ pc' = "create" \/ Reduce(KBOf(ChunkPages(Current)), "create")
          /\ UNCHANGED <<mem, growing, why>>
      BY <1>4, <3>1, Zenon DEF SearchFailed
    <3>3. ASSUME NEW kB, Reduce(kB, "create")
          PROVE  pc' = "reduce" /\ red'.from = "create"
      BY <3>3 DEF Reduce
    <3> QED BY <3>2, <3>3
  <2>2. AtLeast(5, 7)'
    BY <1>1, <2>1 DEF AtLeast, mem
  <2>3. EnoughLeft'
    BY <2>1, <2>2 DEF EnoughLeft, AtCreate, AtRelease
  <2> QED BY <1>1, <2>1, <2>3, SameCount DEF NoInternalError, mem
<1> QED BY <1>3, <1>4

LEMMA CreateCount ==
  ASSUME IInv, Counted, TableGrows, Create \/ Retry \/ Last
  PROVE  Counted'
<1>1. /\ pc \in {"create", "retry", "last"} /\ AtCreate
      /\ unUsedSlots \in Nat /\ growing \in BOOLEAN
      /\ AtLeast(5, 7)
      /\ NoInternalError
  BY CountFacts DEF Create, Retry, Last, EnoughLeft, AtCreate
<1>2. CASE Created
  <2>1. /\ full \in Indices /\ slots[full].state = "EMPTY"
        /\ slots'[full].state = "FREE"
        /\ \A i \in Indices \ {full} : slots'[i] = slots[i]
        /\ pc' = "carve" /\ Indices' = Indices
        /\ UNCHANGED <<slotCount, listPages, growing>>
    BY <1>1, <1>2, CreatedEffect
  <2>2. full \in Empty /\ Empty' = Empty \ {full}
    BY <2>1 DEF Empty, In
  <2>3. unUsedSlots' = Decrement(unUsedSlots) /\ emp' = emp /\ why' = why
    BY <1>2 DEF Created, ctl
  <2>4. SlotAccounting' /\ unUsedSlots' = unUsedSlots - 1
    <3>1. unUsedSlots >= 1
      BY <1>1 DEF AtLeast
    <3> QED BY <2>2, <2>3, <3>1, SlotTaken
  <2>5. emp # 0
    <3>1. emp \in Indices
      BY <1>1 DEF IInv, LocalsAgree, In
    <3> QED BY <3>1 DEF Indices
  <2>6. EnoughLeft'
    <3>1. AtLeast(4, 6)'
      BY <1>1, <2>1, <2>4 DEF AtLeast
    <3> QED BY <2>1, <2>3, <2>5, <3>1 DEF EnoughLeft, AtCreate, AtRelease
  <2> QED BY <1>1, <2>1, <2>3, <2>4, <2>6 DEF Counted, NoInternalError
<1>3. ASSUME UNCHANGED <<slots, slotCount, listPages, unUsedSlots, growing, why>>,
             \/ pc' = "leave" /\ ~ growing
             \/ pc' = "last"
             \/ pc' = "reduce" /\ red'.from = "retry"
      PROVE  Counted'
  <2>1. AtLeast(5, 7)' /\ (~ growing' => unUsedSlots' >= 7)
    BY <1>1, <1>3 DEF AtLeast
  <2>2. pc' = "leave" => ~ growing' /\ unUsedSlots' >= 5
    BY <1>1, <1>3, <2>1
  <2>3. EnoughLeft'
    BY <1>3, <2>1, <2>2 DEF EnoughLeft, AtCreate, AtRelease
  <2> QED BY <1>1, <1>3, <2>3, SameCount DEF NoInternalError
<1>4. ASSUME NoMemory PROVE Counted'
  <2>1. growing = FALSE
    BY <1>1, <1>4 DEF TableGrows, NoMemory
  <2>2. /\ growing' = growing /\ pc' = "leave"
        /\ UNCHANGED <<slots, slotCount, listPages, unUsedSlots, why>>
    BY <1>4, <2>1 DEF NoMemory, mem
  <2> QED BY <1>3, <2>1, <2>2
<1>5. ASSUME NEW n, CreateFailed(n) PROVE Counted'
  BY <1>3, <1>4, <1>5 DEF CreateFailed, Reduce, mem
<1>6. ASSUME NEW n, RetryFailed(n) PROVE Counted'
  BY <1>3, <1>4, <1>6 DEF RetryFailed, Reduce, mem, ctl
<1>7. ASSUME NEW n, LastFailed(n) PROVE Counted'
  BY <1>4, <1>7, StopCount DEF LastFailed
<1> QED BY <1>2, <1>5, <1>6, <1>7 DEF Create, Retry, Last

(* The live and dead pages of a block are its own, so they are mapped.      *)
LEMMA CarveMapped ==
  ASSUME IInv, RequestFits, Carve
  PROVE  LivePages(Current, slots[full].base)
           \cup DeadPages(Current, slots[full].base) \subseteq Mapped
<1> DEFINE r == Current
           s == slots[full]
           b == s.base
           n == InternalPages(r)
           block == b .. b + n - 1
<1>1. ValidRequest(r) /\ n \in Nat
  BY CurrentFacts
<1>2. full \in Indices /\ s.len >= n /\ s \in Slot
  BY DEF Carve, IInv, LocalsAgree, In, MemoryOK
<1>3. b \in Nat /\ s.len \in Nat /\ Pages(s) = b .. b + s.len - 1
  BY <1>2 DEF Slot, Pages
<1>4. r.userSize # 0 => (r.protectBelow => r.alignment <= PageSize)
  BY DEF RequestFits, Current, TableRequest
<1> HIDE DEF r, s
<1>5. LivePages(r, b) \subseteq block
  <2>1. r.userSize # 0 => LivePages(r, b) \subseteq block
    BY <1>1, <1>3, <1>4, BufferPages
  <2>2. r.userSize = 0 => LivePages(r, b) \subseteq block
    BY <1>1 DEF ProtPage, DeadPages, LivePages, InternalPages
  <2> QED BY <2>1, <2>2
<1>6. DeadPages(r, b) \subseteq block
  BY <1>1, <1>3, DeadWithin
<1> HIDE DEF n, b
<1>7. block \subseteq Pages(s)
  BY <1>1, <1>2, <1>3
<1>8. \A p \in Pages(s) : p \in 1 .. NPages /\ page[p] # "unmapped"
  BY <1>2, SlotPageFacts DEF s
<1>9. Pages(s) \subseteq Mapped
  BY <1>8 DEF Mapped
<1> QED BY <1>5, <1>6, <1>7, <1>9 DEF r, s, b

LEMMA CarveCount ==
  ASSUME IInv, TInv, RequestFits, Counted, Carve
  PROVE  Counted'
<1> DEFINE s == slots[full]
           n == InternalPages(Current)
           split == s.len > n
<1>1. /\ pc = "carve" /\ unUsedSlots \in Nat /\ growing \in BOOLEAN
      /\ emp # 0 /\ AtLeast(4, 6)
      /\ NoInternalError
      /\ AfterAllocate \in IF growing THEN {"swap"} ELSE {"move", "leave"}
  BY CountFacts DEF Carve, EnoughLeft, AfterAllocate
<1>2. /\ full \in Indices /\ s \in Slot /\ s.state = "FREE"
      /\ emp \in Indices /\ slots[emp].state = "EMPTY"
  BY <1>1 DEF IInv, LocalsAgree, In, MemoryOK
<1>3. /\ slots' = [i \in Indices |->
                     IF i = full THEN UsedSlot(Current, s.base)
                     ELSE IF split /\ i = emp THEN RestSlot(s, n) ELSE slots[i]]
      /\ unUsedSlots' = IF split THEN Decrement(unUsedSlots) ELSE unUsedSlots
      /\ pc' = AfterAllocate
      /\ UNCHANGED <<slotCount, listPages, ctl, why>>
  BY <1>1, CarveMapped DEF Carve
<1>4. Indices' = Indices /\ growing' = growing
  BY <1>3 DEF Indices, ctl
<1>5. /\ slots'[full].state = "IN_USE"
      /\ split => slots'[emp].state = "FREE"
      /\ \A i \in Indices \ {full} : ~ (split /\ i = emp) => slots'[i] = slots[i]
  <2>1. UsedSlot(Current, s.base).state = "IN_USE"
    BY DEF UsedSlot
  <2>2. RestSlot(s, n).state = "FREE"
    BY <1>2 DEF RestSlot, Slot
  <2> HIDE DEF n, split, s
  <2>3. full # emp
    BY <1>2 DEF s
  <2> QED BY <1>2, <1>3, <2>1, <2>2, <2>3
<1> HIDE DEF split, s, n
<1>6. SlotAccounting' /\ unUsedSlots' >= unUsedSlots - 1 /\ unUsedSlots' \in Int
  <2>1. CASE split
    <3>1. emp \in Empty /\ Empty' = Empty \ {emp}
      BY <1>2, <1>4, <1>5, <2>1 DEF Empty, In, s
    <3> QED BY <1>1, <1>3, <2>1, <3>1, SlotTaken DEF AtLeast
  <2>2. CASE ~ split
    <3>1. Empty' = Empty
      BY <1>2, <1>4, <1>5, <2>2 DEF Empty, In, s
    <3> QED BY <1>1, <1>3, <2>2, <3>1 DEF Counted, SlotAccounting, Empty
  <2> QED BY <2>1, <2>2
<1>7. EnoughLeft'
  BY <1>1, <1>3, <1>4, <1>6 DEF EnoughLeft, AtLeast, AtCreate, AtRelease
<1> QED BY <1>1, <1>3, <1>6, <1>7 DEF Counted, NoInternalError

(* A counter that counts the slots cannot wrap.                             *)
LEMMA SlotsCountable ==
  ASSUME ManySlots, NEW n \in Nat, n <= NPages
  PROVE  n * SlotsPerPage < SIZE_MOD
<1>1. NPages \in Nat /\ SlotsPerPage \in Nat /\ SIZE_MOD \in Nat
  BY HeapAssumption
<1>2. n * SlotsPerPage <= NPages * SlotsPerPage
  BY <1>1, Distribute
<1>3. n * SlotsPerPage \in Nat /\ NPages * SlotsPerPage \in Nat
  BY <1>1
<1> QED BY <1>1, <1>2, <1>3 DEF ManySlots

LEMMA IntervalSplit ==
  ASSUME NEW n \in Nat, NEW k \in Nat
  PROVE  /\ 1 .. n + k = (1 .. n) \cup (n + 1 .. n + k)
         /\ (1 .. n) \cap (n + 1 .. n + k) = {}
OBVIOUS

LEMMA IntervalSize ==
  ASSUME NEW n \in Nat, NEW k \in Nat
  PROVE  IsFiniteSet(n + 1 .. n + k) /\ Cardinality(n + 1 .. n + k) = k
<1> DEFINE a == n + 1
           b == n + k
<1>1. a \in Int /\ b \in Int
  OBVIOUS
<1>2. (IF a > b THEN 0 ELSE b - a + 1) = k
  OBVIOUS
<1> HIDE DEF a, b
<1>3. /\ IsFiniteSet(a .. b)
      /\ Cardinality(a .. b) = IF a > b THEN 0 ELSE b - a + 1
  BY <1>1, FS_Interval
<1> QED BY <1>2, <1>3 DEF a, b

(* The exchange of the table adds the slots of a page, all of them empty.   *)
LEMMA SwapCount ==
  ASSUME IInv, TInv, ManySlots, Counted, Swap
  PROVE  Counted'
<1> DEFINE more == slotCount + 1 .. slotCount + SlotsPerPage
<1>1. /\ pc = "swap" /\ pc' = "dealloc" /\ unUsedSlots >= 3
      /\ slotCount' = slotCount + SlotsPerPage
      /\ slots' = [i \in 1 .. slotCount + SlotsPerPage |->
                     IF i \in Indices THEN slots[i] ELSE EmptySlot]
      /\ listPages' = listPages + 1
      /\ unUsedSlots' = (unUsedSlots + SlotsPerPage) % SIZE_MOD
      /\ growing' = growing /\ why' = why
  BY CountFacts DEF Swap, EnoughLeft
<1>2. /\ growing = TRUE
      /\ slotCount \in Nat /\ listPages \in Nat /\ unUsedSlots \in Nat
      /\ SlotsPerPage \in Nat /\ SlotsPerPage >= 7 /\ NPages \in Nat
  <2>1. growing
    BY <1>1 DEF TInv, NewTable
  <2>2. growing \in BOOLEAN /\ unUsedSlots \in Nat
    BY CountFacts
  <2>3. SlotsPerPage >= 7
    BY HeapAssumption DEF ManySlots
  <2> QED BY <2>1, <2>2, <2>3, HeapAssumption DEF IInv, Scalars
<1>3. listPages + 1 <= NPages
  <2> DEFINE new == PageOf(slots[full].user)
  <2>1. full \in Indices /\ new .. new + listPages \subseteq Pages(slots[full])
    BY <1>1 DEF IInv, LocalsAgree, TableKept
  <2>2. new \in Pages(slots[full])
    BY <1>1, <2>1 DEF IInv, MemoryOK, SlotOK, TableKept
  <2>3. new \in 1 .. NPages
    BY <2>1, <2>2, SlotPageFacts
  <2>4. new + listPages \in new .. new + listPages
    BY <1>2, <2>3
  <2>5. new + listPages \in 1 .. NPages
    BY <2>1, <2>4, SlotPageFacts
  <2> HIDE DEF new
  <2> QED BY <1>2, <2>3, <2>5
<1>4. slotCount' = listPages' * SlotsPerPage /\ slotCount' < SIZE_MOD
  <2>1. slotCount = listPages * SlotsPerPage
    BY DEF Counted
  <2>2. (listPages + 1) * SlotsPerPage = listPages * SlotsPerPage + SlotsPerPage
    BY <1>2
  <2>3. (listPages + 1) * SlotsPerPage < SIZE_MOD
    <3>1. listPages + 1 \in Nat
      BY <1>2
    <3> QED BY <1>3, <3>1, SlotsCountable
  <2> QED BY <1>1, <2>1, <2>2, <2>3
<1>5. Empty' = Empty \cup more /\ Empty \cap more = {}
  <2>1. Indices' = 1 .. slotCount + SlotsPerPage
    BY <1>1 DEF Indices
  <2>2. \A i \in Indices' : slots'[i] = IF i \in Indices THEN slots[i] ELSE EmptySlot
    BY <1>1, <2>1
  <2>3. Indices' = Indices \cup more /\ Indices \cap more = {}
    BY <1>2, <2>1, IntervalSplit DEF Indices
  <2>4. EmptySlot.state = "EMPTY"
    BY DEF EmptySlot
  <2> HIDE DEF more
  <2> QED BY <2>2, <2>3, <2>4 DEF Empty, In
<1>6. Cardinality(Empty') = Cardinality(Empty) + SlotsPerPage
  <2>1. IsFiniteSet(more) /\ Cardinality(more) = SlotsPerPage
    BY <1>2, IntervalSize
  <2> HIDE DEF more
  <2>2. IsFiniteSet(Empty) /\ Cardinality(Empty) \in Nat
    BY EmptyFacts
  <2>3. Cardinality(Empty \cup more)
          = Cardinality(Empty) + Cardinality(more) - Cardinality(Empty \cap more)
    BY <2>1, <2>2, FS_Union
  <2>4. Cardinality(Empty \cap more) = 0
    BY <1>5, FS_EmptySet
  <2> QED BY <1>2, <1>5, <2>1, <2>2, <2>3, <2>4
<1> HIDE DEF more
<1>7. unUsedSlots' = unUsedSlots + SlotsPerPage /\ unUsedSlots' <= Cardinality(Empty')
  <2>1. unUsedSlots <= Cardinality(Empty)
    BY DEF Counted, SlotAccounting, Empty
  <2>2. Cardinality(Empty) <= slotCount /\ Cardinality(Empty) \in Nat
    BY EmptyFacts
  <2>3. /\ unUsedSlots + SlotsPerPage \in Nat
        /\ unUsedSlots + SlotsPerPage <= slotCount'
        /\ slotCount' \in Nat /\ SIZE_MOD \in Nat
    BY <1>1, <1>2, <2>1, <2>2, HeapAssumption
  <2>4. unUsedSlots + SlotsPerPage < SIZE_MOD
    BY <1>4, <2>3
  <2>5. unUsedSlots' = unUsedSlots + SlotsPerPage
    BY <1>1, <2>3, <2>4, CountUp
  <2> QED BY <1>2, <1>6, <2>1, <2>2, <2>5
<1>8. EnoughLeft'
  <2>1. AtLeast(6, 5)'
    BY <1>1, <1>2, <1>7 DEF AtLeast
  <2> QED BY <1>1, <2>1 DEF EnoughLeft, AtCreate, AtRelease
<1> QED BY <1>1, <1>4, <1>7, <1>8, CountFacts
        DEF Counted, NoInternalError, SlotAccounting, Empty

(* _duma_realloc() goes on to release the old buffer.                       *)
LEMMA MoveCount ==
  ASSUME IInv, Counted, Move
  PROVE  Counted'
<1>1. CASE Stop("unknown address") \/ Stop("segmentation fault")
  BY <1>1, StopCount
<1>2. CASE pc' = "dealloc" /\ UNCHANGED <<mem, req, growing, full, emp, red, why>>
  <2>1. growing = FALSE /\ unUsedSlots >= 5
    BY CountFacts DEF Move, EnoughLeft, IInv, LocalsAgree
  <2>2. AtLeast(6, 5)'
    BY <1>2, <2>1 DEF AtLeast, mem
  <2>3. EnoughLeft'
    BY <1>2, <2>2 DEF EnoughLeft, AtCreate, AtRelease
  <2> QED BY <1>2, <2>3, SameCount, CountFacts DEF NoInternalError, mem
<1> QED BY <1>1, <1>2 DEF Move

(* The old table has a slot of its own, so its release is never skipped.    *)
LEMMA DeallocateCount ==
  ASSUME IInv, TInv, Counted, Deallocate
  PROVE  Counted'
<1>1. pc = "dealloc" /\ AtLeast(6, 5) /\ growing \in BOOLEAN /\ unUsedSlots \in Nat
  BY CountFacts DEF Deallocate, EnoughLeft
<1>2. CASE Stop("unknown address") \/ Stop("already freed") \/ Stop("free mismatch")
  BY <1>2, StopCount
<1>3. CASE addr \in {NULL, NullAddr} /\ pc' = "leave" /\ UNCHANGED <<mem, ctl, why>>
  <2>1. ~ growing
    BY <1>1, <1>3 DEF TInv, OldTable
  <2>2. unUsedSlots' >= 5
    BY <1>1, <1>3, <2>1 DEF AtLeast, mem
  <2>3. EnoughLeft'
    BY <1>3, <2>2 DEF EnoughLeft, AtCreate, AtRelease
  <2> QED BY <1>3, <2>3, SameCount, CountFacts DEF NoInternalError, mem
<1>4. ASSUME NEW kB,
             \/ Reduce(kB, "release")
             \/ pc' = "release" /\ red' = red,
             UNCHANGED <<mem, req, growing, emp, addr, why>>
      PROVE  Counted'
  <2>1. pc' = "release" \/ (pc' = "reduce" /\ red'.from = "release")
    BY <1>4 DEF Reduce
  <2>2. AtLeast(6, 5)'
    BY <1>1, <1>4 DEF AtLeast, mem
  <2>3. EnoughLeft'
    BY <2>1, <2>2 DEF EnoughLeft, AtCreate, AtRelease
  <2> QED BY <1>4, <2>3, SameCount, CountFacts DEF NoInternalError, mem
<1>5. ASSUME NEW i \in Indices,
             IF MustReduce(KBOf(slots[i].len))
               THEN Reduce(KBOf(slots[i].len), "release")
               ELSE pc' = "release" /\ red' = red,
             UNCHANGED <<mem, req, growing, emp, addr, why>>
      PROVE  Counted'
  BY <1>4, <1>5
<1> QED BY <1>2, <1>3, <1>5 DEF Deallocate

(* The release of a block empties its slot and counts it, or keeps the      *)
(* block protected; allocateMoreSlots() never keeps the old table.          *)
LEMMA ReleaseCount ==
  ASSUME IInv, TInv, ManySlots, Counted, Release
  PROVE  Counted'
<1>1. /\ full \in Indices /\ slots[full].state # "EMPTY"
      /\ \A i \in Indices \ {full} : slots'[i] = slots[i]
      /\ pc = "release" /\ pc' = AfterDeallocate /\ growing' = FALSE
      /\ Indices' = Indices /\ slotCount' = slotCount /\ listPages' = listPages
  BY ReleaseEffect
<1>2. /\ unUsedSlots \in Nat /\ growing \in BOOLEAN /\ AtLeast(6, 5)
      /\ NoInternalError /\ SIZE_MOD \in Nat
  BY <1>1, CountFacts, HeapAssumption DEF EnoughLeft, AtRelease
<1>3. slots \in [Indices -> Slot] /\ listPages \in Nat /\ slotCount \in Nat
  BY DEF IInv, MemoryOK, Scalars
<1>4. full \notin Empty
  BY <1>1 DEF Empty, In
<1>5. NoInternalError'
  BY <1>2 DEF Release, NoInternalError
<1>6. unUsedSlots <= Cardinality(Empty) /\ slotCount = listPages * SlotsPerPage
  BY DEF Counted, SlotAccounting, Empty
<1>7. CASE MayProtect(slots[full])
  <2>1. slots[full].alloc # "INTERNAL"
    BY <1>7 DEF MayProtect
  <2>2. ~ growing
    BY <1>1, <2>1 DEF TInv, Released, AtRelease, Current, TableRequest
  <2>3. slots' = [slots EXCEPT ![full].state = "ALL_PROTECTED"]
        /\ unUsedSlots' = unUsedSlots
    BY <1>7 DEF Release
  <2>4. slots'[full].state # "EMPTY"
    <3>1. slots'[full] = [slots[full] EXCEPT !.state = "ALL_PROTECTED"]
      BY <1>1, <1>3, <2>3
    <3>2. slots[full] \in Slot
      BY <1>1, <1>3
    <3> QED BY <3>1, <3>2 DEF Slot
  <2>5. Empty' = Empty
    BY <1>1, <2>4 DEF Empty, In
  <2>6. pc' = "leave" /\ unUsedSlots' >= 5
    BY <1>1, <1>2, <2>2, <2>3 DEF AfterDeallocate, AtLeast
  <2>7. EnoughLeft'
    BY <2>6 DEF EnoughLeft, AtCreate, AtRelease
  <2> QED BY <1>1, <1>5, <1>6, <2>3, <2>5, <2>7
          DEF Counted, SlotAccounting, Empty
<1>8. CASE ~ MayProtect(slots[full])
  <2>1. slots' = [slots EXCEPT ![full] = EmptySlot]
        /\ unUsedSlots' = (unUsedSlots + 1) % SIZE_MOD
    BY <1>8 DEF Release
  <2>2. slots'[full].state = "EMPTY"
    BY <1>1, <1>3, <2>1 DEF EmptySlot
  <2>3. Empty' = Empty \cup {full}
    BY <1>1, <2>2 DEF Empty, In
  <2>4. Cardinality(Empty') = Cardinality(Empty) + 1
    BY <1>4, <2>3, SlotEmptied
  <2>5. Cardinality(Empty') <= slotCount
    <3>1. IsFiniteSet(Indices) /\ Cardinality(Indices) = slotCount
      BY <1>3, IndicesSize
    <3>2. Empty' \in SUBSET Indices
      BY <1>1 DEF Empty, In
    <3> QED BY <3>1, <3>2, FS_Subset
  <2>6. unUsedSlots' = unUsedSlots + 1
    <3>1. slotCount < SIZE_MOD
      BY <1>3, <1>6, TableBounded, SlotsCountable
    <3>2. Cardinality(Empty) \in Nat
      BY EmptyFacts
    <3>3. unUsedSlots + 1 < SIZE_MOD /\ unUsedSlots + 1 \in Nat
      BY <1>2, <1>3, <1>6, <2>4, <2>5, <3>1, <3>2
    <3> QED BY <2>1, <3>3, CountUp
  <2>7. SlotAccounting'
    <3>1. Cardinality(Empty) \in Nat
      BY EmptyFacts
    <3> QED BY <1>2, <1>6, <2>4, <2>6, <3>1 DEF SlotAccounting, Empty
  <2>8. CASE growing
    <3>1. pc' = "search" /\ unUsedSlots' >= 7
      BY <1>1, <1>2, <2>6, <2>8 DEF AfterDeallocate, AtLeast
    <3>2. AtLeast(5, 7)'
      BY <1>1, <3>1 DEF AtLeast
    <3>3. EnoughLeft'
      BY <3>1, <3>2 DEF EnoughLeft, AtCreate, AtRelease
    <3> QED BY <1>1, <1>5, <1>6, <2>7, <3>3 DEF Counted
  <2>9. CASE ~ growing
    <3>1. pc' = "leave" /\ unUsedSlots' >= 5
      BY <1>1, <1>2, <2>6, <2>9 DEF AfterDeallocate, AtLeast
    <3>2. EnoughLeft'
      BY <3>1 DEF EnoughLeft, AtCreate, AtRelease
    <3> QED BY <1>1, <1>5, <1>6, <2>7, <3>2 DEF Counted
  <2> QED BY <2>8, <2>9
<1> QED BY <1>7, <1>8

(* The return from a round of reduceProtectedMemory(), or the next round.   *)
LEMMA ReturnCount ==
  ASSUME IInv, EnoughLeft, pc = "reduce", pc' \in {"reduce", red.from},
         red'.from = red.from, growing' = growing, unUsedSlots' = unUsedSlots
  PROVE  EnoughLeft'
<1>1. red.from \in {"create", "retry", "release"}
  BY DEF IInv, Scalars, Reduction, LocalsAgree
<1>2. CASE red.from \in {"create", "retry"}
  <2>1. AtLeast(5, 7)
    BY <1>2 DEF EnoughLeft, AtCreate
  <2>2. AtLeast(5, 7)'
    BY <2>1 DEF AtLeast
  <2> QED BY <1>2, <2>2 DEF EnoughLeft, AtCreate, AtRelease
<1>3. CASE red.from = "release"
  <2>1. AtLeast(6, 5)
    BY <1>3 DEF EnoughLeft, AtRelease
  <2>2. AtLeast(6, 5)'
    BY <2>1 DEF AtLeast
  <2> QED BY <1>3, <2>2 DEF EnoughLeft, AtCreate, AtRelease
<1> QED BY <1>1, <1>2, <1>3

(* reduceProtectedMemory() empties slots without counting them.             *)
LEMMA ReduceCount ==
  ASSUME IInv, Counted, ReduceToBegin \/ ReduceToEmpty
  PROVE  Counted'
<1>1. PICK i \in In({"ALL_PROTECTED", "BEGIN_PROTECTED"}) :
        /\ slots'[i].state \in {"BEGIN_PROTECTED", "EMPTY"}
        /\ \A j \in Indices \ {i} : slots'[j] = slots[j]
        /\ pc = "reduce" /\ pc' \in {"reduce", red.from}
        /\ red'.from = red.from /\ Indices' = Indices
        /\ slotCount' = slotCount /\ listPages' = listPages /\ growing' = growing
  BY ReduceEffect
<1>2. unUsedSlots' = unUsedSlots /\ why' = why
  BY DEF ReduceToBegin, ReduceToEmpty
<1>3. /\ unUsedSlots \in Nat /\ NoInternalError /\ EnoughLeft
      /\ slotCount = listPages * SlotsPerPage
      /\ unUsedSlots <= Cardinality(Empty)
  BY CountFacts DEF Counted, SlotAccounting, Empty
<1>4. i \in Indices /\ i \notin Empty
  BY <1>1 DEF In, Empty
<1>5. Empty' = Empty \/ Empty' = Empty \cup {i}
  BY <1>1, <1>4 DEF Empty, In
<1>6. SlotAccounting'
  <2>1. Cardinality(Empty') >= Cardinality(Empty) /\ Cardinality(Empty) \in Nat
    BY <1>4, <1>5, SlotEmptied, EmptyFacts
  <2>2. Cardinality(Empty') \in Int
    BY <1>4, <1>5, <2>1, SlotEmptied
  <2> QED BY <1>2, <1>3, <2>1, <2>2 DEF SlotAccounting, Empty
<1>7. EnoughLeft'
  BY <1>1, <1>2, <1>3, ReturnCount
<1> QED BY <1>1, <1>2, <1>3, <1>6, <1>7 DEF Counted, NoInternalError

LEMMA ReduceExhaustedCount ==
  ASSUME IInv, Counted, ReduceExhausted
  PROVE  Counted'
<1>1. /\ pc = "reduce" /\ pc' = red.from /\ red'.from = red.from
      /\ UNCHANGED <<mem, growing, why>>
  BY DEF ReduceExhausted, IInv, Scalars, Reduction
<1>2. EnoughLeft'
  BY <1>1, CountFacts, ReturnCount DEF mem
<1> QED BY <1>1, <1>2, SameCount, CountFacts DEF NoInternalError, mem

LEMMA LeaveCount ==
  ASSUME Counted, Leave
  PROVE  Counted'
<1>1. /\ pc = "leave" /\ pc' = "idle"
      /\ UNCHANGED <<slots, slotCount, listPages, unUsedSlots, why>>
  BY DEF Leave
<1>2. unUsedSlots >= 5
  BY <1>1 DEF Counted, EnoughLeft
<1>3. EnoughLeft'
  BY <1>1, <1>2 DEF EnoughLeft, AtCreate, AtRelease
<1> QED BY <1>1, <1>3, SameCount DEF Counted, NoInternalError

LEMMA InitCount ==
  ASSUME Init, ManySlots
  PROVE  Counted
<1>1. /\ slotCount = SlotsPerPage /\ listPages = 1
      /\ unUsedSlots = SlotsPerPage - 2 /\ pc = "idle" /\ why = "running"
      /\ SlotsPerPage \in Nat /\ SlotsPerPage >= 7
  BY HeapAssumption DEF Init, ManySlots
<1>2. \A i \in Indices : i \notin {1, 2} => slots[i].state = "EMPTY"
  <2>1. slots = [i \in 1 .. SlotsPerPage |->
                   IF i = 1 THEN FirstTable
                   ELSE IF i = 2 /\ CreationPages > 1 THEN FirstFree
                   ELSE EmptySlot]
    BY DEF Init
  <2> QED BY <1>1, <2>1 DEF Indices, EmptySlot
<1>3. 3 .. SlotsPerPage \in SUBSET Empty
  BY <1>1, <1>2 DEF Empty, In, Indices
<1>4. IsFiniteSet(Empty)
  BY InitInv, EmptyFacts
<1>5. Cardinality(3 .. SlotsPerPage) = SlotsPerPage - 2
  <2>1. Cardinality(3 .. SlotsPerPage)
          = IF 3 > SlotsPerPage THEN 0 ELSE SlotsPerPage - 3 + 1
    BY <1>1, FS_Interval
  <2> QED BY <1>1, <2>1
<1>6. SlotAccounting
  BY <1>1, <1>3, <1>4, <1>5, FS_Subset DEF SlotAccounting, Empty
<1>7. EnoughLeft
  BY <1>1 DEF EnoughLeft, AtCreate, AtRelease
<1>8. slotCount = listPages * SlotsPerPage
  BY <1>1
<1>9. NoInternalError
  BY <1>1 DEF NoInternalError
<1> QED BY <1>6, <1>7, <1>8, <1>9 DEF Counted

LEMMA NextCount ==
  ASSUME ManySlots, IInv, TInv, PagesInv, Counted, TableGrows, [Next]_vars
  PROVE  Counted'
<1>1. CASE CallAny
  BY <1>1, CallCount
<1>2. CASE Create \/ Retry \/ Last
  BY <1>2, CreateCount
<1>3. CASE Step
  BY <1>2, <1>3, SearchCount, CarveCount, SwapCount, MoveCount, DeallocateCount,
     ReleaseCount, ReduceCount, ReduceExhaustedCount, LeaveCount
     DEF Step, PagesInv
<1>4. CASE UNCHANGED vars
  <2>1. UNCHANGED <<slots, slotCount, listPages, unUsedSlots, pc, growing, why,
                    emp, red>>
    BY <1>4 DEF vars, mem, ctl
  <2>2. EnoughLeft' /\ NoInternalError'
    BY <2>1 DEF Counted, EnoughLeft, NoInternalError, AtLeast, AtCreate, AtRelease
  <2> QED BY <2>1, <2>2, SameCount
<1> QED BY <1>1, <1>3, <1>4 DEF Next, Finished

LEMMA CountInductive ==
  ASSUME NoSpill, ManySlots
  PROVE  Spec /\ [][TableGrows]_vars => [](IInv /\ Counted)
<1>1. Init => IInv /\ TInv /\ PagesInv /\ Counted
  BY InitInv, InitTables, InitPages, InitCount
<1>2. IInv /\ TInv /\ PagesInv /\ Counted /\ [Next]_vars /\ [TableGrows]_vars
        => (IInv /\ TInv /\ PagesInv /\ Counted)'
  <2>1. IInv /\ TInv /\ PagesInv /\ [Next]_vars => (IInv /\ TInv /\ PagesInv)'
    BY NextInv, NextTables, RequestStep, PagesStep DEF PagesInv
  <2>2. ASSUME IInv, TInv, PagesInv, Counted, [Next]_vars, [TableGrows]_vars
        PROVE  Counted'
    <3>1. CASE TableGrows
      BY <2>2, <3>1, NextCount
    <3>2. CASE UNCHANGED vars
      <4>1. TableGrows
        BY <3>2 DEF TableGrows, vars, ctl
      <4> QED BY <2>2, <4>1, NextCount
    <3> QED BY <2>2, <3>1, <3>2
  <2> QED BY <2>1, <2>2
<1> QED BY <1>1, <1>2, PTL DEF Spec

(* As long as allocateMoreSlots() gets its memory, there are at least as    *)
(* many empty slots as unUsedSlots promises: every step that takes or       *)
(* empties a slot counts it or errs on the safe side, and the counter never *)
(* wraps.                                                                   *)
THEOREM Accounts ==
  ASSUME NoSpill, ManySlots
  PROVE  Spec /\ [][TableGrows]_vars => []SlotAccounting
BY CountInductive, PTL DEF Counted

(* As long as allocateMoreSlots() gets its memory, the growth at seven      *)
(* slots comes early enough: no "Internal error in allocator", no use of an *)
(* emptySlots[0] that was not found, and no mprotect() of unmapped pages.   *)
THEOREM NoErrors ==
  ASSUME NoSpill, ManySlots
  PROVE  Spec /\ [][TableGrows]_vars => []NoInternalError
BY CountInductive, PTL DEF Counted

-----------------------------------------------------------------------------
(* One of the two parts of NoInternalError.                                 *)
MprotectSucceeds == why # "mprotect failed"

(* mprotect() is called for the pages of a new block.                       *)
LEMMA ProtectStep ==
  ASSUME IInv, RequestFits, MprotectSucceeds, [Next]_vars
  PROVE  MprotectSucceeds'
<1> SUFFICES why' # "mprotect failed"
  BY DEF MprotectSucceeds
<1>0. why # "mprotect failed"
  BY DEF MprotectSucceeds
<1>1. CASE UNCHANGED vars
  BY <1>0, <1>1 DEF vars
<1>2. ASSUME NEW reason, Stop(reason), reason # "mprotect failed"
      PROVE  why' # "mprotect failed"
  BY <1>0, <1>2 DEF Stop
<1>3. CASE CallAny
  <2>1. ASSUME NEW r, NEW opened, BeginAllocate(r, opened)
        PROVE  why' # "mprotect failed"
    BY <1>0, <1>2, <2>1 DEF BeginAllocate
  <2>2. ASSUME NEW a, NEW r, BeginDeallocate(a, r)
        PROVE  why' # "mprotect failed"
    BY <1>0, <2>2 DEF BeginDeallocate
  <2>3. ASSUME NEW a, Check(a) PROVE why' # "mprotect failed"
    BY <1>0, <1>2, <2>3 DEF Check
  <2>4. ASSUME NEW a, MallocUsableSize(a) PROVE why' # "mprotect failed"
    BY <1>0, <1>2, <2>4 DEF MallocUsableSize
  <2>5. ASSUME NEW a, NEW t, Free(a, t) PROVE why' # "mprotect failed"
    BY <1>0, <2>2, <2>5 DEF Free
  <2>6. ASSUME NEW a, NEW n, NEW b, Realloc(a, n, b)
        PROVE  why' # "mprotect failed"
    BY <2>1, <2>2, <2>6 DEF Realloc
  <2>7. ASSUME NEW n, NEW t, NEW b, Allocate(n, t, b) \/ Memalign(t, n, b)
        PROVE  why' # "mprotect failed"
    BY <2>1, <2>7 DEF Allocate, Memalign
  <2>8. ASSUME NEW a, NEW n, NEW b, PosixMemalign(a, n, b)
        PROVE  why' # "mprotect failed"
    BY <1>0, <2>7, <2>8 DEF PosixMemalign
  <2> QED BY <1>0, <1>3, <2>3, <2>4, <2>5, <2>6, <2>7, <2>8 DEF CallAny, CheckAll
<1>4. CASE SearchFound \/ SearchFailed
  BY <1>0, <1>2, <1>4 DEF SearchFound, SearchFailed
<1>5. CASE Create \/ Retry \/ Last
  BY <1>0, <1>2, <1>5 DEF Create, Retry, Last, Created, CreateFailed, RetryFailed,
     LastFailed, NoMemory
<1>6. CASE Carve
  <2>1. ~ (~ (LivePages(Current, slots[full].base)
              \cup DeadPages(Current, slots[full].base) \subseteq Mapped))
    BY <1>6, CarveMapped
  <2> QED BY <1>0, <1>2, <1>6, <2>1 DEF Carve
<1>7. CASE Swap \/ Move \/ Deallocate \/ Release
  BY <1>0, <1>2, <1>7 DEF Swap, Move, Deallocate, Release
<1>8. CASE ReduceToBegin \/ ReduceToEmpty \/ ReduceExhausted \/ Leave
  BY <1>0, <1>2, <1>8 DEF ReduceToBegin, ReduceToEmpty, ReduceExhausted, Leave
<1> QED BY <1>1, <1>3, <1>4, <1>5, <1>6, <1>7, <1>8 DEF Next, Step, Finished

(* The pages whose access _duma_allocate() changes are mapped, also after   *)
(* the memory for a new block was found by giving protected blocks up, and  *)
(* whether or not the table could grow: mprotect() never fails for want of  *)
(* a page.                                                                  *)
THEOREM PagesMapped ==
  ASSUME NoSpill
  PROVE  Spec => []MprotectSucceeds
<1>1. Init => MprotectSucceeds
  BY DEF Init, MprotectSucceeds
<1>2. IInv /\ PagesInv /\ MprotectSucceeds /\ [Next]_vars => MprotectSucceeds'
  BY ProtectStep DEF PagesInv
<1> QED BY <1>1, <1>2, PagesInductive, PTL DEF Spec

-----------------------------------------------------------------------------
(* How far a call is from its end: an order of the places it passes, twice  *)
(* for a call that lets the table grow first.                               *)
Place ==
  CASE pc = "search"                         -> 11
    [] pc = "reduce" /\ red.from = "create"  -> 10
    [] pc = "create"                         -> 9
    [] \/ pc = "reduce" /\ red.from = "retry"
       \/ pc = "retry"                       -> 8
    [] pc = "last"                           -> 7
    [] pc = "carve"                          -> 6
    [] pc \in {"swap", "move"}               -> 5
    [] pc = "dealloc"                        -> 4
    [] pc = "reduce" /\ red.from = "release" -> 3
    [] pc = "release"                        -> 2
    [] pc = "leave"                          -> 1
    [] OTHER                                 -> 0

Distance == Place + (IF growing THEN 12 ELSE 0)

(* What reduceProtectedMemory() can still give up: a block twice, first to  *)
(* its first pages, then those.                                             *)
Reducible ==
  2 * Cardinality(In({"ALL_PROTECTED"})) + Cardinality(In({"BEGIN_PROTECTED"}))

(* Where the loop around Page_Create() is: before a reduction, in one, or   *)
(* after one that found nothing.                                            *)
Round == CASE pc = "retry" /\ red.more -> 2 [] pc = "reduce" -> 1 [] OTHER -> 0

Shrinks ==
  \/ Distance' < Distance
  \/ Distance' = Distance /\ Reducible' < Reducible
  \/ Distance' = Distance /\ Reducible' = Reducible /\ Round' < Round

(* Every step of the library brings the call closer to its end.             *)
StepsShrink == [][Step => Shrinks]_vars

LEMMA Measured ==
  ASSUME IInv
  PROVE  Distance \in Nat /\ Reducible \in Nat /\ Round \in Nat
<1>1. Place \in Nat
  BY DEF Place
<1>2. growing \in BOOLEAN /\ slotCount \in Nat
  BY DEF IInv, Scalars
<1>3. Distance \in Nat
  BY <1>1, <1>2 DEF Distance
<1>4. Round \in Nat
  BY DEF Round
<1>5. IsFiniteSet(Indices)
  BY <1>2, IndicesSize
<1>6. /\ Cardinality(In({"ALL_PROTECTED"})) \in Nat
      /\ Cardinality(In({"BEGIN_PROTECTED"})) \in Nat
  BY <1>5, FS_Subset, FS_CardinalityType DEF In
<1> QED BY <1>3, <1>4, <1>6 DEF Reducible

(* A block that is cut or given up counts less.                             *)
LEMMA ReducedMore ==
  ASSUME IInv, ReduceToBegin \/ ReduceToEmpty
  PROVE  Reducible' < Reducible
<1> DEFINE All == In({"ALL_PROTECTED"})
           Begin == In({"BEGIN_PROTECTED"})
<1>1. slotCount \in Nat /\ slots \in [Indices -> Slot] /\ Indices' = Indices
  BY DEF IInv, Scalars, MemoryOK, ReduceToBegin, ReduceToEmpty, Indices
<1>2. IsFiniteSet(All) /\ IsFiniteSet(Begin)
  <2>1. IsFiniteSet(Indices) /\ All \in SUBSET Indices /\ Begin \in SUBSET Indices
    BY <1>1, IndicesSize DEF In
  <2> QED BY <2>1, FS_Subset
<1>3. Cardinality(All) \in Nat /\ Cardinality(Begin) \in Nat
  BY <1>2, FS_CardinalityType
<1>4. CASE ReduceToBegin
  <2>1. PICK i \in All :
          slots' = [slots EXCEPT ![i] = [@ EXCEPT !.state = "BEGIN_PROTECTED",
                                                  !.len = KeptLen(slots[i])]]
    BY <1>4 DEF ReduceToBegin, IsFirst
  <2>2. i \in Indices /\ slots[i].state = "ALL_PROTECTED"
    BY DEF In
  <2>3. /\ slots'[i].state = "BEGIN_PROTECTED"
        /\ \A j \in Indices : j # i => slots'[j] = slots[j]
    BY <1>1, <2>1, <2>2 DEF Slot
  <2>4. All' = All \ {i} /\ Begin' = Begin \cup {i} /\ i \notin Begin
    BY <1>1, <2>2, <2>3 DEF In
  <2> HIDE DEF All, Begin
  <2>5. Cardinality(All') = Cardinality(All) - 1
    BY <1>2, <2>1, <2>4, FS_RemoveElement
  <2>6. Cardinality(Begin') = Cardinality(Begin) + 1
    BY <1>2, <2>4, FS_AddElement
  <2> QED BY <1>3, <2>5, <2>6 DEF Reducible, All, Begin
<1>5. CASE ReduceToEmpty
  <2>1. PICK i \in Begin : slots' = [slots EXCEPT ![i] = EmptySlot]
    BY <1>5 DEF ReduceToEmpty, IsFirst
  <2>2. i \in Indices /\ slots[i].state = "BEGIN_PROTECTED"
    BY DEF In
  <2>3. /\ slots'[i].state = "EMPTY"
        /\ \A j \in Indices : j # i => slots'[j] = slots[j]
    BY <1>1, <2>1, <2>2 DEF EmptySlot
  <2>4. All' = All /\ Begin' = Begin \ {i}
    BY <1>1, <2>2, <2>3 DEF In
  <2> HIDE DEF All, Begin
  <2>5. Cardinality(Begin') = Cardinality(Begin) - 1
    BY <1>2, <2>1, <2>4, FS_RemoveElement
  <2>6. Cardinality(All') = Cardinality(All)
    BY <2>4
  <2> QED BY <1>3, <2>5, <2>6 DEF Reducible, All, Begin
<1> QED BY <1>4, <1>5

(* A step to a later place, within the growth of the table or outside it.   *)
LEMMA FurtherOn ==
  ASSUME growing \in BOOLEAN, Place' < Place, ~ growing => ~ growing'
  PROVE  Shrinks
BY DEF Shrinks, Distance, Place

(* A growth that is over.                                                   *)
LEMMA GrowthOver ==
  ASSUME growing, ~ growing', Place > 1 \/ Place' < 11
  PROVE  Shrinks
BY DEF Shrinks, Distance, Place

LEMMA ReducerShrinks ==
  ASSUME IInv, ReduceToBegin \/ ReduceToEmpty \/ ReduceExhausted
  PROVE  Shrinks
<1>1. /\ growing \in BOOLEAN /\ red.from \in {"create", "retry", "release"}
      /\ red \in Reduction
  BY DEF IInv, Scalars, LocalsAgree, Reduction, ReduceToBegin, ReduceToEmpty,
     ReduceExhausted
<1>2. /\ pc = "reduce" /\ pc' \in {"reduce", red.from} /\ red'.from = red.from
      /\ growing' = growing
  BY <1>1 DEF ReduceToBegin, ReduceToEmpty, ReduceExhausted, Reduced, Reduction
<1>3. CASE red.from # "retry" /\ pc' = red.from
  <2>1. Place' < Place
    BY <1>1, <1>2, <1>3 DEF Place
  <2> QED BY <1>1, <1>2, <2>1, FurtherOn
<1>4. CASE red.from = "retry" \/ pc' = "reduce"
  <2>1. Distance' = Distance
    <3>1. Place' = Place
      BY <1>1, <1>2, <1>4 DEF Place
    <3> QED BY <1>2, <3>1 DEF Distance
  <2>2. CASE ReduceToBegin \/ ReduceToEmpty
    BY <2>1, <2>2, ReducedMore DEF Shrinks
  <2>3. CASE ReduceExhausted
    <3>1. /\ slots' = slots /\ slotCount' = slotCount
          /\ red' = [red EXCEPT !.more = FALSE] /\ pc' = red.from
      BY <2>3 DEF ReduceExhausted, mem
    <3>2. Reducible' = Reducible
      BY <3>1 DEF Reducible, In, Indices
    <3>3. pc' # "reduce" /\ ~ red'.more
      BY <1>1, <3>1 DEF Reduction
    <3>4. Round = 1 /\ Round' = 0
      BY <1>2, <3>3 DEF Round
    <3> QED BY <2>1, <3>2, <3>4 DEF Shrinks
  <2> QED BY <2>2, <2>3 , <1>2 DEF ReduceToBegin
<1> QED BY <1>1, <1>2, <1>3, <1>4

LEMMA MemoryShrinks ==
  ASSUME IInv, Create \/ Retry \/ Last
  PROVE  Shrinks
<1>1. growing \in BOOLEAN /\ pc \in {"create", "retry", "last"}
  BY DEF IInv, Scalars, Create, Retry, Last
<1>2. Place \in 7 .. 9
  BY <1>1 DEF Place
<1>3. CASE Created
  <2>1. Place' = 6 /\ growing' = growing
    BY <1>3 DEF Created, Place, ctl
  <2>2. Place' < Place
    BY <1>2, <2>1
  <2> QED BY <1>1, <2>1, <2>2, FurtherOn
<1>4. CASE NoMemory
  <2>1. ~ growing' /\ pc' = (IF growing THEN "search" ELSE "leave")
    BY <1>4 DEF NoMemory
  <2>2. CASE growing
    <3>1. Place > 1
      BY <1>2
    <3> QED BY <2>1, <2>2, <3>1, GrowthOver
  <2>3. CASE ~ growing
    <3>1. Place' = 1
      BY <2>1, <2>3 DEF Place
    <3>2. Place' < Place
      BY <1>2, <3>1
    <3> QED BY <1>1, <2>1, <3>2, FurtherOn
  <2> QED BY <2>2, <2>3
<1>5. ASSUME NEW reason, Stop(reason) PROVE Shrinks
  <2>1. Place' = 0 /\ growing' = growing
    BY <1>5 DEF Stop, Place, ctl
  <2>2. Place' < Place
    BY <1>2, <2>1
  <2> QED BY <1>1, <2>1, <2>2, FurtherOn
<1>6. CASE pc = "create" /\ CreateFailed(ChunkPages(Current))
  <2>1. NoMemory \/ (pc' = "reduce" /\ red'.from = "retry" /\ growing' = growing)
    BY <1>6 DEF CreateFailed, Reduce
  <2>2. CASE pc' = "reduce" /\ red'.from = "retry" /\ growing' = growing
    <3>1. Place' = 8 /\ Place = 9
      BY <1>6, <2>2 DEF Place
    <3> QED BY <1>1, <2>2, <3>1, FurtherOn
  <2> QED BY <1>4, <2>1, <2>2
<1>7. CASE pc = "retry" /\ RetryFailed(ChunkPages(Current))
  <2>1. CASE red.more /\ Reduce(KBOf(ChunkPages(Current)), "retry")
             /\ UNCHANGED <<mem, growing>>
    <3>1. pc' = "reduce" /\ red'.from = "retry" /\ growing' = growing
      BY <2>1 DEF Reduce
    <3>2. Place' = 8 /\ Place = 8
      BY <1>7, <3>1 DEF Place
    <3>3. Distance' = Distance
      BY <3>1, <3>2 DEF Distance
    <3>4. Reducible' = Reducible
      BY <2>1 DEF Reducible, In, Indices, mem
    <3>5. Round = 2 /\ Round' = 1
      BY <1>7, <2>1, <3>1 DEF Round
    <3> QED BY <3>3, <3>4, <3>5 DEF Shrinks
  <2>2. CASE pc' = "last" /\ UNCHANGED ctl
    <3>1. Place' = 7 /\ Place = 8 /\ growing' = growing
      BY <1>7, <2>2 DEF Place, ctl
    <3> QED BY <1>1, <3>1, FurtherOn
  <2> QED BY <1>4, <1>7, <2>1, <2>2 DEF RetryFailed
<1>8. CASE pc = "last" /\ LastFailed(ChunkPages(Current))
  BY <1>4, <1>5, <1>8 DEF LastFailed
<1> QED BY <1>3, <1>6, <1>7, <1>8 DEF Create, Retry, Last

LEMMA StepShrinks ==
  ASSUME IInv, Step
  PROVE  Shrinks
<1>1. growing \in BOOLEAN
  BY DEF IInv, Scalars
<1>2. ASSUME NEW reason, Stop(reason),
             pc \in {"search", "carve", "swap", "move", "dealloc"}
      PROVE  Shrinks
  <2>1. Place' = 0 /\ growing' = growing
    BY <1>2 DEF Stop, Place, ctl
  <2>2. Place > 0
    BY <1>2 DEF Place
  <2> QED BY <1>1, <2>1, <2>2, FurtherOn
<1>3. CASE SearchFound \/ SearchFailed
  <2>1. pc = "search" /\ Place = 11
    BY <1>3 DEF SearchFound, SearchFailed, Place
  <2>2. \/ Stop("no empty slot")
        \/ /\ growing' = growing
           /\ pc' \in {"carve", "create"} \/ (pc' = "reduce" /\ red'.from = "create")
    <3>1. CASE SearchFound
      BY <3>1 DEF SearchFound, ctl
    <3>2. CASE SearchFailed
      <4>1. CASE ~ Stop("no empty slot")
        <5> DEFINE kB == KBOf(ChunkPages(Current))
        <5>1. /\ IF MAX_ALLOC > 0 /\ sumAllocatedMem + kB > MAX_ALLOC
                   THEN Reduce(kB, "create")
                   ELSE pc' = "create" /\ red' = red
              /\ UNCHANGED <<mem, req, growing, addr, why>>
          BY <3>2, <4>1, Zenon DEF SearchFailed
        <5>2. growing' = growing
          BY <5>1
        <5>3. pc' = "create" \/ Reduce(kB, "create")
          BY <5>1
        <5> HIDE DEF kB
        <5>4. pc' = "create" \/ (pc' = "reduce" /\ red'.from = "create")
          BY <5>3 DEF Reduce
        <5> QED BY <5>2, <5>4
      <4> QED BY <4>1
    <3> QED BY <1>3, <3>1, <3>2
  <2>3. CASE growing' = growing /\ (pc' \in {"carve", "create"}
                \/ (pc' = "reduce" /\ red'.from = "create"))
    <3>1. Place' < 11
      BY <2>3 DEF Place
    <3>2. Place' < Place
      BY <2>1, <3>1
    <3> QED BY <1>1, <2>3, <3>2, FurtherOn
  <2>4. ASSUME NEW reason, Stop(reason) PROVE Shrinks
    BY <1>2, <2>1, <2>4
  <2> QED BY <2>2, <2>3, <2>4
<1>4. CASE Carve
  <2>1. pc = "carve" /\ Place = 6
    BY <1>4 DEF Carve, Place
  <2>2. \/ Stop("no empty slot") \/ Stop("mprotect failed")
        \/ UNCHANGED ctl /\ pc' = AfterAllocate
    BY <1>4, Zenon DEF Carve
  <2>3. CASE UNCHANGED ctl /\ pc' = AfterAllocate
    <3>1. Place' < 6 /\ growing' = growing
      BY <2>3 DEF Place, AfterAllocate, ctl
    <3>2. Place' < Place
      BY <2>1, <3>1
    <3> QED BY <1>1, <3>1, <3>2, FurtherOn
  <2>4. ASSUME NEW reason, Stop(reason) PROVE Shrinks
    BY <1>2, <2>1, <2>4
  <2> QED BY <2>2, <2>3, <2>4
<1>5. CASE Swap \/ Move
  <2>1. pc \in {"swap", "move"} /\ Place = 5
    BY <1>5 DEF Swap, Move, Place
  <2>2. \/ Stop("unknown address") \/ Stop("segmentation fault")
        \/ growing' = growing /\ pc' = "dealloc"
    BY <1>5 DEF Swap, Move
  <2>3. CASE growing' = growing /\ pc' = "dealloc"
    <3>1. Place' = 4
      BY <2>3 DEF Place
    <3>2. Place' < Place
      BY <2>1, <3>1
    <3> QED BY <1>1, <2>3, <3>2, FurtherOn
  <2>4. ASSUME NEW reason, Stop(reason) PROVE Shrinks
    BY <1>2, <2>1, <2>4
  <2> QED BY <2>2, <2>3, <2>4
<1>6. CASE Deallocate
  <2>1. pc = "dealloc" /\ Place = 4
    BY <1>6 DEF Deallocate, Place
  <2>2. \/ \E reason : Stop(reason)
        \/ /\ growing' = growing
           /\ pc' \in {"leave", "release"} \/ (pc' = "reduce" /\ red'.from = "release")
    <3>1. CASE addr \in {NULL, NullAddr}
      BY <1>6, <3>1 DEF Deallocate, ctl
    <3>2. CASE addr \notin {NULL, NullAddr} /\ ~ \E reason : Stop(reason)
      <4>1. PICK i \in Indices :
              /\ IF MustReduce(KBOf(slots[i].len))
                   THEN Reduce(KBOf(slots[i].len), "release")
                   ELSE pc' = "release" /\ red' = red
              /\ growing' = growing
        BY <1>6, <3>2 DEF Deallocate
      <4> QED BY <4>1 DEF Reduce
    <3> QED BY <3>1, <3>2
  <2>3. CASE growing' = growing /\ (pc' \in {"leave", "release"}
                \/ (pc' = "reduce" /\ red'.from = "release"))
    <3>1. Place' < 4
      BY <2>3 DEF Place
    <3>2. Place' < Place
      BY <2>1, <3>1
    <3> QED BY <1>1, <2>3, <3>2, FurtherOn
  <2>4. ASSUME NEW reason, Stop(reason) PROVE Shrinks
    BY <1>2, <2>1, <2>4
  <2> QED BY <2>2, <2>3, <2>4
<1>7. CASE Release
  <2>1. pc = "release" /\ ~ growing' /\ pc' = (IF growing THEN "search" ELSE "leave")
    BY <1>7 DEF Release, AfterDeallocate
  <2>2. Place = 2
    BY <2>1 DEF Place
  <2>3. CASE growing
    <3>1. Place > 1
      BY <2>2
    <3> QED BY <2>1, <2>3, <3>1, GrowthOver
  <2>4. CASE ~ growing
    <3>1. Place' = 1
      BY <2>1, <2>4 DEF Place
    <3>2. Place' < Place
      BY <2>2, <3>1
    <3> QED BY <1>1, <2>1, <3>2, FurtherOn
  <2> QED BY <2>3, <2>4
<1>8. CASE Leave
  <2>1. Place = 1 /\ Place' = 0 /\ growing' = FALSE
    BY <1>8 DEF Leave, Place
  <2>2. Place' < Place
    BY <2>1
  <2> QED BY <1>1, <2>1, <2>2, FurtherOn
<1> QED BY <1>3, <1>4, <1>5, <1>6, <1>7, <1>8, MemoryShrinks, ReducerShrinks DEF Step

(* No call of the library runs for ever, whatever its loops find: not the   *)
(* one around Page_Create(), which goes on as long as reduceProtectedMemory *)
(* gives something back, not the one in reduceProtectedMemory(), not the    *)
(* search that starts over once the table has grown.  Every step of the     *)
(* library shortens what is left of the call, in an order of three numbers  *)
(* in which nothing gets shorter for ever.                                  *)
THEOREM CallsShorten ==
  Spec => [](Distance \in Nat /\ Reducible \in Nat /\ Round \in Nat) /\ StepsShrink
<1>1. IInv => Distance \in Nat /\ Reducible \in Nat /\ Round \in Nat
  BY Measured
<1>2. IInv /\ [Next]_vars => [Step => Shrinks]_vars
  BY StepShrinks
<1> QED BY <1>1, <1>2, Inductive, PTL DEF Spec, StepsShrink

=============================================================================
