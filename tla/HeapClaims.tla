----------------------------- MODULE HeapClaims -----------------------------
(***************************************************************************)
(* What comments of the source and the README say of the allocator and the  *)
(* code does not do.  Each statement is checked by a run of its own, and    *)
(* TLC finds a behaviour of DumaHeap that contradicts it.                   *)
(***************************************************************************)
EXTENDS DumaHeap

(* src/src/duma.c:514: sumProtectedMem is the "sum of protected memory in   *)
(* kB".  reduceProtectedMemory() returns 0 without subtracting what it has  *)
(* given up, so that later releases find the limit used up.                 *)
SumProtectedExact ==
  pc = "idle" => sumProtectedMem = KBOf(Cardinality(ProtectedPages))

(* src/src/duma.c:32: "and for free memory to be inaccessable".  Only the   *)
(* first chunk is protected; what a request leaves of a later chunk stays   *)
(* readable and writable.                                                   *)
FreeMemoryHidden ==
  pc = "idle" => \A i \in In({"FREE"}) :
                   \A p \in Pages(slots[i]) : page[p] = "none"

(* src/src/duma.c:30-31: "each malloc buffer to be followed (or preceded)   *)
(* in the address space by an inaccessable virtual memory page".  With      *)
(* protectBelow and an alignment above the page size _duma_allocate() makes *)
(* pages live beyond the end of its block, the dead page of a neighbour     *)
(* among them.                                                              *)
EveryBufferGuarded ==
  \A i \in InUse : slots[i].usz > 0 =>
    \/ page[PageOf(slots[i].user) - 1] = "none"
    \/ page[PageOf(slots[i].user + slots[i].usz - 1) + 1] = "none"

=============================================================================
