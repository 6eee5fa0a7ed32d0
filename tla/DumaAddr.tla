------------------------------ MODULE DumaAddr ------------------------------
(***************************************************************************)
(* The address arithmetic of _duma_allocate() (src/src/duma.c): how many    *)
(* pages the internal block of a request has, where in it the user's buffer *)
(* is put, and which of its pages are made live and which dead.             *)
(*                                                                          *)
(* A user address is a number of bytes.  The addresses and sizes of         *)
(* internal blocks are whole pages in the code, and are counted in pages    *)
(* here; page p holds the bytes p * PageSize .. (p+1) * PageSize - 1.  The  *)
(* masks of the code, x & ~(a - 1), are rounding to a multiple of the power *)
(* of two a.  Requests are far below SIZE_MAX, so that no sum wraps.        *)
(*                                                                          *)
(* A request r is a record with the fields userSize, alignment and          *)
(* protectBelow, the first three parameters of _duma_allocate().            *)
(***************************************************************************)
EXTENDS Integers

CONSTANTS
  PageSize,      \* DUMA_PAGE_SIZE, in bytes
  KBPerPage,     \* DUMA_PAGE_SIZE / 1024, the unit of all accounting
  CreationPages  \* MEMORY_CREATION_SIZE, in pages

ASSUME AddrAssumption ==
  /\ PageSize \in Nat \ {0, 1}
  /\ KBPerPage \in Nat \ {0}
  /\ CreationPages \in Nat \ {0}

RoundDown(x, a) == (x \div a) * a

RoundUp(x, a) == RoundDown(x + a - 1, a)

PageOf(addr) == addr \div PageSize

PagesFor(size) == PageOf(size + PageSize - 1)

(* (size + 1023) >> 10 of a size that is a whole number of pages            *)
KBOf(pages) == pages * KBPerPage

IsPowerOf2(a) == \E i \in 0 .. a : a = 2 ^ i

(* The alignment of a caller that passes 0: DUMA_ALIGNMENT, or for a        *)
(* smaller buffer the highest power of two that is not above its size.      *)
DefaultAlignment(userSize, ALIGNMENT) ==
  IF userSize < ALIGNMENT
    THEN CHOOSE a \in 1 .. userSize : IsPowerOf2(a) /\ userSize < 2 * a
    ELSE ALIGNMENT

(* Mutant: no room for an alignment above the page size.                    *)
InternalPages_NoAlign(r) ==
  IF r.userSize = 0 THEN 1 ELSE PagesFor(r.userSize) + 1

(* The pages of the block that holds a buffer: the buffer rounded up, one   *)
(* dead page, and what an alignment above the page size may waste.          *)
InternalPages(r) ==
  IF r.userSize = 0
    THEN 1
    ELSE PagesFor(r.userSize) + 1
           + (IF r.alignment > PageSize THEN PageOf(r.alignment) - 1 ELSE 0)

(* The pages asked of the system when no free block is large enough.        *)
ChunkPages(r) ==
  IF CreationPages < InternalPages(r) THEN InternalPages(r) ELSE CreationPages

(* The address given to the user, for a block that starts at page base.     *)
UserAddr(r, base) ==
  IF r.userSize = 0
    THEN base * PageSize + PageSize \div 2
    ELSE IF r.protectBelow
      THEN RoundUp((base + 1) * PageSize, r.alignment)
      ELSE RoundDown((base + InternalPages(r) - 1) * PageSize - r.userSize,
                     r.alignment)

(* The page of protAddr, the dead page next to the buffer.                  *)
ProtPage(r, base) ==
  IF r.userSize = 0
    THEN base
    ELSE IF r.protectBelow
      THEN PageOf(UserAddr(r, base)) - 1
      ELSE PagesFor(UserAddr(r, base) + r.userSize)

(* The pages Page_AllowAccess() makes live.  With protectBelow the code     *)
(* passes internalSize - (userAddr - protAddr) bytes from userAddr on.      *)
LivePages(r, base) ==
  LET user == PageOf(UserAddr(r, base))
      prot == ProtPage(r, base)
  IN  IF r.userSize = 0
        THEN {}
        ELSE IF r.protectBelow
          THEN user .. user + InternalPages(r) - (user - prot) - 1
          ELSE base .. prot - 1

(* Mutants: no page is denied; one page too many is.                        *)
DeadPages_None(r, base) == {}

DeadPages_TooLong(r, base) ==
  ProtPage(r, base) .. base + InternalPages(r)

(* The pages Page_DenyAccess() then makes dead.                             *)
DeadPages(r, base) ==
  IF r.userSize # 0 /\ r.protectBelow
    THEN base .. PageOf(UserAddr(r, base)) - 1
    ELSE ProtPage(r, base) .. base + InternalPages(r) - 1

-----------------------------------------------------------------------------

(* What _duma_allocate() may assume of its arguments once it has checked    *)
(* them: the alignment is a power of two, so that of it and the page size   *)
(* one divides the other.                                                   *)
ValidAlign(a) ==
  /\ a \in Nat \ {0}
  /\ PageSize % a = 0 \/ a % PageSize = 0

ValidRequest(r) ==
  /\ r.userSize \in Nat
  /\ r.protectBelow \in BOOLEAN
  /\ r.userSize # 0 => ValidAlign(r.alignment)

=============================================================================
