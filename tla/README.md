# DUMA in TLA+

DUMA ("Detect Unintended Memory Access") replaces `malloc()`, `free()`, `new`,
`delete` and the `mem*`/`str*` functions of a program. Every buffer gets pages
of its own with an inaccessible page next to it, and released memory stays
inaccessible, so that a wrong access faults where it happens. This directory
holds TLA+ models of that library, the configurations that model-check them
with TLC, and proofs that TLAPS checks.

## 1. Inventory

| Part | Source | State | Operations | Hard because |
|---|---|---|---|---|
| Allocator core | `src/src/duma.c`, `src/duma_hlp.h` | slot table (itself allocated by DUMA), `unUsedSlots`, `sumAllocatedMem`, `sumProtectedMem` | `_duma_allocate`, `_duma_deallocate`, `allocateMoreSlots`, `realloc`, `reduceProtectedMemory`, `duma_check`, `malloc_usable_size` | the table grows by an allocation from itself in the middle of an allocation; blocks are split, cut and given up; `mmap()` may fail at every attempt; counters are adjusted in several places |
| Page layer | `src/paging.h` | access of every mapped page | `Page_Create`, `Page_AllowAccess`, `Page_DenyAccess`, `Page_Delete` | access is shared state between all buffers and the table |
| Semaphore | `src/src/sem_inc.c` | `mutex`, `mutextid`, `locknr`, `semDepth` | `lock`, `unlock`, `DUMA_get_sem`, `DUMA_rel_sem` | re-entrancy is decided by an unsynchronised read of `mutextid` |
| No man's land | `src/duma_hlp.h` | slack bytes of a block | `_duma_init_slack`, `_duma_check_slack`, `_duma_check_all_slacks` | byte arithmetic on both sides of a buffer |
| Initialisation | `src/src/duma.c` | `init_state`, first table | `_duma_init`, `duma_init` | recursion through libc, races between first calls, explicit initialisation |
| Environment | `src/src/duma.c` | parameters | `duma_getenvvars` | clamping, names that differ from the documentation |
| Memory and string functions | `src/src/duma.c` | none | `memcpy` ... `strncat` | overlap conditions at their boundaries |
| Leak detection | `src/src/duma.c` | slot table | `DUMA_delFrame`, `_duma_exit` | reads the table's address before it takes the semaphore |
| C++ operators | `src/src/dumapp.cpp`, `src/dumapp.h` | new handler, file and line of `delete` | `operator new`/`delete`, delete macro | new handler loop; globals written around a destructor |
| Output | `src/src/print.c` | none | `DUMA_Print`, `DUMA_Abort` | number conversion |
| Configuration generator | `src/createconf.c` | `duma_config.h` | `main`, `testAlignment`, `writeFile` | tests that may kill it; one header read in four kinds of build |
| Stack traces | `src/stacktrace` | the map file's entries | `MapFile`, `printStackTrace`, `StackTraceCleanup` | error paths of the parser, the caller's buffer |
| DLL, detours, kduma | `src/dumadll`, `src/Attic` | - | - | Windows glue or retired: not modelled |

How the parts interact: every public function first initialises the library if
`allocList` is 0, then `_duma_allocate()` or `_duma_deallocate()` takes the
semaphore, opens the pages of the slot table, works on table and pages, closes
the table and releases the semaphore. `realloc()` does this around both. The
C++ operators call the same two functions with another allocator family and,
on failure, another way to fail.

What makes the parts correct: no page belongs to two blocks and none is lost;
a live buffer is accessible and its guard page is not, whatever other calls do;
freed memory is inaccessible for as long as it is kept and stays within the
limit; the table never runs out of slots in the middle of an operation; wrong
releases stop the program and right ones do not; every call ends; one thread at
a time is inside. `PROJECT.json` lists the hazards at their lines.

## 2. Modules

| Module | What it is |
|---|---|
| `DumaAddr` | the address arithmetic of `_duma_allocate()`: pages of a block, user address, live and dead pages |
| `DumaHeap` | the allocator core and the page layer as a state machine |
| `AbstractHeap` | what a caller may rely on; `DumaHeap` implements it |
| `HeapClaims` | statements of comments and the README that the code does not keep |
| `MCHeap` + `MCHeap_*.cfg` | instances of `DumaHeap` for TLC |
| `DumaSem` | `sem_inc.c`, statement by statement |
| `ReentrantLock` | the abstract lock; `DumaSem` implements it |
| `MCSem` + `MCSem.cfg` | the instance of `DumaSem` |
| `DumaInit` | start and end of the program: constructor, `duma_init()`, the semaphore's initialisation and the calls of `malloc()` in the middle of them |
| `DumaThreads` | threads that share the slot table, on `ReentrantLock` |
| `DumaDelete` | the delete macro and `operator delete`, on `ReentrantLock` |
| `DumaGuard` | no man's land byte by byte and `CHECK_FREQ`, on the layout of `DumaAddr` |
| `DumaString` | `memcpy()` ... `strncat()` and their overlap tests |
| `DumaPrint` | `DUMA_vsprintf()`, `DUMA_Print()`, `DUMA_Abort()`, `DUMA_Exit()` |
| `DumaNew` | the loop of `duma_new_operator()` and the new handler |
| `DumaEnv` | `duma_getenv()` and `duma_getenvvars()` |
| `CreateConf` | `createconf` and the sections of `duma_config.h` |
| `StackTrace` | the map file parser and the stack trace printer |
| `DumaParts` | one instance of each of the ten modules above, one of which runs |
| `MCParts` + `MCParts_*.cfg` | the inputs of `DumaParts` for TLC |
| `DumaAddr_proofs` | the address arithmetic, for any page size |
| `DumaHeap_proofs` | the allocator's memory, its table, what it promises the program, and the refinement of `AbstractHeap`, for any configuration |
| `DumaSem_proofs` | the semaphore, for any number of threads |
| `DumaInit_proofs` | start and end of the program, for any depth of the stack |
| `DumaThreads_proofs` | threads at the slot table, for any number of threads and tables |
| `DumaDelete_proofs` | the delete macro, for any nesting |
| `DumaGuard_proofs` | no man's land, for any page size and number of blocks |
| `DumaParts_proofs` | the properties of the run `parts` as theorems, and the proofs for `DumaEnv`, `CreateConf`, `DumaString`, `DumaPrint` and `StackTrace` |

Definitions whose name has an underscore and a suffix (`RestSlot_LosesPage`,
`Clear_Forgotten`) are mutants: plausible mistakes in the definition that
follows them. `PROJECT.json` says which property detects which mutant.

### DumaHeap

The model is one thread that holds the semaphore. Its state is the slot table
(`slots`, `slotCount`, `allocList`, `listPages`, `unUsedSlots`), the two sums,
and `page`, the access of each page of a small address space. `pc` names the
part of the code that runs next and `req`, `growing`, `full`, `emp`, `addr` and
`red` are the parameters and local variables of the functions in progress:
`_duma_allocate()` may be active twice, for the user and (`growing`) for
`allocateMoreSlots()`.

| Code | Actions |
|---|---|
| `malloc`, `calloc`, `strdup`, `operator new` | `Allocate` |
| `memalign`, `aligned_alloc`, `valloc`; `posix_memalign` | `Memalign`; `PosixMemalign`, which refuses a bad alignment with `EINVAL` |
| `realloc` | `Realloc`, then the allocation, then `Move` |
| `free`, `operator delete` | `Free` |
| `_duma_allocate`: loop over the table | `SearchFound`, `SearchFailed` |
| first, repeated and last `Page_Create` of a chunk | `Create`, `Retry`, `Last` |
| split, live and dead pages, slot | `Carve` |
| `allocateMoreSlots` after its allocation | `Swap` |
| `_duma_deallocate` up to line 1874, the rest | `Deallocate`, `Release` |
| `reduceProtectedMemory` | `ReduceToBegin`, `ReduceToEmpty`, `ReduceExhausted` |
| `Page_AllowAccess`, `Page_DenyAccess`; `Page_Delete`, whose `munmap()` may fail | `Set`; `Page_Delete`, part of `Release` and of both reductions |
| table closed, return | `Leave` |
| `duma_check`, `duma_checkAll`, `malloc_usable_size` | `Check`, `CheckAll`, `MallocUsableSize` |

Sizes of internal blocks are whole pages in the code and are counted in pages;
user addresses and sizes are bytes. `numChunks` of the code is always 1,
because the chunk is at least as large as the request. Left out: contents of
memory (fill byte, slack, `FREE_ACCESS`, `CHECK_FREQ`), file and line of a
slot, the statistics `numAllocs`, `numDeallocs` and `sumTotalAllocatedMem`,
messages, and sizes near `SIZE_MAX`. The build is Linux with
`MAP_ANONYMOUS`, without `WIN32`, `DUMA_EXPLICIT_INIT` and detours. A stale
`protAddress` is not kept in empty slots; the one function that may read it
(`duma_check()` of the address of a free block) may therefore fault or not.

### AbstractHeap

Three variables: the blocks in use, the released blocks whose memory is kept,
and what the library is doing. A new block overlaps no other and is aligned;
only the release that names a block's address with the matching function ends
it; a release stops the program exactly when no block in use matches; kept
memory is given up only where the configuration allows it.

### DumaSem

Every access to a shared variable is a step, so that all interleavings of
`lock()` and `unlock()` are there, the unsynchronised read of `mutextid`
included. `ReentrantLock` has one variable, how often each thread has the lock;
a thread may enter only while all others have it zero times. The refinement
mapping `Taken` adds a thread's open calls and the call it is executing.

### DumaInit

The first `malloc()` of a program, or the constructor attribute, starts
`_duma_init()`, which takes the semaphore, which may have to be initialised
first, for which the system may call `malloc()`; it calls `duma_init()`, which
copies an environment variable with `malloc()`, calls `atexit()`, which may call
`malloc()`, and tests the library with `malloc()` and `free()`. `stack` holds
the activations of the one thread there is at that time; `conf` is the build and
the environment. The actions follow the statements of `_duma_init()`
(`Constructor`, `ConstructorGet`, `ConstructorBuild`, ...), of `duma_init()`
(`DumaInitEnter`, `GetEnvVars`, `RegisterExit`, `DumaInitTest`, `DumaInitDone`),
of `DUMA_init_sem()`, and the parts of `malloc()` and `free()` that depend on
the initialisation: whether the table is there, whether the semaphore is taken
(`IF__DUMA_INIT_DONE`), which line number and which slack byte a slot gets.
`atexit()` may fail, which aborts (`status = "unregistered"`). The
program ends with `ProgramExit`, which is `_duma_exit()` with `DUMA_delFrame()`.

### DumaThreads

What `DumaHeap` leaves out: several threads. A table is a number; its pages are
accessible, inaccessible or gone, and each step that touches, opens, closes or
deletes them is a step of its own. `malloc()`, `free()`, `duma_checkAll()` take
the semaphore; `malloc_usable_size()` does not, and `DUMA_delFrame()` reads the
address of the table before it does. `Alone` names the functions the program
calls while no other thread is in the library: the properties hold for
`Alone = {usable_size, delFrame}`, and `claim_race` shows that they need it for
`usable_size`. (`DUMA_delFrame()` runs at exit.)

### DumaDelete and DumaNew

`DumaDelete` is the `for` loop of the delete macro, statement by statement, with
destructors that contain further `delete` expressions, with and without macro.
`DumaNew` is the loop of `duma_new_operator()`; the two calls of
`set_new_handler()` that read the handler are two steps, and two threads run it.
`NewEnds` holds in the behaviours in which nobody comes between the two calls of
a thread (`Undisturbed`); `claim_newloop` shows the others.

### DumaGuard

Blocks with all their bytes, of which the program may write any: live and dead
ones, the user's and the others. `_duma_init_slack()` and `_duma_check_slack()`
compute their ranges from the slot's addresses as in the code, on the pages that
`DumaAddr` computes. `hurt` and `age` are ghost state: a byte outside the buffer
was written, and the allocations and releases since then.

### DumaString, DumaPrint, DumaEnv

Pure algorithms as recursive functions, checked against what they are for
(`Expected`, `ReadsBack`, `EnvironmentRespected`). The byte loops run on the
memory they change, so that an overlap shows its effect. `DumaPrint` gives
`long` and `DUMA_ADDR` any width (`LONG_MAX`). `DumaEnv` has every variable with
its default and its rule, in the order of the code; a name is a sequence of
words, since one name is a prefix of another.

### CreateConf and StackTrace

`CreateConf` follows `main()`: an alignment is tested by accesses the CPU may
refuse, and written down after the test; `writeFile()` may fail to open the
file. The second half is the preprocessor's view of the file: which macros are
forced on, forced off, set by an option of `createconf`, or left to the command
line in each of the four sections. `StackTrace` has the parser with its error
paths, the sort (of pointers, hence in any order), the search and the output
into a buffer of limited size, or of an error text regardless of the size
(`ReportError`; `MinBuffer` and `ErrorSize` stand for the 600 bytes the program
has to pass and the longest such text). `CallAgain` is a second call, with the
map file that the first one read unless `Cleanup` came between; `Cleanup` and an
empty table may crash, as in the code.

## 3. Runs

| Run | Instance | Checks |
|---|---|---|
| `heap_keep` | `DUMA_PROTECT_FREE` unlimited, sizes 0 and 5, 4 calls | types, disjoint slots, no lost page, the table, slot accounting, no internal error, `HeapInv`, `AbstractHeap` |
| `heap_limit` | limits of 7 kB protected and 10 kB in all, both `DUMA_PROTECT_BELOW`, `malloc` and `new[]`, `mmap()` and `munmap()` fail at will, 4 calls | guard pages, freed memory hidden (also where the system does not take it), limit kept, live buffers untouched, every call ends, `AbstractHeap` |
| `heap_delete` | limit 0, C and C++ families, alignments 6 (refused by an abort or by `EINVAL`) and 8 (two pages), zero sizes refused or shared | guard pages, `AbstractHeap` |
| `sem` | three threads, three nested calls each | the properties of `DumaSem`, under fairness |
| `parts` | the ten modules of `DumaParts`, each by itself | the properties named there |

A page has 4 bytes and 2 kB of accounting; a chunk has 4 pages, of which a
5-byte buffer takes 3, so that every chunk is split; 9 slots to a page let the
table grow with the first or second allocation and 11 with a later one. Sizes 0 and 5
are the two kinds of block (no live page, a buffer that ends inside a page).
Four calls are enough to fill the first chunk, grow the table, release out of
order, reduce to one page, reduce to nothing and reuse an address;
`heap_limit` adds a failure at each attempt. `MapAt` lists where the system may
place a chunk; neighbouring chunks are adjacent, as with the address hint of
`Page_Create()`.

`DumaParts` puts the ten smaller modules into one state space, in which the
variable `part` says which of them runs while the others keep an initial state.
Four of them are instances of the modules with the proofs, so that what is
proved there holds of the specification that TLC explores.
The modules share no state, so nothing is lost, and one run checks them all. Its
bounds, part by part:

* startup: all combinations of the build and environment flags, two blocks of
  the program, ten activations (the deepest recursion that returns has fewer; a
  recursion that does not return overflows);
* threads: two threads with two calls each, a table that is full after one block
  and may grow twice: a thread can be at any statement while the other one
  exchanges the table;
* delete: two threads, two positions, three nested deletes, and a stack of
  positions that three nested ones overflow;
* guard: buffers that are empty, end inside a page, fill it, cross it; on both
  sides; alignments below, at and above the page size; two blocks, five calls or
  writes, a check every second time;
* string: every call on every memory of four bytes with three values;
* print: two-element patterns with every conversion, 0, a number of two digits
  and the two smallest numbers of a `long` of five bits, every combination of sinks, a file that cannot be
  opened;
* new: two threads with two new expressions each, up to two blocks of reserve:
  both can be between the two calls of `set_new_handler()`;
* env: all environments of at most two entries, among them names that are
  prefixes of others, entries without `=` and with two, a name twice, values
  below, in and above the ranges, the strategies under both of their names;
* conf: CPUs that insist on an alignment of 1 up to 16, buffers at odd addresses, a
  platform with no type for addresses, four sets of options;
* trace: map files with one table, two, errors in entry and head, no table, a
  table whose head is taken for the file's name, a file that cannot be opened;
  two calls, with and without the clean-up between them;
  stacks with addresses below, between, far above the entries and with 0;
  buffers too small for one line up to large enough.

The remaining runs each show that a statement of the source is not what the
code does (`expect: violation`, quoted in `PROJECT.json`):

* `claim_sumprot`: `sumProtectedMem` drifts when a reduction falls short.
* `claim_freemem`: the rest of later chunks stays accessible.
* `claim_below`: `memalign()` above the page size under `DUMA_PROTECT_BELOW`
  opens the dead page of the next buffer.
* `claim_race`: `malloc_usable_size()` closes the slot table under a call of
  another thread.
* `claim_explicit`: with `DUMA_EXPLICIT_INIT` and no constructor attribute,
  `duma_init()` as the first call aborts.
* `claim_newloop`: two threads in `operator new` can replace the program's new
  handler by an empty function, and then the loop of `duma_new_operator()` does
  not end.
* `claim_env`: `DUMA_SKIPCOUNT_INIT` is documented as a count and read as a flag
  (`duma.c:350`, `duma.c:947`); the variables documented as
  `DUMA_MALLOC_0_STRATEGY` and `DUMA_NEW_0_STRATEGY` are read without their
  prefix (`duma.c:828`, `duma.c:837`).

The passing runs keep clear of these, and say so: `NewEnds` is about the
behaviours with `Undisturbed`, and `EnvironmentRespected` exempts what the
documentation describes in another way.

Seen while modelling, without a run of its own:

* `reduceProtectedMemory()` does not count the slots it empties in
  `unUsedSlots` (only `<=` holds, which `SlotAccounting` checks).
* `DUMA_MAX_ALLOC` is not enforced once the protected memory is used up, although
  `duma.c:816-818` says that the memory "won't exceed this limit".
* With `DUMA_PROTECT_FREE=0` a failing `malloc()` returns NULL although
  `DUMA_MALLOC_FAILEXIT` is set (`duma.c:1562`).
* `strncpy()` tests the overlap without the terminating zero: a destination on
  the zero that ends its source passes the test and is then read while it is
  written. `CopiesExactly` says that such a call always goes wrong (`Overrun`),
  and that no other call does.
* The smallest `long` has no negation; `sprintLong()` prints one character for
  it, which is no digit. It is among the inputs and excepted in `ReadsBack`.
* `std::sort()` in `MapFile` compares pointers, so `findEntry()` finds the
  nearest entry only when the heap happens to have placed the entries in
  ascending order, which is the condition in `CallersNamed`.
* `printStackTrace()` writes the error texts with `sprintf()`, whatever the size
  of the buffer, and keeps a map file that it could not read: its next call
  leaves the buffer as it was, though its comment says "Always terminates the
  buffer with 0".
* A table that cannot grow ends a later `malloc()` in the internal error "No
  empty slot" (`duma.c:1245`).
* When `munmap()` fails in `Page_Delete()` the pages stay mapped, inaccessible,
  and no slot knows of them (`PagesOwned`, `FreedHidden`).
* DUMA's copy of `DUMA_OUTPUT_FILE` has a source position and is never released:
  it is reported as a leak of the program.
* `InterfaceAgrees` needs the `DUMA_SO_` and `DUMA_LIB_` options of `createconf`
  to agree; `GNUmakefile` sets only `DUMA_SO_NO_LEAKDETECTION` by default.
* `~MapFileImpl()` deletes from one element too far; the last
  entry of a file without a blank line behind it is a parse error.
* With `sizeof(long double)` of 12 `createconf` tries 12, 6, 3 and 1, of which
  only 1 is a power of two.
* A destructor that throws leaves the delete macro's loop with the semaphore
  taken. On Visual C++ a new handler that returns 0 makes the loop of
  `duma_new_operator()` run without end. `numAllocs` is counted without the
  semaphore. Messages are formatted into 4096 bytes without a bound.

### Fairness

`DumaHeap`: weak fairness of `Step`, the library's own steps: a thread inside
the allocator keeps running. Calls of the program are not fair. `DumaSem`: weak
fairness of each thread's steps and of its releases: threads are scheduled, and
the code between get and release ends (the heap model's `CallEnds`). Nothing is
assumed of the order in which `pthread_mutex_lock()` serves waiting threads;
`CallsReturn` holds because the number of calls is bounded by `MaxGets`.
`DumaParts`: weak fairness of the library's steps of `DumaInit` (`Startup!Step`)
and of each thread in `duma_new_operator()` (`New!Step`). The program may stop
calling at any time. `StartupReturns` lets a failure of `atexit()` end the
program. `NewEnds` is about the behaviours in which no thread is disturbed
between its two calls of `set_new_handler()` (the code does nothing to ensure
that: `claim_newloop`); it also needs that the program's new handler does
what the C++ standard asks of it: it frees memory, of which there is a finite
amount, removes itself, or throws.

## 4. Proofs

Every theorem below is checked by `tlapm` without omitted steps.

| Hypothesis | Where | Why it is needed |
|---|---|---|
| `AddrAssumption`, `HeapAssumption` | `DumaHeap_proofs` | the address space holds `null_block` and the first chunk, a table page has at least two slots |
| `AlignAssumption` | `DumaHeap_proofs` | a power of two among the alignments divides the page size or is a multiple of it |
| `SemAssumption` | `DumaSem_proofs` | the bounds are natural numbers |
| `NoSpill` | `DumaHeap_proofs` | `memalign()` above the page size under `DUMA_PROTECT_BELOW` opens a neighbour's page: `claim_below` |
| `ManySlots` | `DumaHeap_proofs` | the first table has at least five slots besides the two in use, and a `size_t` can count the slots: a page holds dozens of them |
| `TableGrows` | `Accounts`, `NoErrors` | where the table cannot grow, a later `malloc()` ends in "No empty slot" |
| `Room` | `Promises` | see there |
| `ConstructorRuns` | `DumaInit_proofs` | `duma_init()` as the first call aborts: `claim_explicit` |
| `ProgramKeepsApart` | `DumaThreads_proofs` | two functions read `allocList` without the semaphore: `claim_race` |
| `RequestsValid`, `AddrAssumption` | `DumaGuard_proofs` | what the argument checks of `_duma_allocate()` admit, a page of at least two bytes |
| `PlatformsReal` | `PartFileSound` | sizes of types are powers of two, as tested by halving, and no type needs more than the largest size |
| `EnvironmentsReal` | `PartEnvironmentRespected` | an entry is a text and the number `atoi()` finds in it |
| `TraceInputs` | `PartTraceSound` | a map file is a sequence of lines, an entry has an address and a length, a stack holds addresses, the buffer has at least one byte, an error text is shorter than `MinBuffer` |
| `MessagesReal` | `PartMessageIntact` | the arguments are numbers of type `long`, a pattern is a sequence of elements |
| `MemSize \in Nat` | `PartCopiesExactly` | the memory has a size |
| `MaxTables \in Nat \ {0}`, `CHECK_FREQ \in Nat`, `DUMA_MAX_DEL_DEPTH \in Nat`, `MIN_ALIGNMENT \in Int \ {0}` | threads, guard, delete, environment | types of the parameters |

Everything else is arbitrary.

### DumaAddr_proofs

Lemmas about the arithmetic of `_duma_allocate()` for every page size of at
least 2, every size and every alignment of which the page size is a multiple or
that is a multiple of the page size (`ValidAlign`, what a power of two gives).
`AboveGeometry` and `BelowGeometry` place the user's address for the two values
of `DUMA_PROTECT_BELOW`; `BlockGeometry` sums up what the heap proof needs: the
block has at least one page and the page of the user's address is one of them.
`BufferPages` says that the buffer lies in the live pages, the live pages in the
block, and that the page next to the buffer is a dead one (with
`DUMA_PROTECT_BELOW` this needs an alignment up to the page size), `DeadWithin`
that the dead pages are the block's, and `AddrAligned` that the address is a
multiple of the alignment.

### DumaHeap_proofs

| Theorem | Says |
|---|---|
| `BlocksDisjoint` | `Spec => []SlotsDisjoint` |
| `NoPageLeaks` | `Spec => []PagesOwned` |
| `HeapInvariant` | `Spec => []HeapInv` |
| `TypeCorrect` | `Spec => []TypeOK` |
| `Opened` | `Spec => []TableOpen` |

Configuration, sizes, where the system maps, when `mmap()` and `munmap()` fail
and how many calls there are is left open. `PagesOwned` has two halves: the table
lists no page that is not mapped, in any case, and every mapped page is in the
table unless `munmap()` may fail. For then `Page_Delete()` leaves pages mapped
whose slot is emptied (`paging.h:354`); that they are inaccessible is the second
half of `FreedHidden`.

The inductive invariant `IInv` has four parts: the types of the scalars;
`MemoryOK`, which is disjointness and ownership page by page with `SlotOK` of
every slot; `LocalsAgree`; and `TableKept`. The last three are needed because
the interesting steps use what an earlier step found: `Carve` splits the block
that `SearchFound` or `Create` put into `fullSlot`, across a reduction that may
have emptied other slots; `ReduceToBegin` cuts at the user's address, so the
page of that address must be in the block; `BeginAllocate` and `Leave` change
the access of the table's pages, so those must be mapped, so the block with the
table must never be the one that `Release` gives back. The last holds because
only `allocateMoreSlots()` may release an internal block and it names the old
table, whose address differs from the new one's since their blocks are disjoint.
TLC checks the same formulas first (`TypeOK`, `SlotsDisjoint`, `PagesOwned`,
`HeapInv` in `heap_keep`).

Four lemmas carry the memory part, each about an arbitrary table and page map:
`SameSlots`, `ReplaceSlot`, `SplitSlot`, `GrowTable`. Then one lemma per action.

`TableOpen` needs a second invariant on top, `TInv`. That the table is
accessible within a call (`OpenTable`) survives a growth only if the pages that
`Leave` closes and `Swap` opens are the table's and nobody else's. So `TInv`
says that the table lies in an internal block in use and that a second one
exists only during a growth: first the block just carved, then the old table
(`OneTable`); that the new block is what `allocateMoreSlots()` asked for
(`NewTable`); that the release at the end of the growth names an address
(`OldTable`) and hits the block that has it, also after the reductions in
between (`Released`); and that the address in the slot of a free block lies in
that block, so that it cannot be mistaken for another (`FreeAddressed`).

On top of that come the promises to the program.

| Theorem | Says | Under |
|---|---|---|
| `Guards` | `Spec => []GuardPages` | `NoSpill` |
| `Hidden` | `Spec => []FreedHidden` | `NoSpill` |
| `Untouched` | `Spec => LiveUntouched` | `NoSpill` |
| `Bounded` | `Spec => []ProtectedBounded` | |
| `Accounts` | `Spec /\ [][TableGrows]_vars => []SlotAccounting` | `NoSpill`, `ManySlots` |
| `NoErrors` | `Spec /\ [][TableGrows]_vars => []NoInternalError` | `NoSpill`, `ManySlots` |
| `PagesMapped` | `Spec => []MprotectSucceeds` | `NoSpill` |
| `Promises` | `Spec /\ [](KeepsAll => Room) => ImplementsHeap` | `NoSpill` |
| `PromisesLimited` | `Spec => ImplementsHeap` | `NoSpill`, `~ KeepsAll` |
| `CallsShorten` | `Spec => [](Distance \in Nat /\ Reducible \in Nat /\ Round \in Nat) /\ StepsShrink` | |

The first three come from one frame lemma per action: `Frame(K)` says that a
step leaves every slot outside `K` and the access to its pages, if that slot
holds a buffer or freed memory that is kept. With `IInv` it is enough to show
that the pages a step opens or closes belong to the slots in `K`. For `Carve`
this is where `NoSpill` comes in. For `Hidden` there is also `OpenListed`:
a page that is accessible is in a slot. Every step keeps it (`ListedStep`),
because `Page_Delete()` closes the pages it does not get rid of.
`LiveUntouched` is an action property and
follows from the same frames.

`Bounded` needs an account: while `reduceProtectedMemory()` is under way it has
given pages back that it subtracts from `sumProtectedMem` only at its end.
`PendingKB` is that amount, and `Accounted` says that the pages kept protected
and the pending amount together are at most `sumProtectedMem`. The inequality is
the right one: a cut leaves the sum too high (run `claim_sumprot`), never too
low.

`Accounts` and `NoErrors` explain the 7 in `_duma_allocate()`. The inductive
invariant `Counted` says how many slots a call may still need where it is:
`EnoughLeft` starts with five between calls, and with seven at the search or
five if the table grows first; the request for the larger table takes up to two
(a slot for its chunk, one for what it leaves of the chunk), the exchange adds a
page of slots, the release of the old table gives one back, and the user's
request finds the seven it wants. `reduceProtectedMemory()` only adds empty slots
without counting them, so the promise stays on the safe side; since it is never
used up, `unUsedSlots` never wraps below 0, and since there are at most
`NPages * SlotsPerPage` slots it never wraps above. That the pages `Carve` hands
to `mprotect()` are mapped is `CarveMapped`, from the same geometry as `Guards`.
`TableGrows` says only that the nested request of `allocateMoreSlots()` does not
return NULL; it may reduce and retry. TLC checked `Counted` and `TableGrows`
first, with the constants of `heap_keep` and `heap_limit`. Of the two internal
errors only the missing slot needs `TableGrows`: `PagesMapped` excludes the
failure of `mprotect()` without it.

`CallsShorten` is the variant for the three loops of a call: `Distance` is the
place a call has reached, with 12 more while the table is being grown, because
the search then starts over; `Reducible` counts the blocks
`reduceProtectedMemory()` can still cut (twice) or give up; `Round` is the turn of
the loop around `Page_Create()`, which goes on only while the last reduction gave
something back. `StepsShrink` says that each step of the library lowers the three,
the first one counting most. So no call takes infinitely many steps, whatever the
configuration. TLC checked `StepsShrink` first, with the constants of
`heap_limit` and `heap_keep`.

`Promises` is the refinement, step by step: `StepsImplement` shows for each
action that under `Promised` (`IInv`, `TInv`, `PagesInv`, `KeptWithin`,
`ReduceKnown`) it maps to a step of `AbstractHeap` or to a stutter of its three
variables, here `Live`, `Kept` and `Task`. `KeptWithin` says that a buffer that
is kept whole lies in the pages of its block, `ReduceKnown` that
`reduceProtectedMemory()` runs only where the configuration lets it. The one exception to the latter explains the hypothesis
of `Promises`: with unlimited protection, no `DUMA_MAX_ALLOC` and an `mmap()`
that never fails at will (`KeepsAll`), kept memory is never given up, until the
address space itself is used up, when the code does give it up.
`AbstractHeap!MayEvict` does not know the size of the address space; `Room`
says that it is not used up, as in `heap_keep`. In every other configuration
`PromisesLimited` holds without it.

### DumaSem_proofs

| Theorem | Says |
|---|---|
| `SemInvariant` | `TypeOK /\ SemInv` is an invariant |
| `Counters` | `Spec => []SemInv` |
| `TypeCorrect`, `Exclusion`, `Depths`, `NoAbort` | `TypeOK`, `MutualExclusion`, `DepthAgrees`, `NeverAborts` |
| `Refinement` | `DumaSem` implements `ReentrantLock` under the mapping `Taken` |

They hold for any set of threads and any bounds. Mutual
exclusion is not inductive: `SemInv` adds that a thread owns the mutex exactly
at the labels inside it, that `mutextid` names the owner except between taking
the mutex and recording it and between clearing it and giving the mutex back,
and the values of both counters at each label. With it the racy read in
`lock()` is harmless: only the owner can read its own identity there.

### DumaInit_proofs

`Built`, `SlackRemembered` and `Leaked` state `BuiltOnce`, `SlackKnown` and
`LeaksReported` for every bound on the stack and on the blocks; the first says
that the slot table is created once, that no call aborts and that the semaphore
is free whenever the program runs. None of them can be read off one activation:
the constructor that runs may have been entered by a `malloc()` that a
`duma_init()` further down made. The inductive invariant `StartInv`
(`StartInvariant`) is therefore about the whole stack. `FrameOK` says at which
statements an activation of each function can be; `Called`, for an activation
and the one it called, at which statement the caller waits; `Waiting`, what the
caller found before and is still true; `TopOK`, what is known where the
activation that runs is; `Oldest`, which function is at the bottom. `DepthInv`
derives the semaphore's depth from the stack, `Early` orders `init_state` and
the other globals, and `BlocksInv` and `ReportInv` carry the slots. TLC has
checked `StartInv` on all combinations of flags the hypothesis allows.

### DumaThreads_proofs

`Reachable` and `Kept` state `TableReachable` and `BlocksKept`, `Exclusive` that
no two threads hold the semaphore. The inductive invariant (`ThreadsInvariant`)
says: one thread is at the statements inside the semaphore, a function of
`Alone` runs while no other call does, at each statement what is known of
`allocList` and of the access to the table it names, the tables not yet used
are fresh, and the contents of the table are the live blocks less the block a
thread is releasing and with the one it is allocating. `Kept` follows from the
last part, `Reachable` from the others.

### DumaDelete_proofs

`Located` and `Once` state `DeleteLocated` and `RunsOnce`, the second an action
property. `Magic`, `DelPtr` and the stack of positions are globals that every
nested `delete` writes, and the macro's loop ends on the value of `Magic`. The
inductive invariant (`DeleteInvariant`) gives each of them as a function of the
owner's stack of delete expressions: how deep the semaphore is taken, how far
`DelPtr` is, which positions are recorded, and that `Magic` has the value the
innermost loop expects whenever that loop looks at it.

### DumaGuard_proofs

`EveryByte`, `Exact` and `Found` state `EveryByteGuarded`, `ChecksExact` and
`DamageFound` for any page size, any set of valid requests, any number of blocks
and calls and any `DUMA_CHECK_FREQ`. `LiveOrSlack` is the arithmetic: the two
ranges of `_duma_init_slack()` and the buffer cover the live pages, and the
slack is no user's. The inductive invariant (`GuardInvariant`) says that a block
in use has its slack intact exactly when no live byte outside its buffer was
written, and that the time since that write is at most the counter of
`DUMA_CHECK_FREQ`, which is below the limit while the program runs.

### DumaParts_proofs

`BuiltOnce`, `EveryByteGuarded` and the others are properties of the run
`parts`, so they are stated of `DumaParts`: `PartBuiltOnce`, `PartBlocksKept`,
`PartDamageFound` and so on say `Spec => []BuiltOnce` and the like, for the
specification and the definitions that TLC checks. A part that does not run
keeps its initial state, so each behaviour of `DumaParts` is one of each part
(`StartupRuns`, `ThreadsRun`, `DeleteRuns`, `GuardRuns`, `ConfRuns`, `EnvRuns`,
`StringRuns`, `TraceRuns`, `MessageRuns`),
and the theorems of the parts' own modules carry over.

Six properties are proved here and nowhere else.

`PartInterfaceAgrees`: for every set of options that treats the two kinds of
library alike, as `InterfaceAgrees` demands, a program sees the interface that
the library was built with, whatever is on the two command lines. No constant
is restricted; in each section one option decides about a macro of the
interface (`InterfaceByOption`).

`PartFileSound`: an alignment that `createconf` writes has passed its test, and
passing the test is not luck. A test reads at two neighbouring multiples of the
alignment, and `NoTrap` shows that a number that survives at both is accepted
by the CPU for every type. The invariant `ConfInv` says so of the alignment
that is about to be written, and of the file. Without `PlatformsReal` it is
false: see `sizeof(long double)` of 12 in section 3.

`PartEnvironmentRespected`, for any environment and `MIN_ALIGNMENT`: once
`duma_getenvvars()` is done, every parameter has the value that the first entry
of its variable asks for if that is legal, its default without an entry, and a
legal value in any case; nothing is said where the documentation asks for
something else (`claim_env`). `EnvInv` says that of the variables read so far
(`Read`) and that the others still have their defaults,
which needs that no two variables write the same parameter (`VariableFacts`);
`FindsOwn` that the search of `duma_getenv()`, which compares a prefix and then
the `=`, finds the entries of the variable and no others. That is where the
names matter: `DUMA_OUTPUT_STACKTRACE` is a prefix of
`DUMA_OUTPUT_STACKTRACE_MAPFILE`.

The other three are about loops, so they need induction over the number of
passes. The library's induction theorems take an operator, which no backend can
instantiate; here the induction is over a set of numbers instead (`Induction`,
from `LeastElement`: a set of naturals that lacks one lacks a least one). Two
forms of it are used: `SameLoop`, by which two functions that start alike and
take the same steps agree, and `Loop`, by which a function with given steps
exists. The second is needed because a recursive function is a `CHOOSE`: what
its equation says of it may be used once a function with that equation is shown
to exist (`SizeOfSum` and `NumberInRuns` by `Loop`, `SprintReads` by
`DigitsExist`; the copies have a closed form).

`PartCopiesExactly`: `UpStep`, `DownStep` and `PadStep` say what one pass adds
to a copy of the original memory, for the byte loop that goes up, for that of
`memmove()` that goes down, and for that of `strncpy()`, although the loop reads
the memory it has changed; `CopiedUp`, `CopiedDown` and `CopiedPad` what the
whole loop does. The first needs that the destination does not begin inside
the source, and that is what the overlap tests are there for: one lemma per
function derives it from the function's own test (`memmove()` has none and
chooses its loop instead) and shows that the test fires only on an overlap
(`Overlap`). The test of `strncpy()` misses one case, `Overrun`: `CopiedOver`
shows that the copy is then wrong whatever the bytes are, so that the property
holds in both directions.

`PartTraceSound`: the invariant `TraceInv` has the types, the phases the parser
and the printer are in, that each recorded caller is named as it should be, and
`PrintSound`: the text is below the size of the buffer, it is as long as
`needed` says while that fits, and no line stands behind a caller that was left
out. `sprintf()` writes an error text whatever the size of the buffer; that it
fits is promised for a buffer of the documented 600 bytes, `MinBuffer`.
`CallStep` is the second call. `AscendingFar` is the one fact about the search that depends on the order
of the entries, and `EntryFound` puts it to use; the order itself is that of the
heap (section 3), so it is a condition in the property.

`PartMessageIntact`: `DigitsRead` is the induction, over the value: the digits
that `sprintAddr()` produces from the last to the first denote the number,
because appending a digit multiplies by the base (`NumberInAppend`) and
`v = (v / base) * base + v % base` (`Division`). `SignedReads` adds the sign and
two's complement. The invariant `PrintInv` then says of the message so far that
each piece reads as its argument and begins where the one before it ends
(`PiecesRead`), that the next argument is the one after those taken by the
elements before it (`PrintType`), that a message of `DUMA_Abort()` begins and
ends as it should (`Prefixed`), and that until it is written the sinks have
nothing but complaints about the pattern (`Complaints`). TLC has checked
`PrintInv`.

### Only model-checked

* Liveness: `CallEnds`, `CallsReturn`, `StartupReturns`, `NewEnds`. The prover
  has no rules for fairness or `ENABLED`. For `CallEnds` the part that is not about
  fairness is proved, `CallsShorten`; that a step is possible until the call has
  ended is the deadlock check of the runs.
* `SlotAccounting` and `NoInternalError` where the request of
  `allocateMoreSlots()` fails: they need not hold there (`TableGrows`).

## 5. Not modelled

* Sizes that wrap: `internalSize` and `nelem * elsize` near `SIZE_MAX`, and the
  `unsigned` loop counters of `memcpy()` and the like. The models use sizes far
  below; no error is detected by the code there.
* Two first calls of `malloc()` from two threads: the code has no protection in
  that place to model beyond what `DumaInit` has for one thread.
* The Windows and `sem_t` builds of the semaphore and the page layer, the Visual
  C++ forms of `operator new`, the DLL and detours glue.
* `FREE_ACCESS`, fill bytes, statistics, the banner, the text of messages and
  the summary of the leak report: no other state depends on them.
* The bound of the message buffers in `print.c`: there is no check to model.
  `write()` calls that fail or write less (`print.c:306-319` ignores the result):
  a message then lacks what the system did not take.
* `mprotect()` that fails on mapped pages because the system's limit of mappings
  is reached (`paging.h:101-107`): the program stops with a message.
  `NoInternalError` and `PagesMapped` say that it gets no page that is not mapped.
* A program whose `malloc()` or `free()` is not DUMA's: `duma_init()` finds that
  out and aborts (`duma.c:1049-1056`).
* In the stack trace: read errors of the map file, a file name of 500 characters
  or more (`strncpy()` then leaves it unterminated), an error text or a trace
  whose length does not fit an `int`. DUMA itself calls the library on Windows
  only (`duma.c:1336`).
* `createconf_new.cpp` (not built), the Linux variant of the stack trace (a
  wrapper of `backtrace()`), and `src/Attic`: `kduma.c` does not compile.

## 6. Plan

Every invariant the runs check is stated by a theorem. What is left is of
smaller weight: the copy of `_duma_realloc()` in the refinement; the second
thread in the first `malloc()`; variants like `CallsShorten` for the loop of
`operator new` and for the semaphore.
