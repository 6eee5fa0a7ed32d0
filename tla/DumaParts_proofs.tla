--------------------------- MODULE DumaParts_proofs --------------------------
(***************************************************************************)
(* The parts in the state space they share: each of them behaves as its     *)
(* module says, so the theorems about the modules hold of the parts.  And   *)
(* the proofs about the parts that have no theorems of their own: the two   *)
(* that make the configuration (duma_config.h and the environment), the     *)
(* memory and string functions, the stack traces and the output.            *)
(***************************************************************************)
EXTENDS DumaParts, FiniteSetTheorems, SequenceTheorems, WellFoundedInduction,
  TLAPS

-----------------------------------------------------------------------------
(* A step of one part leaves the variables of the others.                   *)
LEMMA OneRuns ==
  /\ [Next]_all => Startup!Next \/ UNCHANGED startupVars
  /\ [Next]_all => Thr!Next \/ UNCHANGED threadsVars
  /\ [Next]_all => Delete!Next \/ UNCHANGED deleteVars
  /\ [Next]_all => Guard!Next \/ UNCHANGED guardVars
  /\ [Next]_all => String!Next \/ UNCHANGED stringVars
  /\ [Next]_all => Message!Next \/ UNCHANGED printVars
  /\ [Next]_all => Env!Next \/ UNCHANGED envVars
  /\ [Next]_all => Config!Next \/ UNCHANGED confVars
  /\ [Next]_all => Trace!Next \/ UNCHANGED traceVars
<1>1. ASSUME UNCHANGED all
      PROVE  UNCHANGED <<startupVars, threadsVars, deleteVars, guardVars, stringVars,
                         printVars, envVars, confVars, traceVars>>
  BY <1>1, Zenon DEF all
<1>2. ASSUME Next
      PROVE  /\ Startup!Next \/ UNCHANGED startupVars
             /\ Thr!Next \/ UNCHANGED threadsVars
             /\ Delete!Next \/ UNCHANGED deleteVars
             /\ Guard!Next \/ UNCHANGED guardVars
             /\ String!Next \/ UNCHANGED stringVars
             /\ Message!Next \/ UNCHANGED printVars
             /\ Env!Next \/ UNCHANGED envVars
             /\ Config!Next \/ UNCHANGED confVars
             /\ Trace!Next \/ UNCHANGED traceVars
  BY <1>2, Zenon DEF Next, OnlyStartup, OnlyThreads, OnlyDelete, OnlyGuard,
    OnlyString, OnlyPrint, OnlyNew, OnlyEnv, OnlyConf, OnlyTrace
<1> QED BY <1>1, <1>2, Zenon

LEMMA Parted == Spec => Init /\ [][Next]_all
BY PTL DEF Spec

LEMMA StartupRuns == Spec => Startup!Spec
<1>1. Init => Startup!Init
  BY DEF Init
<1>2. [Next]_all => [Startup!Next]_(Startup!vars)
  <2>1. ASSUME UNCHANGED startupVars PROVE UNCHANGED Startup!vars
    BY <2>1 DEF startupVars, Startup!vars, Startup!sem, Startup!heap
  <2> QED BY <2>1, OneRuns
<1> QED BY <1>1, <1>2, Parted, PTL DEF Startup!Spec

LEMMA ThreadsRun == Spec => Thr!Spec
<1>1. Init => Thr!Init
  BY DEF Init
<1>2. [Next]_all => [Thr!Next]_(Thr!vars)
  <2>1. ASSUME UNCHANGED threadsVars PROVE UNCHANGED Thr!vars
    BY <2>1 DEF threadsVars, Thr!vars, Thr!local
  <2> QED BY <2>1, OneRuns
<1> QED BY <1>1, <1>2, Parted, PTL DEF Thr!Spec

LEMMA DeleteRuns == Spec => Delete!Spec
<1>1. Init => Delete!Init
  BY DEF Init
<1>2. [Next]_all => [Delete!Next]_(Delete!vars)
  <2>1. ASSUME UNCHANGED deleteVars PROVE UNCHANGED Delete!vars
    BY <2>1 DEF deleteVars, Delete!vars, Delete!globals
  <2> QED BY <2>1, OneRuns
<1> QED BY <1>1, <1>2, Parted, PTL DEF Delete!Spec

LEMMA GuardRuns == Spec => Guard!Spec
<1>1. Init => Guard!Init
  BY DEF Init
<1>2. [Next]_all => [Guard!Next]_(Guard!vars)
  <2>1. ASSUME UNCHANGED guardVars PROVE UNCHANGED Guard!vars
    BY <2>1 DEF guardVars, Guard!vars
  <2> QED BY <2>1, OneRuns
<1> QED BY <1>1, <1>2, Parted, PTL DEF Guard!Spec

-----------------------------------------------------------------------------
(* The theorems about the modules, for the parts.                           *)

(* _duma_init() creates the slot table once, no call aborts, and the        *)
(* semaphore is free whenever the program runs, wherever duma_init() is not *)
(* the first call.                                                          *)
THEOREM PartBuiltOnce ==
  ASSUME Startup!ConstructorRuns
  PROVE  Spec => []BuiltOnce
<1>1. Startup!Spec => []Startup!BuiltOnce
  BY Startup!Built
<1> QED BY <1>1, StartupRuns, PTL DEF BuiltOnce

(* _duma_check_slack() expects what _duma_init_slack() has written, in the  *)
(* blocks from before DUMA_SLACKFILL was read too.                          *)
THEOREM PartSlackKnown ==
  ASSUME Startup!ConstructorRuns
  PROVE  Spec => []SlackKnown
<1>1. Startup!Spec => []Startup!SlackKnown
  BY Startup!SlackRemembered
<1> QED BY <1>1, StartupRuns, PTL DEF SlackKnown

(* DUMA_delFrame() reports what the program has left, and nothing of the    *)
(* libraries.                                                               *)
THEOREM PartLeaksReported ==
  ASSUME Startup!ConstructorRuns
  PROVE  Spec => []LeaksReported
<1>1. Startup!Spec => []Startup!LeaksReported
  BY Startup!Leaked
<1> QED BY <1>1, StartupRuns, PTL DEF LeaksReported

(* No thread finds the slot table closed or deleted under it by another.    *)
THEOREM PartTableReachable ==
  ASSUME MaxTables \in Nat \ {0}, Thr!ProgramKeepsApart
  PROVE  Spec => []TableReachable
<1>1. Thr!Spec => []Thr!TableReachable
  BY Thr!Reachable
<1> QED BY <1>1, ThreadsRun, PTL DEF TableReachable

(* allocateMoreSlots() loses no block, whatever other threads do meanwhile, *)
(* and DUMA_delFrame() reports exactly the blocks that were not released.   *)
THEOREM PartBlocksKept ==
  ASSUME MaxTables \in Nat \ {0}, Thr!ProgramKeepsApart
  PROVE  Spec => []BlocksKept
<1>1. Thr!Spec => []Thr!BlocksKept
  BY Thr!Kept
<1> QED BY <1>1, ThreadsRun, PTL DEF BlocksKept

(* Every release in a delete expression is recorded with its position, and  *)
(* with no delete expression in progress DelPtr and the semaphore are back. *)
THEOREM PartDeleteLocated ==
  ASSUME DUMA_MAX_DEL_DEPTH \in Nat
  PROVE  Spec => []DeleteLocated
<1>1. Delete!Spec => []Delete!DeleteLocated
  BY Delete!Located
<1> QED BY <1>1, DeleteRuns, PTL DEF DeleteLocated

(* The delete macro's loop runs its body exactly once.                      *)
THEOREM PartRunsOnce ==
  ASSUME DUMA_MAX_DEL_DEPTH \in Nat
  PROVE  Spec => RunsOnce
<1>1. Delete!Spec => Delete!RunsOnce
  BY Delete!Once
<1> QED BY <1>1, DeleteRuns, PTL DEF RunsOnce

(* Every byte of a block in use is the user's, on a dead page, or compared  *)
(* by _duma_check_slack() when the block is released.                       *)
THEOREM PartEveryByteGuarded ==
  ASSUME Guard!AddrAssumption, CHECK_FREQ \in Nat, Guard!RequestsValid
  PROVE  Spec => []EveryByteGuarded
<1>1. Guard!Spec => []Guard!EveryByteGuarded
  BY Guard!EveryByte
<1> QED BY <1>1, GuardRuns, PTL DEF EveryByteGuarded

(* _duma_check_slack() fails only for a block that was written outside its  *)
(* buffer, and with DUMA_CHECK_FREQ before that many further calls.         *)
THEOREM PartChecksExact ==
  ASSUME Guard!AddrAssumption, CHECK_FREQ \in Nat, Guard!RequestsValid
  PROVE  Spec => []ChecksExact
<1>1. Guard!Spec => []Guard!ChecksExact
  BY Guard!Exact
<1> QED BY <1>1, GuardRuns, PTL DEF ChecksExact

(* A block that was written around does not leave the heap: its release     *)
(* aborts.                                                                  *)
THEOREM PartDamageFound ==
  ASSUME Guard!AddrAssumption, CHECK_FREQ \in Nat, Guard!RequestsValid
  PROVE  Spec => DamageFound
<1>1. Guard!Spec => Guard!DamageFound
  BY Guard!Found
<1> QED BY <1>1, GuardRuns, PTL DEF DamageFound

-----------------------------------------------------------------------------
(* The header the program and the library read.                             *)

(* A macro of the interface is defined by the option of the section's kind, *)
(* whatever is on the command line.                                         *)
LEMMA InterfaceByOption ==
  ASSUME NEW section \in Config!Sections, NEW given, NEW m \in Config!Interface
  PROVE  m \in Config!Effective(section, given)
           <=> <<Config!PrefixOf(section), m>> \in file.options
<1>1. m \in Config!Prefixed
  BY DEF Config!Interface, Config!Prefixed
<1>2. m \in Config!Touched(section)
  BY <1>1 DEF Config!Touched, Config!ByPrefixedOption
<1>3. m \notin Config!AlwaysOn(section)
  BY DEF Config!Interface, Config!AlwaysOn
<1>4. m \notin Config!ByOwnOption(section)
  BY DEF Config!Interface, Config!ByOwnOption, Config!OldMacros, Config!Sections
<1> QED BY <1>1, <1>2, <1>3, <1>4 DEF Config!Effective, Config!ByPrefixedOption

(* The functions the header declares in the program are the ones the        *)
(* library has, in whichever sections both were compiled and whatever is on *)
(* their command lines, for every set of options of createconf.             *)
THEOREM PartInterfaceAgrees == Spec => []InterfaceAgrees
<1>1. Config!InterfaceAgrees
  <2> SUFFICES ASSUME \A m \in Config!Interface : <<"SO", m>> \in file.options
                                              <=> <<"LIB", m>> \in file.options,
                      NEW section \in Config!Sections, NEW lib, NEW program,
                      NEW m \in Config!Interface
               PROVE  m \in Config!Effective(section, lib)
                        <=> m \in Config!Effective("REGULAR", program)
    BY DEF Config!InterfaceAgrees
  <2>1. "REGULAR" \in Config!Sections
    BY DEF Config!Sections
  <2>2. Config!PrefixOf(section) \in {"SO", "LIB"} /\ Config!PrefixOf("REGULAR") = "LIB"
    BY DEF Config!PrefixOf
  <2> QED BY <2>1, <2>2, InterfaceByOption
<1> QED BY <1>1, PTL DEF InterfaceAgrees

-----------------------------------------------------------------------------
(* The file createconf leaves.                                              *)

LEMMA LeastElement ==
  ASSUME NEW S, S \subseteq Nat, S # {}
  PROVE  \E x \in S : \A y \in S : x <= y
<1>1. PICK x \in S : \A y \in S : ~ (<<y, x>> \in OpToRel(<, Nat))
  BY NatLessThanWellFounded, WFMin
<1>2. ASSUME NEW y \in S PROVE x <= y
  <2>1. ~ (y < x)
    BY <1>1 DEF OpToRel
  <2> QED BY <2>1
<1> QED BY <1>2

LEMMA MinFacts ==
  ASSUME NEW S, S \subseteq Nat, S # {}
  PROVE  /\ Config!Min(S) \in S /\ Env!Min(S) \in S
         /\ Env!Min(S) = Config!Min(S)
BY LeastElement DEF Config!Min, Env!Min

(* The sizes of the C types, and the alignments tried.                      *)
Widths == {1, 2, 4, 8, 16, 32}

LEMMA MaxFacts ==
  ASSUME NEW S, S \subseteq Widths, S # {}
  PROVE  Config!Max(S) \in S /\ \A y \in S : y <= Config!Max(S)
<1>1. \E x \in S : \A y \in S : x >= y
  <2>1. CASE 32 \in S  BY <2>1 DEF Widths
  <2>2. CASE S \subseteq {1, 2, 4, 8, 16} /\ 16 \in S  BY <2>2
  <2>3. CASE S \subseteq {1, 2, 4, 8} /\ 8 \in S  BY <2>3
  <2>4. CASE S \subseteq {1, 2, 4} /\ 4 \in S  BY <2>4
  <2>5. CASE S \subseteq {1, 2} /\ 2 \in S  BY <2>5
  <2>6. CASE S \subseteq {1}
    <3>1. PICK x \in S : TRUE
      OBVIOUS
    <3> QED BY <2>6, <3>1
  <2> QED BY <2>1, <2>2, <2>3, <2>4, <2>5, <2>6 DEF Widths
<1> QED BY <1>1 DEF Config!Max, Widths

LEMMA WidthFacts ==
  /\ \A a \in Widths : a \in Nat /\ a > 0 /\ Config!IsPowerOf2(a)
  /\ \A a \in Widths : a \div 2 \in Widths \/ a \div 2 = 0
  /\ \A a \in Widths : a \div 2 <= a
  /\ \A a, n \in Widths : n <= a => a % n = 0
  /\ \A a, n \in Widths : a < n => 2 * a <= n
<1>1. \A a \in Widths : Config!IsPowerOf2(a)
  <2>1. 1 = 2 ^ 0 /\ 2 = 2 ^ 1 /\ 4 = 2 ^ 2 /\ 8 = 2 ^ 3 /\ 16 = 2 ^ 4 /\ 32 = 2 ^ 5
    OBVIOUS
  <2>2. \A a \in Widths : \E i \in 0 .. 5 : a = 2 ^ i /\ i <= a
    BY <2>1 DEF Widths
  <2>3. ASSUME NEW a \in Widths PROVE Config!IsPowerOf2(a)
    <3>1. PICK i \in 0 .. 5 : a = 2 ^ i /\ i <= a
      BY <2>2
    <3>2. i \in 0 .. a /\ a = 2 ^ i
      BY <3>1 DEF Widths
    <3> QED BY <3>2, Zenon DEF Config!IsPowerOf2
  <2> QED BY <2>3
<1> QED BY <1>1 DEF Widths

(* A multiple of a among any a numbers in a row.                            *)
LEMMA MultipleIn ==
  ASSUME NEW a \in Widths, NEW b \in Nat
  PROVE  \E x \in b .. b + a - 1 : x % a = 0 /\ (x + a) % a = 0
<1> DEFINE x == ((b + a - 1) \div a) * a
<1>1. /\ a = 1 \/ a = 2 \/ a = 4 \/ a = 8 \/ a = 16 \/ a = 32
      /\ b + a - 1 \in Nat
  BY DEF Widths
<1>2. x \in b .. b + a - 1
  BY <1>1
<1>3. x % a = 0 /\ (x + a) % a = 0
  BY <1>1
<1> QED BY <1>2, <1>3

(* If no multiple of a in the first m bytes of the buffer traps an object   *)
(* that needs n, then a is a multiple of n: two multiples of a in a row     *)
(* are in those bytes.                                                      *)
LEMMA NoTrap ==
  ASSUME NEW a \in Widths, NEW m \in Widths, NEW n \in Widths, NEW b \in Nat,
         a <= m, n <= m, \A x \in b .. b + m - 1 : x % a = 0 => x % n = 0
  PROVE  a % n = 0
<1>1. a \in Nat /\ n \in Nat /\ m \in Nat
  BY WidthFacts
<1>2. CASE n <= a
  BY <1>2, WidthFacts
<1>3. CASE a < n
  <2>1. 2 * a <= m
    BY <1>1, <1>3, WidthFacts
  <2>2. PICK x \in b .. b + a - 1 : x % a = 0 /\ (x + a) % a = 0
    BY MultipleIn
  <2>3. x \in b .. b + m - 1 /\ x + a \in b .. b + m - 1
    BY <1>1, <2>1, <2>2
  <2>4. x % n = 0 /\ (x + a) % n = 0 /\ x \in Nat
    BY <2>2, <2>3, <1>1
  <2> HIDE <2>2
  <2>5. CASE n = 1   BY <2>4, <2>5, <1>1
  <2>6. CASE n = 2   BY <2>4, <2>6, <1>1
  <2>7. CASE n = 4   BY <2>4, <2>7, <1>1
  <2>8. CASE n = 8   BY <2>4, <2>8, <1>1
  <2>9. CASE n = 16  BY <2>4, <2>9, <1>1
  <2>10. CASE n = 32 BY <2>4, <2>10, <1>1
  <2> QED BY <2>5, <2>6, <2>7, <2>8, <2>9, <2>10 DEF Widths
<1> QED BY <1>1, <1>2, <1>3

TypeSizes(p) == {p.ints[i] : i \in 1 .. Len(p.ints)} \cup p.floats

(* The sizes of the types of a platform are powers of two, and the CPU      *)
(* insists on no more than the alignment of the largest of them.            *)
PlatformsReal ==
  \A p \in Platforms :
    /\ p.ints \in Seq(Widths)
    /\ p.floats \subseteq Widths /\ p.floats # {}
    /\ p.buffer \in Nat
    /\ \A size \in DOMAIN p.needs :
         /\ p.needs[size] \in Widths
         /\ \E m \in TypeSizes(p) : p.needs[size] <= m

Accepted(a) ==
  \A size \in DOMAIN platform.needs : a % platform.needs[size] = 0

Tested(a) ==
  /\ a \in Widths
  /\ Config!TypeFor(platform.voidp) # 0 => a \in survived /\ Accepted(a)

ConfInv ==
  /\ platform \in Platforms
  /\ confPhase \in {"test", "write"} =>
       alignment \in Widths /\ alignment <= Config!max_sizeof
  /\ confPhase = "write" => Tested(alignment)
  /\ file # Config!NoFile =>
       /\ Tested(file.alignment)
       /\ file.addr = Config!TypeFor(platform.voidp)
       /\ file.size = Config!TypeFor(platform.sizet)

LEMMA LargestSize ==
  ASSUME PlatformsReal, platform \in Platforms
  PROVE  /\ Config!max_sizeof \in Widths
         /\ \A m \in TypeSizes(platform) : m <= Config!max_sizeof
<1>1. TypeSizes(platform) \subseteq Widths /\ TypeSizes(platform) # {}
  <2>1. /\ platform.ints \in Seq(Widths) /\ platform.floats \subseteq Widths
        /\ platform.floats # {}
    BY DEF PlatformsReal
  <2>2. \A i \in 1 .. Len(platform.ints) : platform.ints[i] \in Widths
    BY <2>1
  <2> QED BY <2>1, <2>2, Zenon DEF TypeSizes
<1>2. Config!max_sizeof = Config!Max(TypeSizes(platform))
  BY Zenon DEF Config!max_sizeof, TypeSizes
<1> QED BY <1>1, <1>2, MaxFacts, Zenon

(* An alignment whose test survives is one the CPU accepts for every type.  *)
LEMMA SurvivedAccepted ==
  ASSUME PlatformsReal, platform \in Platforms, alignment \in Widths,
         alignment <= Config!max_sizeof, ~ Config!Traps
  PROVE  Accepted(alignment)
<1> SUFFICES ASSUME NEW size \in DOMAIN platform.needs
             PROVE  alignment % platform.needs[size] = 0
  BY DEF Accepted
<1> DEFINE n == platform.needs[size]
           m == Config!max_sizeof
<1>1. /\ platform.buffer \in Nat /\ n \in Widths
      /\ \E k \in TypeSizes(platform) : n <= k
  BY DEF PlatformsReal
<1>2. m \in Widths /\ \A k \in TypeSizes(platform) : k <= m /\ k \in Int
  <2>1. \A k \in TypeSizes(platform) : k \in Widths
    BY DEF TypeSizes, PlatformsReal
  <2> QED BY <2>1, LargestSize, WidthFacts
<1>3. \A x \in platform.buffer .. platform.buffer + m - 1 :
        x % alignment = 0 => x % n = 0
  BY Zenon DEF Config!Traps
<1>4. n <= m
  <2> HIDE DEF n, m
  <2> QED BY <1>1, <1>2, WidthFacts
<1> HIDE DEF n, m
<1>5. alignment % n = 0
  BY <1>1, <1>2, <1>3, <1>4, NoTrap DEF m
<1> QED BY <1>5 DEF n

LEMMA ConfStep ==
  ASSUME PlatformsReal, ConfInv, [Config!Next]_(Config!vars)
  PROVE  ConfInv'
<1> USE DEF ConfInv
<1>2. CASE UNCHANGED Config!vars
  BY <1>2 DEF Config!vars, Tested, Accepted, Config!TypeFor, Config!max_sizeof
<1>3. CASE Config!Detect
  <2>1. alignment' = Config!max_sizeof /\ alignment' \in Widths /\ alignment' \in Nat
    BY <1>3, LargestSize, WidthFacts DEF Config!Detect
  <2>2. Config!max_sizeof' = Config!max_sizeof
    BY <1>3 DEF Config!Detect, Config!max_sizeof
  <2> QED BY <1>3, <2>1, <2>2 DEF Config!Detect, Tested, Accepted, Config!TypeFor
<1>4. CASE Config!TestAlignment
  <2>1. /\ alignment \in Widths /\ alignment <= Config!max_sizeof
        /\ UNCHANGED <<platform, alignment, file>> /\ survived \subseteq survived'
    BY <1>4 DEF Config!TestAlignment
  <2>2. Config!max_sizeof' = Config!max_sizeof
    BY <2>1 DEF Config!max_sizeof
  <2>3. ASSUME confPhase' = "write", Config!TypeFor(platform.voidp) # 0
        PROVE  alignment \in survived' /\ Accepted(alignment)
    BY <1>4, <2>1, <2>3, SurvivedAccepted DEF Config!TestAlignment
  <2>4. confPhase' = "write" => Tested(alignment)'
    BY <2>1, <2>3 DEF Tested, Accepted, Config!TypeFor
  <2>5. file # Config!NoFile => Tested(file.alignment)'
    BY <2>1 DEF Tested, Accepted, Config!TypeFor
  <2> QED BY <2>1, <2>2, <2>4, <2>5 DEF Config!TypeFor, Config!NoFile
<1>5. CASE Config!WriteFile
  <2>1. /\ alignment \in Widths /\ alignment <= Config!max_sizeof /\ Tested(alignment)
        /\ UNCHANGED <<platform, survived>> /\ alignment' = alignment \div 2
        /\ confPhase' = IF alignment \div 2 > 0 THEN "test" ELSE "finished"
    BY <1>5 DEF Config!WriteFile
  <2>2. Config!max_sizeof' = Config!max_sizeof /\ Config!max_sizeof \in Nat
    BY <2>1, LargestSize, WidthFacts DEF Config!max_sizeof
  <2>3. confPhase' = "test" => alignment' \in Widths /\ alignment' <= Config!max_sizeof
    <3>1. alignment \in Nat /\ alignment \div 2 <= alignment /\ alignment \div 2 \in Int
            /\ (alignment \div 2 \in Widths \/ alignment \div 2 = 0)
      BY <2>1, WidthFacts
    <3> QED BY <2>1, <2>2, <3>1
  <2>4. \A a : Tested(a)' <=> Tested(a)
    BY <2>1 DEF Tested, Accepted, Config!TypeFor
  <2>5. CASE UNCHANGED file
    BY <2>1, <2>2, <2>3, <2>4, <2>5 DEF Config!TypeFor, Config!NoFile
  <2>6. CASE ~ UNCHANGED file
    <3>1. /\ file'.alignment = alignment
          /\ file'.addr = Config!TypeFor(platform.voidp)
          /\ file'.size = Config!TypeFor(platform.sizet)
      BY <1>5, <2>6 DEF Config!WriteFile
    <3>2. /\ Tested(file.alignment)'
          /\ file'.addr = Config!TypeFor(platform.voidp)'
          /\ file'.size = Config!TypeFor(platform.sizet)'
      BY <2>1, <2>4, <3>1 DEF Config!TypeFor
    <3> QED BY <2>1, <2>2, <2>3, <3>2
  <2> QED BY <2>5, <2>6
<1> QED BY <1>2, <1>3, <1>4, <1>5 DEF Config!Next

(* The type TypeFor() finds is not smaller than what it is for.             *)
LEMMA TypeHolds ==
  ASSUME NEW x, Config!TypeFor(x) # 0
  PROVE  platform.ints[Config!TypeFor(x)] >= x
<1> DEFINE fits == {i \in 1 .. Len(platform.ints) : platform.ints[i] >= x}
<1>1. fits # {} /\ Config!TypeFor(x) = Config!Min(fits)
  BY DEF Config!TypeFor
<1>2. fits \subseteq Nat
  OBVIOUS
<1>3. Config!TypeFor(x) \in fits
  <2> HIDE DEF fits
  <2> QED BY <1>1, <1>2, MinFacts
<1> QED BY <1>3

LEMMA ConfRuns == Spec => Config!Spec
<1>1. Init => Config!Init
  BY DEF Init
<1>2. [Next]_all => [Config!Next]_(Config!vars)
  <2>1. ASSUME UNCHANGED confVars PROVE UNCHANGED Config!vars
    BY <2>1 DEF confVars, Config!vars
  <2> QED BY <2>1, OneRuns
<1> QED BY <1>1, <1>2, Parted, PTL DEF Config!Spec

(* However createconf ends and whichever of its attempts to write the file  *)
(* failed, the file that is there has an alignment the CPU accepts for      *)
(* every type, that is a power of two and whose test was survived, and      *)
(* types that hold addresses and sizes; on every platform.                  *)
THEOREM PartFileSound ==
  ASSUME PlatformsReal
  PROVE  Spec => []FileSound
<1>1. Config!Init => ConfInv
  BY DEF Config!Init, ConfInv
<1>2. ConfInv /\ [Config!Next]_(Config!vars) => ConfInv'
  BY ConfStep
<1>3. ConfInv => Config!FileSound
  <2> SUFFICES ASSUME ConfInv, file # Config!NoFile,
                      Config!TypeFor(platform.voidp) # 0
               PROVE  /\ \A size \in DOMAIN platform.needs :
                           file.alignment % platform.needs[size] = 0
                      /\ file.alignment \in survived
                      /\ Config!IsPowerOf2(file.alignment)
                      /\ platform.ints[file.addr] >= platform.voidp
                      /\ file.size # 0 => platform.ints[file.size] >= platform.sizet
    BY DEF Config!FileSound
  <2>1. Tested(file.alignment)
    BY DEF ConfInv
  <2>2. platform.ints[file.addr] >= platform.voidp
    BY TypeHolds DEF ConfInv
  <2>3. file.size # 0 => platform.ints[file.size] >= platform.sizet
    BY TypeHolds DEF ConfInv
  <2> QED BY <2>1, <2>2, <2>3, WidthFacts DEF Tested, Accepted
<1> QED BY <1>1, <1>2, <1>3, ConfRuns, PTL DEF Config!Spec, FileSound

-----------------------------------------------------------------------------
(* The settings and the environment.                                        *)

(* The words of the names of the variables.                                 *)
Words == {
  "DUMA", "ALIGNMENT", "PROTECT", "BELOW", "REPORT", "ALL", "LEAKS",
  "FREE", "MAX", "ALLOC", "MALLOC", "0", "STRATEGY", "NEW", "FAILEXIT",
  "ACCESS", "FILL", "SLACKFILL", "SHOW", "SUPPRESS", "ATEXIT", "MEMCPY",
  "OVERLAP", "OUTPUT", "STACKTRACE", "MAPFILE", "DEBUG", "STDOUT",
  "STDERR", "FILE", "SKIPCOUNT", "INIT", "CHECK", "FREQ", "DISABLE",
  "BANNER"}

Rules == {"flag", "long", "alignment", "malloc0", "new0", "fill", "slackfill",
          "freq", "copy"}

(* The entries of an environment are texts with the number that atoi()      *)
(* finds in them.                                                           *)
EnvironmentsReal ==
  \A e \in Environments :
    \E W : e \in Seq([text : Seq(W), value : Int])

LEMMA Names ==
  ASSUME NEW S, "DUMA" \in S, NEW a \in S, NEW b \in S, NEW c \in S
  PROVE  /\ Env!D(<<a>>) \in Seq(S) /\ Env!D(<<a, b>>) \in Seq(S)
         /\ Env!D(<<a, b, c>>) \in Seq(S) /\ <<a, b, c>> \in Seq(S)
<1>1. <<a>> \in Seq(S) /\ <<a, b>> \in Seq(S) /\ <<a, b, c>> \in Seq(S)
  OBVIOUS
<1>2. \A w \in Seq(S) : Env!D(w) \in Seq(S)
  BY DEF Env!D
<1> QED BY <1>1, <1>2

LEMMA VariableNames == \A i \in 1 .. 23 : Env!Variables[i].name \in Seq(Words)
<1>0. /\ "DUMA" \in Words /\ "ALIGNMENT" \in Words /\ "PROTECT" \in Words
      /\ "BELOW" \in Words /\ "REPORT" \in Words /\ "ALL" \in Words
      /\ "LEAKS" \in Words /\ "FREE" \in Words /\ "MAX" \in Words
      /\ "ALLOC" \in Words /\ "MALLOC" \in Words /\ "0" \in Words
      /\ "STRATEGY" \in Words /\ "NEW" \in Words /\ "FAILEXIT" \in Words
      /\ "ACCESS" \in Words /\ "FILL" \in Words /\ "SLACKFILL" \in Words
      /\ "SHOW" \in Words /\ "SUPPRESS" \in Words /\ "ATEXIT" \in Words
      /\ "MEMCPY" \in Words /\ "OVERLAP" \in Words /\ "OUTPUT" \in Words
      /\ "STACKTRACE" \in Words /\ "MAPFILE" \in Words /\ "DEBUG" \in Words
      /\ "STDOUT" \in Words /\ "STDERR" \in Words /\ "FILE" \in Words
      /\ "SKIPCOUNT" \in Words /\ "INIT" \in Words /\ "CHECK" \in Words
      /\ "FREQ" \in Words /\ "DISABLE" \in Words /\ "BANNER" \in Words
  BY DEF Words
<1>1. Env!Variables[1].name \in Seq(Words)  BY <1>0, Names DEF Env!Variables, Env!Entry
<1>2. Env!Variables[2].name \in Seq(Words)  BY <1>0, Names DEF Env!Variables, Env!Entry
<1>3. Env!Variables[3].name \in Seq(Words)  BY <1>0, Names DEF Env!Variables, Env!Entry
<1>4. Env!Variables[4].name \in Seq(Words)  BY <1>0, Names DEF Env!Variables, Env!Entry
<1>5. Env!Variables[5].name \in Seq(Words)  BY <1>0, Names DEF Env!Variables, Env!Entry
<1>6. Env!Variables[6].name \in Seq(Words)  BY <1>0, Names DEF Env!Variables, Env!Entry
<1>7. Env!Variables[7].name \in Seq(Words)  BY <1>0, Names DEF Env!Variables, Env!Entry
<1>8. Env!Variables[8].name \in Seq(Words)  BY <1>0, Names DEF Env!Variables, Env!Entry
<1>9. Env!Variables[9].name \in Seq(Words)  BY <1>0, Names DEF Env!Variables, Env!Entry
<1>10. Env!Variables[10].name \in Seq(Words)  BY <1>0, Names DEF Env!Variables, Env!Entry
<1>11. Env!Variables[11].name \in Seq(Words)  BY <1>0, Names DEF Env!Variables, Env!Entry
<1>12. Env!Variables[12].name \in Seq(Words)  BY <1>0, Names DEF Env!Variables, Env!Entry
<1>13. Env!Variables[13].name \in Seq(Words)  BY <1>0, Names DEF Env!Variables, Env!Entry
<1>14. Env!Variables[14].name \in Seq(Words)  BY <1>0, Names DEF Env!Variables, Env!Entry
<1>15. Env!Variables[15].name \in Seq(Words)  BY <1>0, Names DEF Env!Variables, Env!Entry
<1>16. Env!Variables[16].name \in Seq(Words)  BY <1>0, Names DEF Env!Variables, Env!Entry
<1>17. Env!Variables[17].name \in Seq(Words)  BY <1>0, Names DEF Env!Variables, Env!Entry
<1>18. Env!Variables[18].name \in Seq(Words)  BY <1>0, Names DEF Env!Variables, Env!Entry
<1>19. Env!Variables[19].name \in Seq(Words)  BY <1>0, Names DEF Env!Variables, Env!Entry
<1>20. Env!Variables[20].name \in Seq(Words)  BY <1>0, Names DEF Env!Variables, Env!Entry
<1>21. Env!Variables[21].name \in Seq(Words)  BY <1>0, Names DEF Env!Variables, Env!Entry
<1>22. Env!Variables[22].name \in Seq(Words)  BY <1>0, Names DEF Env!Variables, Env!Entry
<1>23. Env!Variables[23].name \in Seq(Words)  BY <1>0, Names DEF Env!Variables, Env!Entry
<1>24. \A i \in 1 .. 23 :
         \/ i = 1 \/ i = 2 \/ i = 3 \/ i = 4 \/ i = 5 \/ i = 6 \/ i = 7 \/ i = 8
         \/ i = 9 \/ i = 10 \/ i = 11 \/ i = 12 \/ i = 13 \/ i = 14 \/ i = 15 \/ i = 16
         \/ i = 17 \/ i = 18 \/ i = 19 \/ i = 20 \/ i = 21 \/ i = 22 \/ i = 23
  OBVIOUS
<1> QED BY <1>1, <1>2, <1>3, <1>4, <1>5, <1>6, <1>7, <1>8, <1>9, <1>10,
           <1>11, <1>12, <1>13, <1>14, <1>15, <1>16, <1>17, <1>18, <1>19,
           <1>20, <1>21, <1>22, <1>23, <1>24

LEMMA VariableFacts ==
  ASSUME MIN_ALIGNMENT \in Int \ {0}
  PROVE  /\ Len(Env!Variables) = 23
         /\ DOMAIN Env!Variables = 1 .. 23
         /\ \A i \in 1 .. 23 :
              LET v == Env!Variables[i] IN
              /\ v.rule \in Rules /\ v.default \in Env!Legal(v.rule)
              /\ v.rule = "freq" => v.default = 0
         /\ \A i, j \in 1 .. 23 :
              Env!Variables[i].setting = Env!Variables[j].setting => i = j
<1>1. Len(Env!Variables) = 23 /\ DOMAIN Env!Variables = 1 .. 23
  BY DEF Env!Variables
<1>2. \A i \in 1 .. 23 : Env!Variables[i].rule \in Rules
  BY DEF Env!Variables, Env!Entry, Rules
<1>3. \A i \in 1 .. 23 : Env!Variables[i].default \in Env!Legal(Env!Variables[i].rule)
  BY DEF Env!Variables, Env!Entry, Env!Legal
<1>4. \A i \in 1 .. 23 : Env!Variables[i].rule = "freq" => Env!Variables[i].default = 0
  BY DEF Env!Variables, Env!Entry
<1>5. \A i, j \in 1 .. 23 :
        Env!Variables[i].setting = Env!Variables[j].setting => i = j
  BY DEF Env!Variables, Env!Entry
<1> QED BY <1>1, <1>2, <1>3, <1>4, <1>5

(* What is stored is legal if what was stored before is, and it is the      *)
(* number asked for if that is legal.                                       *)
LEMMA StoredFacts ==
  ASSUME NEW rule \in Rules, NEW n \in Int, NEW old \in Env!Legal(rule),
         rule = "freq" => old = 0
  PROVE  /\ Env!Stored(rule, n, old) \in Env!Legal(rule)
         /\ rule # "copy" /\ n \in Env!Legal(rule) => Env!Stored(rule, n, old) = n
         /\ rule = "copy" => Env!Stored(rule, n, old) = 1
BY DEF Rules, Env!Legal, Env!Stored

(* An entry begins with the name and "=" exactly if duma_getenv() finds it. *)
LEMMA MatchesOwn ==
  ASSUME NEW S, NEW text \in Seq(S), NEW T, NEW name \in Seq(T)
  PROVE  (\E rest \in 1 .. Len(text) : SubSeq(text, 1, rest) = Append(name, "="))
           <=> /\ Len(text) > Len(name)
               /\ \A i \in 1 .. Len(name) : text[i] = name[i]
               /\ text[Len(name) + 1] = "="
<1> DEFINE n == Len(name)
           own == Append(name, "=")
           U == S \cup T \cup {"="}
<1>1. n \in Nat /\ Len(text) \in Nat
  OBVIOUS
<1>2. /\ own \in Seq(U) /\ Len(own) = n + 1 /\ own[n + 1] = "="
      /\ \A i \in 1 .. n : own[i] = name[i]
  <2>1. name \in Seq(U)
    OBVIOUS
  <2> QED BY <2>1
<1>3. \A rest \in 1 .. Len(text) :
        /\ SubSeq(text, 1, rest) \in Seq(U) /\ Len(SubSeq(text, 1, rest)) = rest
        /\ \A i \in 1 .. rest : SubSeq(text, 1, rest)[i] = text[i]
  <2>1. text \in Seq(U)
    OBVIOUS
  <2> QED BY <2>1
<1> HIDE DEF own, n, U
<1>4. ASSUME NEW rest \in 1 .. Len(text), SubSeq(text, 1, rest) = own
      PROVE  /\ Len(text) > n /\ \A i \in 1 .. n : text[i] = name[i]
             /\ text[n + 1] = "="
  <2>1. rest = n + 1
    BY <1>2, <1>3, <1>4
  <2> QED BY <1>1, <1>2, <1>3, <1>4, <2>1
<1>5. ASSUME Len(text) > n, \A i \in 1 .. n : text[i] = name[i], text[n + 1] = "="
      PROVE  \E rest \in 1 .. Len(text) : SubSeq(text, 1, rest) = own
  <2>1. n + 1 \in 1 .. Len(text)
    BY <1>1, <1>5
  <2> DEFINE pre == SubSeq(text, 1, n + 1)
  <2>2. pre \in Seq(U) /\ Len(pre) = n + 1 /\ \A i \in 1 .. n + 1 : pre[i] = text[i]
    BY <1>3, <2>1
  <2> HIDE DEF pre
  <2>3. \A i \in 1 .. n + 1 : pre[i] = own[i]
    BY <1>1, <1>2, <1>5, <2>2
  <2>4. pre = own
    BY <1>1, <1>2, <2>2, <2>3
  <2> QED BY <2>1, <2>4 DEF pre
<1> QED BY <1>4, <1>5 DEF own, n

-----------------------------------------------------------------------------
(* A variable that has been read has the value of its first own entry.      *)
Read(i) ==
  LET v == Env!Variables[i]
      own == Env!OwnEntries(v)
      value == environ[Env!Min(own)].value
  IN  /\ settings[v.setting] \in Env!Legal(v.rule)
      /\ own = {} => settings[v.setting] = v.default
      /\ own # {} /\ v.rule # "copy" /\ value \in Env!Legal(v.rule)
           => settings[v.setting] = value
      /\ own # {} /\ v.rule = "copy"
           => settings[v.setting] = 1 /\ environ[Env!Min(own)].text \in copies

EnvInv ==
  /\ environ \in Environments
  /\ next \in 1 .. 24
  /\ DOMAIN settings = {Env!Variables[i].setting : i \in 1 .. 23}
  /\ \A i \in 1 .. 23 :
       IF i < next THEN Read(i)
       ELSE settings[Env!Variables[i].setting] = Env!Variables[i].default

(* duma_getenv() finds the entries of a variable.                           *)
LEMMA FindsOwn ==
  ASSUME EnvironmentsReal, environ \in Environments, NEW i \in 1 .. 23
  PROVE  LET own == Env!OwnEntries(Env!Variables[i]) IN
         /\ own = Env!Matching(Env!Variables[i].name)
         /\ own # {} => /\ Env!Min(own) \in own
                        /\ environ[Env!Min(own)].value \in Int
<1> DEFINE name == Env!Variables[i].name
           own == Env!OwnEntries(Env!Variables[i])
<1>1. PICK W : environ \in Seq([text : Seq(W), value : Int])
  BY DEF EnvironmentsReal
<1>2. name \in Seq(Words)
  BY VariableNames
<1>3. /\ own = {k \in 1 .. Len(environ) : \E rest \in 1 .. Len(environ[k].text) :
                 SubSeq(environ[k].text, 1, rest) = Append(name, "=")}
      /\ Env!Matching(name) = {k \in 1 .. Len(environ) :
           /\ Len(environ[k].text) > Len(name)
           /\ \A j \in 1 .. Len(name) : environ[k].text[j] = name[j]
           /\ environ[k].text[Len(name) + 1] = "="}
  BY Zenon DEF Env!OwnEntries, Env!Matching, Env!Matches
<1>4. \A k \in 1 .. Len(environ) :
        environ[k].text \in Seq(W) /\ environ[k].value \in Int
  <2> DEFINE Entries == [text : Seq(W), value : Int]
  <2>1. environ \in Seq(Entries)
    BY <1>1
  <2> HIDE DEF Entries
  <2>2. \A k \in 1 .. Len(environ) : environ[k] \in Entries
    BY <2>1
  <2> QED BY <2>2 DEF Entries
<1> HIDE DEF name, own
<1>5. own = Env!Matching(name)
  <2>1. \A k \in 1 .. Len(environ) :
          (\E rest \in 1 .. Len(environ[k].text) :
             SubSeq(environ[k].text, 1, rest) = Append(name, "="))
            <=> /\ Len(environ[k].text) > Len(name)
                /\ \A j \in 1 .. Len(name) : environ[k].text[j] = name[j]
                /\ environ[k].text[Len(name) + 1] = "="
    BY <1>2, <1>4, MatchesOwn
  <2> QED BY <1>3, <2>1, Zenon
<1>6. own # {} => Env!Min(own) \in own
  <2>1. own \subseteq Nat
    BY <1>1, <1>3
  <2> QED BY <2>1, MinFacts
<1>7. own # {} => environ[Env!Min(own)].value \in Int
  BY <1>3, <1>4, <1>6
<1> QED BY <1>5, <1>6, <1>7 DEF own, name

LEMMA EnvInit ==
  ASSUME MIN_ALIGNMENT \in Int \ {0}, Env!Init
  PROVE  EnvInv
<1>1. /\ Len(Env!Variables) = 23 /\ DOMAIN Env!Variables = 1 .. 23
      /\ \A i, j \in 1 .. 23 :
           Env!Variables[i].setting = Env!Variables[j].setting => i = j
  BY VariableFacts
<1>2. ASSUME NEW i \in 1 .. 23
      PROVE  Env!VariableOf(Env!Variables[i].setting) = Env!Variables[i]
  <2>1. Env!ToSet(Env!Variables) = {Env!Variables[j] : j \in 1 .. 23}
    BY <1>1 DEF Env!ToSet
  <2> QED BY <1>1, <2>1 DEF Env!VariableOf
<1>3. Env!Settings = {Env!Variables[i].setting : i \in 1 .. 23}
  BY <1>1 DEF Env!Settings
<1>4. \A i \in 1 .. 23 :
        settings[Env!Variables[i].setting] = Env!Variables[i].default
  BY <1>2, <1>3 DEF Env!Init
<1>5. environ \in Environments /\ next = 1 /\ DOMAIN settings = Env!Settings
  BY DEF Env!Init
<1>6. next \in 1 .. 24 /\ \A i \in 1 .. 23 : ~ (i < next)
  BY <1>5
<1> QED BY <1>3, <1>4, <1>5, <1>6, Zenon DEF EnvInv

LEMMA EnvStep ==
  ASSUME MIN_ALIGNMENT \in Int \ {0}, EnvironmentsReal, EnvInv,
         [Env!Next]_(Env!vars)
  PROVE  EnvInv'
<1>1. CASE UNCHANGED Env!vars
  BY <1>1 DEF Env!vars, EnvInv, Read, Env!OwnEntries
<1>2. CASE Env!ReadVariable
  <2>k. PICK k : k = next
    OBVIOUS
  <2> DEFINE v == Env!Variables[k]
             own == Env!OwnEntries(v)
             entry == environ[Env!Min(own)]
             new == Env!Stored(v.rule, entry.value, settings[v.setting])
  <2>len. Len(Env!Variables) = 23
    BY VariableFacts
  <2>1. /\ k \in 1 .. 23 /\ next' = k + 1 /\ environ' = environ
        /\ environ \in Environments
    BY <1>2, <2>k, <2>len DEF Env!ReadVariable, EnvInv
  <2>2. /\ v.rule \in Rules /\ v.default \in Env!Legal(v.rule)
        /\ v.rule = "freq" => v.default = 0
        /\ settings[v.setting] = v.default /\ v.setting \in DOMAIN settings
        /\ DOMAIN settings = {Env!Variables[i].setting : i \in 1 .. 23}
    BY <2>k, <2>1, VariableFacts DEF EnvInv
  <2>3. /\ own = Env!Matching(v.name)
        /\ own # {} => Env!Min(own) \in own /\ entry.value \in Int
    BY <2>1, FindsOwn
  <2>4. \A i \in 1 .. 23 : i # k => Env!Variables[i].setting # v.setting
    BY <2>1, VariableFacts
  <2>5. \A i \in 1 .. 23 : Env!OwnEntries(Env!Variables[i])'
                             = Env!OwnEntries(Env!Variables[i])
    BY <2>1 DEF Env!OwnEntries
  <2>6. IF own = {}
          THEN UNCHANGED <<settings, copies>>
          ELSE /\ settings' = [settings EXCEPT ![v.setting] = new]
               /\ copies' = IF v.rule = "copy" THEN copies \cup {entry.text}
                            ELSE copies
    BY <1>2, <2>k, <2>3, Zenon DEF Env!ReadVariable
  <2> HIDE DEF own
  <2>7. own # {} => /\ new \in Env!Legal(v.rule)
                    /\ v.rule # "copy" /\ entry.value \in Env!Legal(v.rule)
                         => new = entry.value
                    /\ v.rule = "copy" => new = 1
    BY <2>2, <2>3, StoredFacts
  <2> HIDE DEF v, entry, new
  <2>8. /\ DOMAIN settings' = DOMAIN settings /\ copies \subseteq copies'
        /\ \A i \in 1 .. 23 : i # k =>
             settings'[Env!Variables[i].setting] = settings[Env!Variables[i].setting]
    <3>1. CASE own = {}
      BY <2>6, <3>1
    <3>2. CASE own # {}
      <4>1. /\ settings' = [settings EXCEPT ![v.setting] = new]
            /\ copies \subseteq copies'
        BY <2>6, <3>2
      <4>2. ASSUME NEW i \in 1 .. 23, i # k
            PROVE  settings'[Env!Variables[i].setting]
                     = settings[Env!Variables[i].setting]
        <5>1. /\ Env!Variables[i].setting \in DOMAIN settings
              /\ Env!Variables[i].setting # v.setting
          BY <2>2, <2>4, <4>2
        <5> QED BY <4>1, <5>1
      <4> QED BY <4>1, <4>2
    <3> QED BY <3>1, <3>2
  <2>9. Read(k)'
    <3>1. /\ settings'[v.setting] \in Env!Legal(v.rule)
          /\ own = {} => settings'[v.setting] = v.default
          /\ own # {} /\ v.rule # "copy" /\ entry.value \in Env!Legal(v.rule)
               => settings'[v.setting] = entry.value
          /\ own # {} /\ v.rule = "copy"
               => settings'[v.setting] = 1 /\ entry.text \in copies'
      BY <2>2, <2>6, <2>7
    <3>2. /\ Env!OwnEntries(v)' = own
          /\ environ'[Env!Min(own)] = entry
      BY <2>1, <2>5 DEF v, own, entry
    <3> QED BY <3>1, <3>2 DEF Read, v
  <2>10. ASSUME NEW i \in 1 .. 23, i < k PROVE Read(i)'
    <3>1. Read(i) /\ i # k
      BY <2>k, <2>1, <2>10 DEF EnvInv
    <3>2. /\ Env!OwnEntries(Env!Variables[i])' = Env!OwnEntries(Env!Variables[i])
          /\ settings'[Env!Variables[i].setting] = settings[Env!Variables[i].setting]
          /\ environ' = environ /\ copies \subseteq copies'
      BY <2>1, <2>5, <2>8, <3>1
    <3> QED BY <3>1, <3>2 DEF Read
  <2>11. \A i \in 1 .. 23 : i < k + 1 => i < k \/ i = k
    BY <2>1
  <2>12. ASSUME NEW i \in 1 .. 23, ~ (i < k + 1)
         PROVE  settings'[Env!Variables[i].setting] = Env!Variables[i].default
    <3>1. ~ (i < next) /\ i # k
      BY <2>k, <2>1, <2>12
    <3>2. settings[Env!Variables[i].setting] = Env!Variables[i].default
      BY <3>1 DEF EnvInv
    <3> QED BY <2>8, <3>1, <3>2
  <2>13. \A i \in 1 .. 23 : i < k + 1 => Read(i)'
    BY <2>9, <2>10, <2>11
  <2>14. k + 1 \in 1 .. 24
    BY <2>1
  <2> HIDE DEF Read
  <2> QED BY <2>1, <2>2, <2>8, <2>12, <2>13, <2>14 DEF EnvInv
<1> QED BY <1>1, <1>2 DEF Env!Next

LEMMA EnvRuns == Spec => Env!Spec
<1>1. Init => Env!Init
  BY DEF Init
<1>2. [Next]_all => [Env!Next]_(Env!vars)
  <2>1. ASSUME UNCHANGED envVars PROVE UNCHANGED Env!vars
    BY <2>1 DEF envVars, Env!vars
  <2> QED BY <2>1, OneRuns
<1> QED BY <1>1, <1>2, Parted, PTL DEF Env!Spec

(* Each setting is what the first entry of its own name asks for if that is *)
(* legal, the default if there is none, and always in its range, whatever   *)
(* other entries the environment has and however many.  The settings that   *)
(* the documentation describes in another way are exempt as far as it does. *)
THEOREM PartEnvironmentRespected ==
  ASSUME MIN_ALIGNMENT \in Int \ {0}, EnvironmentsReal
  PROVE  Spec => []EnvironmentRespected
<1>1. Env!Init => EnvInv
  BY EnvInit
<1>2. EnvInv /\ [Env!Next]_(Env!vars) => EnvInv'
  BY EnvStep
<1>3. EnvInv => Env!EnvironmentRespected
  <2> SUFFICES ASSUME EnvInv, next > Len(Env!Variables),
                      NEW v \in Env!ToSet(Env!Variables)
               PROVE  LET own == Env!OwnEntries(v)
                          value == environ[Env!Min(own)].value
                      IN  /\ v.setting # "SKIPCOUNT_INIT"
                               => settings[v.setting] \in Env!Legal(v.rule)
                          /\ own = {} /\ Env!OwnEntries(Env!Documented(v)) = {}
                               => settings[v.setting] = v.default
                          /\ own # {} /\ Env!Documented(v) = v /\ v.rule # "copy"
                               /\ value \in Env!Legal(v.rule)
                               => settings[v.setting] = value
                          /\ own # {} /\ v.rule = "copy"
                               => /\ settings[v.setting] = 1
                                  /\ environ[Env!Min(own)].text \in copies
    BY Zenon DEF Env!EnvironmentRespected
  <2>1. PICK i \in 1 .. 23 : v = Env!Variables[i]
    BY VariableFacts DEF Env!ToSet
  <2>2. Read(i)
    <3>1. Len(Env!Variables) = 23
      BY VariableFacts
    <3> QED BY <3>1 DEF EnvInv
  <2> DEFINE own == Env!OwnEntries(v)
             value == environ[Env!Min(own)].value
  <2>3. /\ settings[v.setting] \in Env!Legal(v.rule)
        /\ own = {} => settings[v.setting] = v.default
        /\ own # {} /\ v.rule # "copy" /\ value \in Env!Legal(v.rule)
             => settings[v.setting] = value
        /\ own # {} /\ v.rule = "copy"
             => settings[v.setting] = 1 /\ environ[Env!Min(own)].text \in copies
    BY <2>1, <2>2, Zenon DEF Read
  <2> HIDE DEF own, value
  <2>4. own = {} /\ Env!OwnEntries(Env!Documented(v)) = {}
          => settings[v.setting] = v.default
    BY <2>3
  <2>5. own # {} /\ Env!Documented(v) = v /\ v.rule # "copy" /\ value \in Env!Legal(v.rule)
          => settings[v.setting] = value
    BY <2>3
  <2> QED BY <2>3, <2>4, <2>5 DEF own, value
<1> QED BY <1>1, <1>2, <1>3, EnvRuns, PTL DEF Env!Spec, EnvironmentRespected

-----------------------------------------------------------------------------
LEMMA Induction ==
  ASSUME NEW S, 0 \in S, \A n \in Nat : n \in S => n + 1 \in S
  PROVE  Nat \subseteq S
<1> SUFFICES ASSUME NEW m \in Nat \ S
             PROVE  FALSE
  OBVIOUS
<1> DEFINE Missing == {k \in Nat : k \notin S}
<1>1. PICK x \in Missing : \A y \in Missing : x <= y
  <2>1. Missing \subseteq Nat /\ Missing # {}
    OBVIOUS
  <2> HIDE DEF Missing
  <2> QED BY <2>1, LeastElement
<1>2. x \in Nat /\ x # 0 /\ x - 1 \in Nat /\ x - 1 \in S
  <2>1. x \in Nat /\ x # 0
    OBVIOUS
  <2>2. x - 1 \in Nat /\ x - 1 \notin Missing
    BY <1>1, <2>1
  <2> QED BY <2>1, <2>2
<1> QED
  <2>1. (x - 1) + 1 = x
    BY <1>2
  <2>2. x \in S
    BY <1>2, <2>1
  <2> QED BY <2>2

LEMMA SameLoop ==
  ASSUME NEW f, NEW g, NEW n \in Nat, f[0] = g[0],
         \A i \in 1 .. n : f[i - 1] = g[i - 1] => f[i] = g[i]
  PROVE  f[n] = g[n]
<1> DEFINE S == {k \in Nat : k <= n => f[k] = g[k]}
<1>1. 0 \in S
  OBVIOUS
<1>2. ASSUME NEW k \in Nat, k \in S PROVE k + 1 \in S
  <2>1. CASE k + 1 <= n
    <3>1. k + 1 \in 1 .. n /\ (k + 1) - 1 = k /\ k <= n
      BY <2>1
    <3>2. f[k] = g[k]
      BY <1>2, <3>1
    <3> QED BY <3>1, <3>2
  <2>2. CASE ~ (k + 1 <= n)
    BY <2>2
  <2> QED BY <2>1, <2>2
<1> HIDE DEF S
<1>3. n \in S
  BY <1>1, <1>2, Induction
<1> QED BY <1>3 DEF S

LEMMA MovedType ==
  ASSUME MemSize \in Nat, NEW m \in [String!Addr -> Chars],
         NEW d \in Nat, NEW s \in Nat, NEW n \in Nat,
         d + n <= MemSize, s + n <= MemSize
  PROVE  /\ String!Moved(m, d, s, n) \in [String!Addr -> Chars]
         /\ \A a \in String!Addr : String!Moved(m, d, s, n)[a] =
              IF a \in d .. d + n - 1 THEN m[s + a - d] ELSE m[a]
         /\ n = 0 => String!Moved(m, d, s, n) = m
<1>1. ASSUME NEW a \in String!Addr, a \in d .. d + n - 1 PROVE s + a - d \in String!Addr
  BY <1>1 DEF String!Addr
<1> QED BY <1>1 DEF String!Moved

LEMMA UpStep ==
  ASSUME MemSize \in Nat, NEW m \in [String!Addr -> Chars],
         NEW d \in Nat, NEW s \in Nat, NEW n \in Nat,
         d + n <= MemSize, s + n <= MemSize, ~ (s < d /\ d < s + n),
         NEW i \in 1 .. n
  PROVE  String!Moved(m, d, s, i) = [String!Moved(m, d, s, i - 1) EXCEPT ![d + i - 1] =
                                String!Moved(m, d, s, i - 1)[s + i - 1]]
<1> DEFINE p == String!Moved(m, d, s, i - 1)
           q == String!Moved(m, d, s, i)
<1>1. /\ p \in [String!Addr -> Chars]
      /\ \A a \in String!Addr : p[a] = IF a \in d .. d + i - 2 THEN m[s + a - d] ELSE m[a]
  <2>1. i - 1 \in Nat /\ d + (i - 1) <= MemSize /\ s + (i - 1) <= MemSize
         /\ d + (i - 1) - 1 = d + i - 2
    OBVIOUS
  <2> QED BY <2>1, MovedType
<1>2. /\ q \in [String!Addr -> Chars]
      /\ \A a \in String!Addr : q[a] = IF a \in d .. d + i - 1 THEN m[s + a - d] ELSE m[a]
  <2>1. i \in Nat /\ d + i <= MemSize /\ s + i <= MemSize
    OBVIOUS
  <2> QED BY <2>1, MovedType
<1> HIDE DEF p, q
<1>3. s + i - 1 \in String!Addr /\ d + i - 1 \in String!Addr /\ s + i - 1 \notin d .. d + i - 2
  BY DEF String!Addr
<1>4. p[s + i - 1] = m[s + i - 1]
  BY <1>1, <1>3
<1>5. ASSUME NEW a \in String!Addr
      PROVE  q[a] = IF a = d + i - 1 THEN m[s + i - 1] ELSE p[a]
  <2>1. a \in Int
    BY DEF String!Addr
  <2>2. CASE a = d + i - 1
    <3>1. a \in d .. d + i - 1 /\ s + a - d = s + i - 1
      BY <2>2
    <3> QED BY <1>2, <2>2, <3>1
  <2>3. CASE a # d + i - 1
    <3>1. a \in d .. d + i - 1 <=> a \in d .. d + i - 2
      BY <2>1, <2>3
    <3> QED BY <1>1, <1>2, <2>3, <3>1
  <2> QED BY <2>2, <2>3
<1>6. q = [p EXCEPT ![d + i - 1] = p[s + i - 1]]
  BY <1>1, <1>2, <1>3, <1>4, <1>5
<1> QED BY <1>6 DEF p, q

LEMMA CopiedUp ==
  ASSUME MemSize \in Nat, NEW m \in [String!Addr -> Chars],
         NEW d \in Nat, NEW s \in Nat, NEW n \in Nat,
         d + n <= MemSize, s + n <= MemSize, ~ (s < d /\ d < s + n)
  PROVE  String!CopyUp(m, d, s, n) = String!Moved(m, d, s, n)
<1> DEFINE closed == [i \in 0 .. n |-> String!Moved(m, d, s, i)]
           Is(f) == f = [i \in 0 .. n |->
                           IF i = 0 THEN m
                           ELSE [f[i - 1] EXCEPT ![d + i - 1] = f[i - 1][s + i - 1]]]
           g == CHOOSE f : Is(f)
<1>1. String!Moved(m, d, s, 0) = m
  BY MovedType
<1>2. Is(closed)
  <2>1. \A i \in 0 .. n : i # 0 => i - 1 \in 0 .. n
    OBVIOUS
  <2> QED BY <1>1, <2>1, UpStep
<1>3. Is(g)
  BY <1>2
<1>4. String!CopyUp(m, d, s, n) = g[n]
  BY DEF String!CopyUp
<1> HIDE DEF g, closed
<1>5. 0 \in 0 .. n /\ \A i \in 1 .. n : i \in 0 .. n /\ i # 0
  OBVIOUS
<1>6. ASSUME NEW f, Is(f)
      PROVE  /\ f[0] = m
             /\ \A i \in 1 .. n :
                  f[i] = [f[i - 1] EXCEPT ![d + i - 1] = f[i - 1][s + i - 1]]
  BY <1>5, <1>6, Zenon
<1> HIDE DEF Is
<1>7. /\ g[0] = m /\ closed[0] = m
      /\ \A i \in 1 .. n :
           /\ g[i] = [g[i - 1] EXCEPT ![d + i - 1] = g[i - 1][s + i - 1]]
           /\ closed[i] = [closed[i - 1] EXCEPT ![d + i - 1] = closed[i - 1][s + i - 1]]
  BY <1>2, <1>3, <1>6, Zenon
<1>8. g[n] = closed[n]
  <2>1. ASSUME NEW i \in 1 .. n, g[i - 1] = closed[i - 1]
        PROVE  g[i] = closed[i]
    BY <1>7, <2>1, Zenon
  <2>2. g[0] = closed[0]
    BY <1>7
  <2> QED BY <2>1, <2>2, SameLoop, Zenon
<1> QED BY <1>4, <1>8 DEF closed

(* The k bytes moved last by a loop from the top.                           *)
TopMoved(m, d, s, n, k) ==
  [a \in String!Addr |-> IF a \in d + n - k .. d + n - 1 THEN m[s + a - d] ELSE m[a]]

LEMMA DownStep ==
  ASSUME MemSize \in Nat, NEW m \in [String!Addr -> Chars],
         NEW d \in Nat, NEW s \in Nat, NEW n \in Nat,
         d + n <= MemSize, s + n <= MemSize, s <= d,
         NEW i \in 1 .. n
  PROVE  TopMoved(m, d, s, n, i) =
           [TopMoved(m, d, s, n, i - 1) EXCEPT ![d + n - i] =
              TopMoved(m, d, s, n, i - 1)[s + n - i]]
<1> DEFINE p == TopMoved(m, d, s, n, i - 1)
           q == TopMoved(m, d, s, n, i)
<1>1. /\ DOMAIN p = String!Addr /\ p = [a \in String!Addr |-> p[a]]
      /\ \A a \in String!Addr :
           p[a] = IF a \in d + n - i + 1 .. d + n - 1 THEN m[s + a - d] ELSE m[a]
  <2>1. d + n - (i - 1) = d + n - i + 1
    OBVIOUS
  <2> QED BY <2>1 DEF TopMoved
<1>2. /\ q = [a \in String!Addr |-> q[a]]
      /\ \A a \in String!Addr :
           q[a] = IF a \in d + n - i .. d + n - 1 THEN m[s + a - d] ELSE m[a]
  BY DEF TopMoved
<1> HIDE DEF p, q
<1>3. /\ s + n - i \in String!Addr /\ d + n - i \in String!Addr
      /\ s + n - i \notin d + n - i + 1 .. d + n - 1
  BY DEF String!Addr
<1>4. p[s + n - i] = m[s + n - i]
  BY <1>1, <1>3
<1>5. ASSUME NEW a \in String!Addr
      PROVE  q[a] = IF a = d + n - i THEN m[s + n - i] ELSE p[a]
  <2>1. a \in Int
    BY DEF String!Addr
  <2>2. CASE a = d + n - i
    <3>1. a \in d + n - i .. d + n - 1 /\ s + a - d = s + n - i
      BY <2>2
    <3> QED BY <1>2, <2>2, <3>1
  <2>3. CASE a # d + n - i
    <3>1. a \in d + n - i .. d + n - 1 <=> a \in d + n - i + 1 .. d + n - 1
      BY <2>1, <2>3
    <3> QED BY <1>1, <1>2, <2>3, <3>1
  <2> QED BY <2>2, <2>3
<1>6. q = [p EXCEPT ![d + n - i] = p[s + n - i]]
  BY <1>1, <1>2, <1>3, <1>4, <1>5
<1> QED BY <1>6 DEF p, q

LEMMA CopiedDown ==
  ASSUME MemSize \in Nat, NEW m \in [String!Addr -> Chars],
         NEW d \in Nat, NEW s \in Nat, NEW n \in Nat,
         d + n <= MemSize, s + n <= MemSize, s <= d
  PROVE  String!CopyDown(m, d, s, n) = String!Moved(m, d, s, n)
<1> DEFINE closed == [i \in 0 .. n |-> TopMoved(m, d, s, n, i)]
           Is(f) == f = [i \in 0 .. n |->
                           IF i = 0 THEN m
                           ELSE [f[i - 1] EXCEPT ![d + n - i] = f[i - 1][s + n - i]]]
           g == CHOOSE f : Is(f)
<1>1. TopMoved(m, d, s, n, 0) = m /\ TopMoved(m, d, s, n, n) = String!Moved(m, d, s, n)
  <2>1. d + n - n = d /\ d + n - 0 .. d + n - 1 = {}
    OBVIOUS
  <2> QED BY <2>1 DEF TopMoved, String!Moved
<1>2. Is(closed)
  <2>1. \A i \in 0 .. n : i # 0 => i - 1 \in 0 .. n
    OBVIOUS
  <2> QED BY <1>1, <2>1, DownStep
<1>3. Is(g)
  BY <1>2
<1>4. String!CopyDown(m, d, s, n) = g[n]
  BY DEF String!CopyDown
<1> HIDE DEF g, closed
<1>5. 0 \in 0 .. n /\ \A i \in 1 .. n : i \in 0 .. n /\ i # 0
  OBVIOUS
<1>6. ASSUME NEW f, Is(f)
      PROVE  /\ f[0] = m
             /\ \A i \in 1 .. n :
                  f[i] = [f[i - 1] EXCEPT ![d + n - i] = f[i - 1][s + n - i]]
  BY <1>5, <1>6, Zenon
<1> HIDE DEF Is
<1>7. /\ g[0] = m /\ closed[0] = m
      /\ \A i \in 1 .. n :
           /\ g[i] = [g[i - 1] EXCEPT ![d + n - i] = g[i - 1][s + n - i]]
           /\ closed[i] = [closed[i - 1] EXCEPT ![d + n - i] = closed[i - 1][s + n - i]]
  BY <1>2, <1>3, <1>6, Zenon
<1>8. g[n] = closed[n]
  <2>1. ASSUME NEW i \in 1 .. n, g[i - 1] = closed[i - 1]
        PROVE  g[i] = closed[i]
    BY <1>7, <2>1, Zenon
  <2>2. g[0] = closed[0]
    BY <1>7
  <2> QED BY <2>1, <2>2, SameLoop, Zenon
<1> QED BY <1>1, <1>4, <1>8 DEF closed

-----------------------------------------------------------------------------

LEMMA StringMin ==
  ASSUME NEW S, S \subseteq Nat, S # {}
  PROVE  String!Min(S) \in S /\ \A y \in S : String!Min(S) <= y
BY LeastElement DEF String!Min

LEMMA StrLenFacts ==
  ASSUME MemSize \in Nat, NEW m \in [String!Addr -> Chars],
         NEW s \in Nat, String!Terminated(m, s)
  PROVE  /\ String!StrLen(m, s) \in Nat
         /\ s + String!StrLen(m, s) < MemSize
         /\ m[s + String!StrLen(m, s)] = 0
<1> DEFINE Z == {i \in 0 .. MemSize - 1 - s : m[s + i] = 0}
<1>1. Z \subseteq Nat /\ Z # {}
  <2>1. PICK i \in 0 .. MemSize - 1 - s : m[s + i] = 0
    BY DEF String!Terminated
  <2>2. i \in Z
    BY <2>1
  <2>3. Z \subseteq Nat
    OBVIOUS
  <2> HIDE DEF Z
  <2> QED BY <2>2, <2>3
<1>2. String!StrLen(m, s) \in Z
  BY <1>1, StringMin DEF String!StrLen
<1> QED BY <1>2

LEMMA StrNLenFacts ==
  ASSUME MemSize \in Nat, NEW m \in [String!Addr -> Chars], NEW s \in Nat, NEW n \in Nat,
         String!Terminated(m, s) \/ s + n <= MemSize
  PROVE  /\ String!StrNLen(m, s, n) \in 0 .. n
         /\ s + String!StrNLen(m, s, n) <= MemSize
         /\ \A i \in 0 .. String!StrNLen(m, s, n) - 1 : s + i \in String!Addr /\ m[s + i] # 0
         /\ String!StrNLen(m, s, n) < n => /\ s + String!StrNLen(m, s, n) \in String!Addr
                                    /\ m[s + String!StrNLen(m, s, n)] = 0
<1> DEFINE Z == {i \in 0 .. n - 1 : s + i \in String!Addr /\ m[s + i] = 0}
           T == {n} \cup Z
           count == String!StrNLen(m, s, n)
<1>1. T \subseteq Nat /\ T # {}
  OBVIOUS
<1>2. count = String!Min(T)
  BY DEF String!StrNLen
<1> HIDE DEF T
<1>3. count \in T /\ \A y \in T : count <= y
  BY <1>1, <1>2, StringMin
<1> HIDE DEF count
<1>4. count \in 0 .. n
  BY <1>1, <1>3 DEF T
<1>5. s + count <= MemSize
  <2>1. CASE s + n <= MemSize
    BY <1>4, <2>1
  <2>2. CASE String!Terminated(m, s) /\ ~ (s + n <= MemSize)
    <3>1. PICK t \in 0 .. MemSize - 1 - s : m[s + t] = 0
      BY <2>2 DEF String!Terminated
    <3>2. t \in Nat /\ s + t \in String!Addr /\ s + t < MemSize
      BY <3>1 DEF String!Addr
    <3>3. t \in 0 .. n - 1
      BY <2>2, <3>2
    <3>4. count <= t
      BY <1>3, <3>1, <3>2, <3>3 DEF T
    <3> QED BY <1>4, <3>2, <3>4
  <2> QED BY <2>1, <2>2
<1>6. ASSUME NEW i \in 0 .. count - 1
      PROVE  s + i \in String!Addr /\ m[s + i] # 0
  <2>1. s + i \in String!Addr
    BY <1>4, <1>5 DEF String!Addr
  <2>2. i \notin T /\ i \in 0 .. n - 1
    BY <1>3, <1>4
  <2> QED BY <2>1, <2>2 DEF T
<1>7. ASSUME count < n
      PROVE  s + count \in String!Addr /\ m[s + count] = 0
  BY <1>3, <1>4, <1>7 DEF T
<1> QED BY <1>4, <1>5, <1>6, <1>7 DEF count

(* A loop of n passes: pass i makes G[i][x] of the state x.                 *)
Runs(f, x, n, G, X) ==
  /\ f \in [0 .. n -> X]
  /\ f[0] = x
  /\ \A i \in 1 .. n : f[i] = G[i][f[i - 1]]

LEMMA OnePassMore ==
  ASSUME NEW X, NEW x \in X, NEW n \in Nat, NEW G \in [1 .. n -> [X -> X]],
         NEW k \in Nat, k + 1 <= n, NEW f, Runs(f, x, k, G, X)
  PROVE  \E g : Runs(g, x, k + 1, G, X)
<1> DEFINE y == G[k + 1][f[k]]
           g == [i \in 0 .. k + 1 |-> IF i <= k THEN f[i] ELSE y]
<1>1. f \in [0 .. k -> X] /\ f[0] = x /\ \A i \in 1 .. k : f[i] = G[i][f[i - 1]]
  BY DEF Runs
<1>2. y \in X
  <2>1. f[k] \in X /\ k + 1 \in 1 .. n
    BY <1>1
  <2> QED BY <2>1
<1> HIDE DEF y
<1>3. g \in [0 .. k + 1 -> X] /\ g[0] = x /\ g[k + 1] = y
  BY <1>1, <1>2
<1>4. \A i \in 0 .. k : g[i] = f[i]
  OBVIOUS
<1> HIDE DEF g
<1>5. ASSUME NEW i \in 1 .. k + 1 PROVE g[i] = G[i][g[i - 1]]
  <2>1. CASE i \in 1 .. k
    <3>1. i \in 0 .. k /\ i - 1 \in 0 .. k
      BY <2>1
    <3> QED BY <1>1, <1>4, <2>1, <3>1
  <2>2. CASE i = k + 1
    <3>1. i - 1 = k /\ k \in 0 .. k
      BY <2>2
    <3> QED BY <1>3, <1>4, <2>2, <3>1 DEF y
  <2> QED BY <2>1, <2>2
<1> QED BY <1>3, <1>5 DEF Runs

LEMMA Loop ==
  ASSUME NEW X, NEW x \in X, NEW n \in Nat, NEW G \in [1 .. n -> [X -> X]]
  PROVE  \E f : Runs(f, x, n, G, X)
<1> DEFINE S == {k \in Nat : k <= n => \E f : Runs(f, x, k, G, X)}
<1>1. 0 \in S
  <2>1. Runs([i \in 0 .. 0 |-> x], x, 0, G, X)
    BY DEF Runs
  <2> QED BY <2>1
<1>2. \A k \in Nat : k \in S => k + 1 \in S
  <2> SUFFICES ASSUME NEW k \in Nat, k \in S, k + 1 <= n
               PROVE  \E f : Runs(f, x, k + 1, G, X)
    OBVIOUS
  <2>1. PICK f : Runs(f, x, k, G, X)
    OBVIOUS
  <2> QED BY <2>1, OnePassMore
<1> HIDE DEF S
<1>3. n \in S
  BY <1>1, <1>2, Induction
<1> QED BY <1>3 DEF S

(* Both loops of strncpy() after k passes: len bytes moved, zeros then.     *)
PadMoved(m, d, s, count, k) ==
  [mem |-> [a \in String!Addr |->
              IF a \in d .. d + k - 1
                THEN IF a < d + count THEN m[s + a - d] ELSE 0
                ELSE m[a]],
   pad |-> k > count]

(* One pass of them.                                                        *)
PadPass(prev, d, s, i) ==
  LET pad == prev.pad \/ prev.mem[s + i - 1] = 0
  IN  [mem |-> [prev.mem EXCEPT ![d + i - 1] =
                  IF pad THEN 0 ELSE prev.mem[s + i - 1]],
       pad |-> pad]

(* The regions strncpy() accepts.                                           *)
PadApart(m, d, s, n) ==
  LET count == String!StrNLen(m, s, n)
  IN  /\ d + n <= MemSize
      /\ String!Terminated(m, s) \/ s + n <= MemSize
      /\ ~ (d = s + count /\ d # s /\ d < s + n)
      /\ ~ (n > 0 /\ ((s < d /\ d < s + count) \/ (d < s /\ s < d + n)))

LEMMA PadStep ==
  ASSUME MemSize \in Nat, NEW m \in [String!Addr -> Chars],
         NEW d \in Nat, NEW s \in Nat, NEW n \in Nat,
         PadApart(m, d, s, n), NEW i \in 1 .. n
  PROVE  LET count == String!StrNLen(m, s, n)
         IN  PadMoved(m, d, s, count, i) = PadPass(PadMoved(m, d, s, count, i - 1), d, s, i)
<1> DEFINE count == String!StrNLen(m, s, n)
           prev == PadMoved(m, d, s, count, i - 1)
           p == prev.mem
           q == PadMoved(m, d, s, count, i).mem
<1>1. /\ count \in 0 .. n
      /\ s + count <= MemSize
      /\ \A k \in 0 .. count - 1 : s + k \in String!Addr /\ m[s + k] # 0
      /\ count < n => s + count \in String!Addr /\ m[s + count] = 0
  BY StrNLenFacts DEF PadApart
<1>2. /\ d + n <= MemSize
      /\ ~ (d = s + count /\ d # s /\ d < s + n)
      /\ ~ (s < d /\ d < s + count)
      /\ ~ (d < s /\ s < d + n)
  BY DEF PadApart
<1> HIDE DEF count
<1>3. /\ p = [a \in String!Addr |-> p[a]]
      /\ \A a \in String!Addr :
           p[a] = IF a \in d .. d + i - 2
                    THEN IF a < d + count THEN m[s + a - d] ELSE 0
                    ELSE m[a]
      /\ prev.pad <=> i - 1 > count
  <2>1. d + (i - 1) - 1 = d + i - 2
    OBVIOUS
  <2> QED BY <2>1 DEF PadMoved
<1>4. /\ q = [a \in String!Addr |-> q[a]]
      /\ \A a \in String!Addr :
           q[a] = IF a \in d .. d + i - 1
                    THEN IF a < d + count THEN m[s + a - d] ELSE 0
                    ELSE m[a]
      /\ PadMoved(m, d, s, count, i) = [mem |-> q, pad |-> i > count]
  BY DEF PadMoved
<1> HIDE DEF p, q, prev
<1> DEFINE pad == prev.pad \/ p[s + i - 1] = 0
<1>5. d + i - 1 \in String!Addr
  BY <1>2 DEF String!Addr
<1>6. i - 1 <= count => p[s + i - 1] = m[s + i - 1]
  <2> SUFFICES ASSUME i - 1 <= count PROVE p[s + i - 1] = m[s + i - 1]
    OBVIOUS
  <2>1. s + i - 1 \in String!Addr
    <3>1. i - 1 \in 0 .. count - 1 \/ (i - 1 = count /\ count < n)
      BY <1>1
    <3>2. s + (i - 1) = s + i - 1
      OBVIOUS
    <3> QED BY <1>1, <3>1, <3>2
  <2>2. s + i - 1 \notin d .. d + i - 2
    BY <1>1, <1>2
  <2> QED BY <1>3, <2>1, <2>2
<1>7. pad <=> i > count
  <2>1. CASE i - 1 > count
    BY <1>1, <1>3, <2>1
  <2>2. CASE i - 1 = count
    <3>1. count < n /\ s + i - 1 = s + count
      BY <1>1, <2>2
    <3> QED BY <1>1, <1>6, <2>2, <3>1
  <2>3. CASE i - 1 < count
    <3>1. /\ i - 1 \in 0 .. count - 1 /\ s + (i - 1) = s + i - 1
          /\ ~ (i > count) /\ ~ (i - 1 > count)
          /\ i - 1 <= count
      BY <1>1, <2>3
    <3>2. m[s + i - 1] # 0
      BY <1>1, <3>1
    <3>3. p[s + i - 1] # 0
      BY <1>6, <3>1, <3>2
    <3>4. ~ prev.pad
      BY <1>3, <3>1
    <3> QED BY <3>1, <3>3, <3>4
  <2> QED BY <1>1, <2>1, <2>2, <2>3
<1> HIDE DEF pad
<1>8. ASSUME NEW a \in String!Addr
      PROVE  q[a] = IF a = d + i - 1 THEN IF pad THEN 0 ELSE p[s + i - 1] ELSE p[a]
  <2>1. a \in Int
    BY DEF String!Addr
  <2>2. CASE a = d + i - 1
    <3>1. a \in d .. d + i - 1 /\ s + a - d = s + i - 1 /\ (a < d + count <=> i <= count)
      BY <1>1, <2>2
    <3>2. q[a] = IF i <= count THEN m[s + i - 1] ELSE 0
      BY <1>4, <3>1
    <3>3. CASE i <= count
      <4>1. ~ pad /\ i - 1 <= count
        BY <1>1, <1>7, <3>3
      <4> QED BY <1>6, <2>2, <3>2, <3>3, <4>1
    <3>4. CASE ~ (i <= count)
      BY <1>1, <1>7, <2>2, <3>2, <3>4
    <3> QED BY <3>3, <3>4
  <2>3. CASE a # d + i - 1
    <3>1. a \in d .. d + i - 1 <=> a \in d .. d + i - 2
      BY <2>1, <2>3
    <3> QED BY <1>3, <1>4, <2>3, <3>1
  <2> QED BY <2>2, <2>3
<1>9. q = [p EXCEPT ![d + i - 1] = IF pad THEN 0 ELSE p[s + i - 1]]
  BY <1>3, <1>4, <1>5, <1>8
<1>10. PadPass(prev, d, s, i) = [mem |-> q, pad |-> pad]
  BY <1>9 DEF PadPass, pad, p
<1>11. pad = (i > count)
  BY <1>7 DEF pad
<1> QED BY <1>4, <1>10, <1>11 DEF count, prev

LEMMA CopiedPad ==
  ASSUME MemSize \in Nat, NEW m \in [String!Addr -> Chars],
         NEW d \in Nat, NEW s \in Nat, NEW n \in Nat,
         PadApart(m, d, s, n)
  PROVE  String!CopyPad(m, d, s, n) = PadMoved(m, d, s, String!StrNLen(m, s, n), n).mem
<1> DEFINE count == String!StrNLen(m, s, n)
           closed == [i \in 0 .. n |-> PadMoved(m, d, s, count, i)]
           start == [mem |-> m, pad |-> FALSE]
           Is(f) == f = [i \in 0 .. n |->
                           IF i = 0 THEN [mem |-> m, pad |-> FALSE]
                           ELSE LET prev == f[i - 1]
                                    pad == prev.pad \/ prev.mem[s + i - 1] = 0
                                IN  [mem |-> [prev.mem EXCEPT ![d + i - 1] =
                                                IF pad THEN 0 ELSE prev.mem[s + i - 1]],
                                     pad |-> pad]]
           IsP(f) == f = [i \in 0 .. n |->
                           IF i = 0 THEN start ELSE PadPass(f[i - 1], d, s, i)]
           g == CHOOSE f : Is(f)
<1>0. \A f : Is(f) <=> IsP(f)
  BY Zenon DEF PadPass
<1>1. PadMoved(m, d, s, count, 0) = start
  <2>1. count \in Nat
    BY StrNLenFacts DEF PadApart
  <2> HIDE DEF count
  <2>2. (0 > count) = FALSE /\ d .. d + 0 - 1 = {}
    BY <2>1
  <2>3. [a \in String!Addr |->
           IF a \in {} THEN IF a < d + count THEN m[s + a - d] ELSE 0 ELSE m[a]] = m
    OBVIOUS
  <2> QED BY <2>2, <2>3, Zenon DEF PadMoved
<1> HIDE DEF start
<1>2. IsP(closed)
  <2>1. \A i \in 0 .. n : i # 0 => i - 1 \in 0 .. n /\ i \in 1 .. n
    OBVIOUS
  <2>2. \A i \in 1 .. n :
          PadMoved(m, d, s, count, i) = PadPass(PadMoved(m, d, s, count, i - 1), d, s, i)
    BY PadStep
  <2> HIDE DEF count
  <2> QED BY <1>1, <2>1, <2>2
<1>3. String!CopyPad(m, d, s, n) = g[n].mem
  BY DEF String!CopyPad
<1> HIDE DEF closed, Is
<1>4. IsP(g)
  BY <1>0, <1>2, Zenon
<1> HIDE DEF g
<1>5. 0 \in 0 .. n /\ \A i \in 1 .. n : i \in 0 .. n /\ i # 0
  OBVIOUS
<1>6. ASSUME NEW f, IsP(f)
      PROVE  /\ f[0] = start
             /\ \A i \in 1 .. n : f[i] = PadPass(f[i - 1], d, s, i)
  BY <1>5, <1>6, Zenon
<1> HIDE DEF IsP
<1>7. /\ g[0] = start /\ closed[0] = start
      /\ \A i \in 1 .. n :
           /\ g[i] = PadPass(g[i - 1], d, s, i)
           /\ closed[i] = PadPass(closed[i - 1], d, s, i)
  BY <1>2, <1>4, <1>6, Zenon
<1>8. g[n] = closed[n]
  <2>1. ASSUME NEW i \in 1 .. n, g[i - 1] = closed[i - 1]
        PROVE  g[i] = closed[i]
    BY <1>7, <2>1, Zenon
  <2>2. g[0] = closed[0]
    BY <1>7
  <2> QED BY <2>1, <2>2, SameLoop, Zenon
<1> QED BY <1>3, <1>8 DEF closed

(* With the destination on the zero that ends src the first loop goes on    *)
(* behind it: the byte that should be the first zero is the first of src.   *)
LEMMA CopiedOver ==
  ASSUME MemSize \in Nat, NEW m \in [String!Addr -> Chars],
         NEW d \in Nat, NEW s \in Nat, NEW n \in Nat,
         d + n <= MemSize, String!Terminated(m, s) \/ s + n <= MemSize,
         String!OnTerminator(m, d, s, n)
  PROVE  String!CopyPad(m, d, s, n)[d + String!StrNLen(m, s, n)] # 0
<1> DEFINE count == String!StrNLen(m, s, n)
           X == [mem : [String!Addr -> Chars \cup {0}], pad : BOOLEAN]
           start == [mem |-> m, pad |-> FALSE]
           G == [i \in 1 .. n |-> [x \in X |-> PadPass(x, d, s, i)]]
           Is(f) == f = [i \in 0 .. n |->
                           IF i = 0 THEN [mem |-> m, pad |-> FALSE]
                           ELSE LET prev == f[i - 1]
                                    pad == prev.pad \/ prev.mem[s + i - 1] = 0
                                IN  [mem |-> [prev.mem EXCEPT ![d + i - 1] =
                                                IF pad THEN 0 ELSE prev.mem[s + i - 1]],
                                     pad |-> pad]]
           IsP(f) == f = [i \in 0 .. n |->
                           IF i = 0 THEN start ELSE PadPass(f[i - 1], d, s, i)]
           g == CHOOSE f : Is(f)
<1>1. /\ count \in 1 .. n - 1 /\ d = s + count
      /\ \A k \in 0 .. count - 1 : s + k \in String!Addr /\ m[s + k] # 0
  <2>1. d = s + count /\ d # s /\ d < s + n
    BY DEF String!OnTerminator
  <2>2. /\ count \in 0 .. n
        /\ \A k \in 0 .. count - 1 : s + k \in String!Addr /\ m[s + k] # 0
    BY StrNLenFacts
  <2> HIDE DEF count
  <2> QED BY <2>1, <2>2
<1>2. \A f : Is(f) <=> IsP(f)
  BY Zenon DEF PadPass
<1>3. String!CopyPad(m, d, s, n) = g[n].mem
  BY DEF String!CopyPad
<1> HIDE DEF count
<1>4. start \in X
  OBVIOUS
<1>5. \A x \in X, i \in 1 .. n : PadPass(x, d, s, i) \in X
  <2> SUFFICES ASSUME NEW x \in X, NEW i \in 1 .. n
               PROVE  PadPass(x, d, s, i) \in X
    OBVIOUS
  <2>1. s + i - 1 \in String!Addr
    BY <1>1 DEF String!Addr
  <2>2. x.mem[s + i - 1] \in Chars \cup {0} /\ x.pad \in BOOLEAN
    BY <2>1
  <2> QED BY <2>2 DEF PadPass
<1>6. G \in [1 .. n -> [X -> X]]
      /\ \A i \in 1 .. n, x \in X : G[i][x] = PadPass(x, d, s, i)
  BY <1>5
<1> HIDE DEF G, Is, start
<1>7. PICK p : Runs(p, start, n, G, X)
  <2> HIDE DEF X
  <2> QED BY <1>4, <1>6, Loop
<1>8. IsP(p)
  <2>1. /\ p \in [0 .. n -> X] /\ p[0] = start
        /\ \A i \in 1 .. n : p[i] = G[i][p[i - 1]]
    BY <1>7 DEF Runs
  <2> HIDE DEF X
  <2>2. ASSUME NEW i \in 0 .. n, i # 0
        PROVE  p[i] = PadPass(p[i - 1], d, s, i)
    <3>1. i \in 1 .. n /\ i - 1 \in 0 .. n
      BY <2>2
    <3>2. p[i - 1] \in X
      BY <2>1, <3>1
    <3>3. p[i] = G[i][p[i - 1]]
      BY <2>1, <3>1
    <3>4. G[i][p[i - 1]] = PadPass(p[i - 1], d, s, i)
      BY <1>6, <3>1, <3>2
    <3> QED BY <3>3, <3>4
  <2>3. \A i \in 0 .. n : p[i] = IF i = 0 THEN start ELSE PadPass(p[i - 1], d, s, i)
    BY <2>1, <2>2
  <2>4. p = [i \in 0 .. n |-> p[i]]
    BY <2>1
  <2> QED BY <2>3, <2>4, Zenon
<1>9. IsP(g)
  BY <1>2, <1>8, Zenon
<1> HIDE DEF g
<1>10. 0 \in 0 .. n /\ \A i \in 1 .. n : i \in 0 .. n /\ i # 0
  OBVIOUS
<1>11. /\ g[0] = start
       /\ \A i \in 1 .. n : g[i] = PadPass(g[i - 1], d, s, i)
  BY <1>9, <1>10, Zenon
<1> HIDE DEF IsP
<1> DEFINE First(x, i) == /\ i <= count + 1 => /\ ~ x.pad
                                               /\ \A k \in 0 .. count - 1 :
                                                    x.mem[s + k] = m[s + k]
                                               /\ i >= 1 => x.mem[d] = m[s]
                          /\ i >= count + 1 => x.mem[d + count] = m[s]
           S == {i \in Nat : i <= n => g[i] \in X /\ First(g[i], i)}
<1>12. 0 \in S
  <2>1. g[0] \in X /\ g[0].mem = m /\ ~ g[0].pad
    BY <1>4, <1>11 DEF start
  <2> HIDE DEF X
  <2>2. First(g[0], 0)
    BY <1>1, <2>1
  <2> QED BY <2>1, <2>2
<1>13. ASSUME NEW i \in Nat, i \in S PROVE i + 1 \in S
  <2> SUFFICES ASSUME i + 1 <= n
               PROVE  g[i + 1] \in X /\ First(g[i + 1], i + 1)
    OBVIOUS
  <2> DEFINE x == g[i]
             y == g[i + 1]
             pad == x.pad \/ x.mem[s + i] = 0
             c == IF pad THEN 0 ELSE x.mem[s + i]
  <2>1. i + 1 \in 1 .. n /\ (i + 1) - 1 = i /\ i <= n
        /\ s + (i + 1) - 1 = s + i /\ d + (i + 1) - 1 = d + i
    OBVIOUS
  <2>2. x \in X /\ First(x, i)
    BY <1>13, <2>1
  <2>3. y = PadPass(x, d, s, i + 1)
    BY <1>11, <2>1
  <2>4. y \in X
    BY <1>5, <2>1, <2>2, <2>3
  <2>5. y = [mem |-> [x.mem EXCEPT ![d + i] = c], pad |-> pad]
    BY <2>1, <2>3 DEF PadPass
  <2> HIDE DEF x, y, pad, c
  <2>6. y.pad = pad /\ y.mem = [x.mem EXCEPT ![d + i] = c]
    BY <2>5
  <2>7. d + i \in String!Addr /\ d + count \in String!Addr /\ d \in String!Addr
    BY <1>1 DEF String!Addr
  <2>8. /\ y.mem[d + i] = c
        /\ \A a \in String!Addr : a # d + i => y.mem[a] = x.mem[a]
    <3>1. x.mem \in [String!Addr -> Chars \cup {0}]
      BY <2>2
    <3> QED BY <2>6, <2>7, <3>1
  <2>9. CASE i > count
    <3>1. x.mem[d + count] = m[s] /\ d + count # d + i
      BY <1>1, <2>2, <2>9
    <3>2. y.mem[d + count] = m[s]
      BY <2>7, <2>8, <3>1
    <3> QED BY <1>1, <2>4, <2>9, <3>2 DEF y
  <2>10. CASE i <= count
    <3>1. /\ ~ x.pad /\ \A k \in 0 .. count - 1 : x.mem[s + k] = m[s + k]
          /\ i >= 1 => x.mem[d] = m[s]
      BY <1>1, <2>2, <2>10
    <3>2. x.mem[s + i] # 0 /\ (i = 0 \/ i = count => x.mem[s + i] = m[s])
      <4>1. CASE i < count
        <5>1. i \in 0 .. count - 1
          BY <1>1, <4>1
        <5>2. x.mem[s + i] = m[s + i] /\ m[s + i] # 0 /\ i # count
          BY <1>1, <3>1, <4>1, <5>1
        <5>3. s + 0 = s
          OBVIOUS
        <5> QED BY <5>2, <5>3
      <4>2. CASE i = count
        <5>1. s + i = d /\ i >= 1 /\ 0 \in 0 .. count - 1 /\ s + 0 = s
          BY <1>1, <4>2
        <5>2. m[s] # 0
          BY <1>1, <5>1
        <5> QED BY <3>1, <5>1, <5>2
      <4> QED BY <1>1, <2>10, <4>1, <4>2
    <3>3. ~ pad /\ c = x.mem[s + i]
      BY <3>1, <3>2 DEF pad, c
    <3>4. \A k \in 0 .. count - 1 : y.mem[s + k] = m[s + k]
      <4>1. \A k \in 0 .. count - 1 : s + k \in String!Addr /\ s + k # d + i
        BY <1>1
      <4> QED BY <2>8, <3>1, <4>1
    <3>5. y.mem[d] = m[s]
      <4>1. CASE i = 0
        BY <2>8, <3>2, <3>3, <4>1
      <4>2. CASE i # 0
        BY <2>7, <2>8, <3>1, <4>2
      <4> QED BY <4>1, <4>2
    <3>6. i = count => y.mem[d + count] = m[s]
      BY <2>8, <3>2, <3>3
    <3>7. i + 1 >= count + 1 => i = count
      BY <1>1, <2>10
    <3> QED BY <2>4, <2>6, <3>3, <3>4, <3>5, <3>6, <3>7 DEF y
  <2> QED BY <1>1, <2>9, <2>10
<1> HIDE DEF S
<1>14. n \in S
  BY <1>12, <1>13, Induction
<1>15. g[n].mem[d + count] = m[s]
  BY <1>1, <1>14 DEF S
<1>16. m[s] # 0
  <2>1. 0 \in 0 .. count - 1 /\ s + 0 = s
    BY <1>1
  <2> QED BY <1>1, <2>1
<1> QED BY <1>3, <1>15, <1>16 DEF count

-----------------------------------------------------------------------------
(* What one call promises of the memory it finds.                           *)

LEMMA Overlap ==
  ASSUME NEW a \in Int, NEW b \in Int, NEW k \in Int, a < b, b < a + k
  PROVE  /\ (a .. a + k - 1) \cap (b .. b + k - 1) # {}
         /\ (b .. b + k - 1) \cap (a .. a + k - 1) # {}
<1>1. b \in a .. a + k - 1 /\ b \in b .. b + k - 1
  OBVIOUS
<1> QED BY <1>1

MemoryFits == copyStatus = "ready" => mem \in [String!Addr -> Chars]

StringInv == MemoryFits /\ String!CopiesExactly

LEMMA CallFinished ==
  ASSUME NEW overlap \in BOOLEAN, NEW result, String!Finish(overlap, result),
         overlap => String!Overlapping', ~ overlap => result = String!Expected',
         ~ String!Overrun'
  PROVE  StringInv'
<1>1. CASE overlap
  BY <1>1 DEF String!Finish, StringInv, MemoryFits, String!CopiesExactly
<1>2. CASE ~ overlap
  BY <1>2 DEF String!Finish, StringInv, MemoryFits, String!CopiesExactly
<1> QED BY <1>1, <1>2

LEMMA MemcpyExact ==
  ASSUME MemSize \in Nat, mem \in [String!Addr -> Chars], String!Memcpy
  PROVE  StringInv'
<1>1. PICK d \in String!Addr, s \in String!Addr, n \in 0 .. MemSize, OVERLAP \in BOOLEAN :
        /\ d + n <= MemSize /\ s + n <= MemSize
        /\ String!Called("memcpy", d, s, n)
        /\ String!Finish(\/ s < d /\ d < s + n
                         \/ d < s /\ s < d + n /\ ~ OVERLAP,
                  String!CopyUp(mem, d, s, n))
  BY DEF String!Memcpy
<1> DEFINE overlap == \/ s < d /\ d < s + n
                      \/ d < s /\ s < d + n /\ ~ OVERLAP
<1>2. d \in Nat /\ s \in Nat /\ n \in Nat
  BY DEF String!Addr
<1>3. String!Expected' = String!Moved(mem, d, s, n)
  BY <1>1, Zenon DEF String!Called, String!Expected
<1>4. String!Overlapping'
        <=> (s .. s + n - 1) \cap (d .. d + n - 1) # {}
  BY <1>1 DEF String!Called, String!Overlapping
<1>5. overlap => String!Overlapping'
  BY <1>2, <1>4, Overlap
<1>6. ~ overlap => String!CopyUp(mem, d, s, n) = String!Expected'
  BY <1>1, <1>2, <1>3, CopiedUp
<1>7. overlap \in BOOLEAN /\ String!Finish(overlap, String!CopyUp(mem, d, s, n))
  BY <1>1
<1>8. ~ String!Overrun'
  BY <1>1 DEF String!Called, String!Overrun
<1> HIDE DEF overlap
<1> QED BY <1>5, <1>6, <1>7, <1>8, CallFinished, Zenon

LEMMA MemmoveExact ==
  ASSUME MemSize \in Nat, mem \in [String!Addr -> Chars], String!Memmove
  PROVE  StringInv'
<1>1. PICK d \in String!Addr, s \in String!Addr, n \in 0 .. MemSize :
        /\ d + n <= MemSize /\ s + n <= MemSize
        /\ String!Called("memmove", d, s, n)
        /\ String!Finish(FALSE, IF d < s THEN String!CopyUp(mem, d, s, n)
                                  ELSE String!CopyDown(mem, d, s, n))
  BY DEF String!Memmove
<1>2. d \in Nat /\ s \in Nat /\ n \in Nat
  BY DEF String!Addr
<1>3. String!Expected' = String!Moved(mem, d, s, n)
  BY <1>1, Zenon DEF String!Called, String!Expected
<1>4. (IF d < s THEN String!CopyUp(mem, d, s, n) ELSE String!CopyDown(mem, d, s, n))
        = String!Expected'
  <2>1. CASE d < s
    BY <1>1, <1>2, <1>3, <2>1, CopiedUp
  <2>2. CASE ~ (d < s)
    BY <1>1, <1>2, <1>3, <2>2, CopiedDown
  <2> QED BY <2>1, <2>2
<1>5. ~ String!Overrun'
  BY <1>1 DEF String!Called, String!Overrun
<1> QED BY <1>1, <1>4, <1>5, CallFinished, Zenon

LEMMA StrcpyExact ==
  ASSUME MemSize \in Nat, mem \in [String!Addr -> Chars], String!Strcpy
  PROVE  StringInv'
<1>1. PICK d \in String!Addr, s \in String!Addr :
        /\ String!Terminated(mem, s)
        /\ LET size == String!StrLen(mem, s) + 1
           IN  /\ d + size <= MemSize
               /\ String!Called("strcpy", d, s, 0)
               /\ String!Finish(s < d /\ d < s + size, String!CopyUp(mem, d, s, size))
  BY DEF String!Strcpy
<1> DEFINE size == String!StrLen(mem, s) + 1
           overlap == s < d /\ d < s + size
<1>2. d \in Nat /\ s \in Nat /\ size \in Nat /\ s + size <= MemSize
  <2>1. d \in Nat /\ s \in Nat
    BY DEF String!Addr
  <2> QED BY <1>1, <2>1, StrLenFacts
<1>3. String!Expected' = String!Moved(mem, d, s, size)
  BY <1>1, Zenon DEF String!Called, String!Expected
<1>4. String!Overlapping'
        <=> (s .. s + size - 1) \cap (d .. d + size - 1) # {}
  BY <1>1, Zenon DEF String!Called, String!Overlapping
<1>5. d + size <= MemSize /\ String!Finish(overlap, String!CopyUp(mem, d, s, size))
  BY <1>1
<1> HIDE DEF size
<1>6. overlap => String!Overlapping'
  BY <1>2, <1>4, Overlap
<1>7. ~ overlap => String!CopyUp(mem, d, s, size) = String!Expected'
  BY <1>2, <1>3, <1>5, CopiedUp
<1>8. overlap \in BOOLEAN
  OBVIOUS
<1>9. ~ String!Overrun'
  BY <1>1 DEF String!Called, String!Overrun
<1> HIDE DEF overlap
<1> QED BY <1>5, <1>6, <1>7, <1>8, <1>9, CallFinished, Zenon

LEMMA StrncpyExact ==
  ASSUME MemSize \in Nat, mem \in [String!Addr -> Chars], String!Strncpy
  PROVE  StringInv'
<1>1. PICK d \in String!Addr, s \in String!Addr, n \in 0 .. MemSize :
        /\ d + n <= MemSize
        /\ String!Terminated(mem, s) \/ s + n <= MemSize
        /\ String!Called("strncpy", d, s, n)
        /\ String!Finish(n > 0 /\ \/ s < d /\ d < s + String!StrNLen(mem, s, n)
                                  \/ d < s /\ s < d + n,
                  String!CopyPad(mem, d, s, n))
  BY DEF String!Strncpy
<1> DEFINE count == String!StrNLen(mem, s, n)
           overlap == n > 0 /\ \/ s < d /\ d < s + count
                               \/ d < s /\ s < d + n
<1>2. d \in Nat /\ s \in Nat /\ n \in Nat
  BY DEF String!Addr
<1>3. String!Expected' = [a \in String!Addr |-> IF a \in d + count .. d + n - 1 THEN 0
                                  ELSE String!Moved(mem, d, s, count)[a]]
  BY <1>1, Zenon DEF String!Called, String!Expected
<1>4. String!Overlapping'
        <=> (s .. s + n - 1) \cap (d .. d + n - 1) # {}
  BY <1>1, Zenon DEF String!Called, String!Overlapping
<1>5. String!Finish(overlap, String!CopyPad(mem, d, s, n)) /\ overlap \in BOOLEAN
  <2>1. String!Finish(overlap, String!CopyPad(mem, d, s, n))
    BY <1>1
  <2>2. overlap \in BOOLEAN
    OBVIOUS
  <2> QED BY <2>1, <2>2
<1>6. ~ overlap /\ ~ String!OnTerminator(mem, d, s, n) => PadApart(mem, d, s, n)
  BY <1>1 DEF PadApart, String!OnTerminator
<1>7. /\ count \in 0 .. n /\ s + count <= MemSize
  BY <1>1, <1>2, StrNLenFacts
<1>8. ~ overlap /\ ~ String!OnTerminator(mem, d, s, n) =>
        String!CopyPad(mem, d, s, n) = PadMoved(mem, d, s, count, n).mem
  BY <1>2, <1>6, CopiedPad
<1>11. String!Overrun' <=> String!OnTerminator(mem, d, s, n)
  BY <1>1, Zenon DEF String!Called, String!Overrun
<1>12. CASE String!OnTerminator(mem, d, s, n)
  <2>1. d = s + count /\ d # s /\ d < s + n
    BY <1>12 DEF String!OnTerminator
  <2>2. String!CopyPad(mem, d, s, n)[d + count] # 0
    BY <1>1, <1>2, <1>12, CopiedOver
  <2>3. ~ overlap
    <3> HIDE DEF count
    <3> QED BY <1>2, <1>7, <2>1
  <2>4. copyStatus' = "done" /\ mem' = String!CopyPad(mem, d, s, n)
    BY <1>5, <2>3 DEF String!Finish
  <2>5. d + count \in String!Addr /\ d + count \in d + count .. d + n - 1
    <3> HIDE DEF count
    <3> QED BY <1>1, <1>2, <1>7, <2>1 DEF String!Addr
  <2>6. String!Expected'[d + count] = 0
    <3> HIDE DEF count
    <3> QED BY <1>3, <2>5
  <2>7. mem' # String!Expected'
    BY <2>2, <2>4, <2>6
  <2> QED BY <1>11, <1>12, <2>4, <2>7 DEF StringInv, MemoryFits, String!CopiesExactly
<1> HIDE DEF count
<1>9. overlap => String!Overlapping'
  <2> SUFFICES ASSUME overlap PROVE String!Overlapping'
    OBVIOUS
  <2>1. (s < d /\ d < s + n) \/ (d < s /\ s < d + n)
    BY <1>2, <1>7
  <2> HIDE DEF overlap
  <2>2. CASE s < d /\ d < s + n
    BY <1>2, <1>4, <2>2, Overlap
  <2>3. CASE d < s /\ s < d + n
    BY <1>2, <1>4, <2>3, Overlap
  <2> QED BY <2>1, <2>2, <2>3
<1>10. PadMoved(mem, d, s, count, n).mem = String!Expected'
  <2>1. ASSUME NEW a \in String!Addr
        PROVE  (IF a \in d .. d + n - 1
                  THEN IF a < d + count THEN mem[s + a - d] ELSE 0
                  ELSE mem[a])
               = IF a \in d + count .. d + n - 1 THEN 0 ELSE String!Moved(mem, d, s, count)[a]
    <3>1. a \in Int /\ (d + count <= MemSize)
      BY <1>1, <1>2, <1>7 DEF String!Addr
    <3>2. String!Moved(mem, d, s, count)[a]
            = IF a \in d .. d + count - 1 THEN mem[s + a - d] ELSE mem[a]
      BY DEF String!Moved
    <3> QED BY <1>2, <1>7, <3>1, <3>2
  <2> QED BY <1>3, <2>1 DEF PadMoved
<1> HIDE DEF overlap
<1>13. CASE ~ String!OnTerminator(mem, d, s, n)
  BY <1>5, <1>8, <1>9, <1>10, <1>11, <1>13, CallFinished, Zenon
<1> QED BY <1>12, <1>13

LEMMA StrcatExact ==
  ASSUME MemSize \in Nat, mem \in [String!Addr -> Chars], String!Strcat
  PROVE  StringInv'
<1>1. PICK d \in String!Addr, s \in String!Addr :
        /\ String!Terminated(mem, d) /\ String!Terminated(mem, s)
        /\ LET end == d + String!StrLen(mem, d)
               size == String!StrLen(mem, s) + 1
           IN  /\ end + size <= MemSize
               /\ String!Called("strcat", d, s, 0)
               /\ String!Finish(s < end /\ end < s + size, String!CopyUp(mem, end, s, size))
  BY DEF String!Strcat
<1> DEFINE end == d + String!StrLen(mem, d)
           size == String!StrLen(mem, s) + 1
           overlap == s < end /\ end < s + size
<1>2. end \in Nat /\ s \in Nat /\ size \in Nat /\ s + size <= MemSize
  <2>1. d \in Nat /\ s \in Nat
    BY DEF String!Addr
  <2> QED BY <1>1, <2>1, StrLenFacts
<1>3. String!Expected' = String!Moved(mem, end, s, size)
  BY <1>1, Zenon DEF String!Called, String!Expected
<1>4. String!Overlapping'
        <=> (s .. s + size - 1) \cap (end .. end + size - 1) # {}
  BY <1>1, Zenon DEF String!Called, String!Overlapping
<1>5. end + size <= MemSize /\ String!Finish(overlap, String!CopyUp(mem, end, s, size))
  BY <1>1
<1>9. ~ String!Overrun'
  BY <1>1 DEF String!Called, String!Overrun
<1> HIDE DEF size, end
<1>6. overlap => String!Overlapping'
  BY <1>2, <1>4, Overlap
<1>7. ~ overlap => String!CopyUp(mem, end, s, size) = String!Expected'
  BY <1>2, <1>3, <1>5, CopiedUp
<1>8. overlap \in BOOLEAN
  OBVIOUS
<1> HIDE DEF overlap
<1> QED BY <1>5, <1>6, <1>7, <1>8, <1>9, CallFinished, Zenon

LEMMA StrncatExact ==
  ASSUME MemSize \in Nat, mem \in [String!Addr -> Chars], String!Strncat
  PROVE  StringInv'
<1>1. PICK d \in String!Addr, s \in String!Addr, n \in 0 .. MemSize :
        /\ String!Terminated(mem, d)
        /\ String!Terminated(mem, s) \/ s + n <= MemSize
        /\ LET end == d + String!StrLen(mem, d)
               count == String!StrNLen(mem, s, n)
           IN  /\ end + count < MemSize
               /\ String!Called("strncat", d, s, n)
               /\ IF n = 0
                    THEN String!Finish(FALSE, mem)
                    ELSE String!Finish(s < end /\ end < s + count + 1,
                                [String!CopyUp(mem, end, s, count) EXCEPT ![end + count] = 0])
  BY DEF String!Strncat
<1> DEFINE end == d + String!StrLen(mem, d)
           count == String!StrNLen(mem, s, n)
           overlap == s < end /\ end < s + count + 1
           result == [String!CopyUp(mem, end, s, count) EXCEPT ![end + count] = 0]
<1>2. end \in Nat /\ s \in Nat /\ count \in Nat /\ s + count <= MemSize
  <2>1. d \in Nat /\ s \in Nat /\ n \in Nat
    BY DEF String!Addr
  <2>2. String!StrLen(mem, d) \in Nat
    BY <1>1, <2>1, StrLenFacts
  <2>3. count \in 0 .. n /\ s + count <= MemSize
    BY <1>1, <2>1, StrNLenFacts
  <2> QED BY <2>1, <2>2, <2>3
<1>3. String!Expected' = IF n = 0 THEN mem
                    ELSE [String!Moved(mem, end, s, count) EXCEPT ![end + count] = 0]
  BY <1>1, Zenon DEF String!Called, String!Expected
<1>4. String!Overlapping'
        <=> (s .. s + (count + 1) - 1) \cap (end .. end + (count + 1) - 1) # {}
  BY <1>1, Zenon DEF String!Called, String!Overlapping
<1>5. /\ end + count < MemSize
      /\ n = 0 => String!Finish(FALSE, mem)
      /\ n # 0 => String!Finish(overlap, result)
  BY <1>1
<1>8. ~ String!Overrun'
  BY <1>1 DEF String!Called, String!Overrun
<1>6. CASE n = 0
  BY <1>3, <1>5, <1>6, <1>8, CallFinished, Zenon
<1>7. CASE n # 0
  <2> HIDE DEF count, end
  <2>1. overlap => String!Overlapping'
    <3>1. /\ count + 1 \in Int /\ end + (count + 1) = end + count + 1
          /\ s + (count + 1) = s + count + 1
      BY <1>2
    <3>2. overlap => s < end /\ end < s + (count + 1)
      BY <3>1
    <3> DEFINE k == count + 1
    <3>3. /\ k \in Int /\ (overlap => s < end /\ end < s + k)
          /\ String!Overlapping' <=> (s .. s + k - 1) \cap (end .. end + k - 1) # {}
      BY <1>4, <3>1, <3>2
    <3> HIDE DEF overlap, result, k
    <3> QED BY <1>2, <3>3, Overlap
  <2>2. ~ overlap => String!CopyUp(mem, end, s, count) = String!Moved(mem, end, s, count)
    BY <1>2, <1>5, CopiedUp
  <2>3. ~ overlap => result = String!Expected'
    BY <1>3, <1>7, <2>2, Zenon
  <2>4. overlap \in BOOLEAN
    OBVIOUS
  <2> HIDE DEF overlap, result
  <2> QED BY <1>5, <1>7, <1>8, <2>1, <2>3, <2>4, CallFinished, Zenon
<1> QED BY <1>6, <1>7

LEMMA StringStep ==
  ASSUME MemSize \in Nat, StringInv, [String!Next]_(String!vars)
  PROVE  StringInv'
<1>1. CASE UNCHANGED String!vars
  BY <1>1 DEF String!vars, StringInv, MemoryFits, String!CopiesExactly, String!Expected,
              String!Overlapping, String!Overrun
<1>2. CASE String!Next
  <2>1. mem \in [String!Addr -> Chars]
    BY <1>2 DEF String!Next, StringInv, MemoryFits
  <2> QED BY <1>2, <2>1, MemcpyExact, MemmoveExact, StrcpyExact, StrncpyExact,
       StrcatExact, StrncatExact DEF String!Next
<1> QED BY <1>1, <1>2

LEMMA StringRuns == Spec => String!Spec
<1>1. Init => String!Init
  BY DEF Init
<1>2. [Next]_all => [String!Next]_(String!vars)
  <2>1. ASSUME UNCHANGED stringVars PROVE UNCHANGED String!vars
    BY <2>1 DEF stringVars, String!vars
  <2> QED BY <2>1, OneRuns
<1> QED BY <1>1, <1>2, Parted, PTL DEF String!Spec

(* memcpy() to strncat() leave exactly the memory C asks for, byte by byte, *)
(* or abort on regions that do overlap, whatever the memory, the regions    *)
(* and their sizes.  Exactly one call is wrong, and always: strncpy() to    *)
(* the terminating zero of its source.                                      *)
THEOREM PartCopiesExactly ==
  ASSUME MemSize \in Nat
  PROVE  Spec => []CopiesExactly
<1>1. String!Init => StringInv
  BY DEF String!Init, StringInv, MemoryFits, String!CopiesExactly
<1>2. StringInv /\ [String!Next]_(String!vars) => StringInv'
  BY StringStep
<1>3. StringInv => String!CopiesExactly
  BY DEF StringInv
<1> QED BY <1>1, <1>2, <1>3, StringRuns, PTL DEF String!Spec, CopiesExactly

-----------------------------------------------------------------------------
(* A sum over a sequence, as a loop.                                        *)
Sums(f, x, n) ==
  /\ f \in [0 .. n -> Nat]
  /\ f[0] = 0
  /\ \A i \in 1 .. n : f[i] = f[i - 1] + x[i]

LEMMA SumExists ==
  ASSUME NEW n \in Nat, NEW x \in [1 .. n -> Nat]
  PROVE  \E f : Sums(f, x, n)
<1> DEFINE G == [i \in 1 .. n |-> [sum \in Nat |-> sum + x[i]]]
<1>1. G \in [1 .. n -> [Nat -> Nat]]
  OBVIOUS
<1>2. \A i \in 1 .. n, sum \in Nat : G[i][sum] = sum + x[i]
  OBVIOUS
<1> HIDE DEF G
<1>3. PICK f : Runs(f, 0, n, G, Nat)
  <2>1. 0 \in Nat
    OBVIOUS
  <2> QED BY <1>1, <2>1, Loop
<1>4. /\ f \in [0 .. n -> Nat] /\ f[0] = 0
      /\ \A i \in 1 .. n : f[i] = G[i][f[i - 1]]
  BY <1>3 DEF Runs
<1>5. ASSUME NEW i \in 1 .. n PROVE f[i] = f[i - 1] + x[i]
  <2>1. i - 1 \in 0 .. n
    OBVIOUS
  <2> QED BY <1>2, <1>4, <2>1
<1> QED BY <1>4, <1>5 DEF Sums

Sized == [of : Nat, size : Nat]

LEMMA SizeOfSum ==
  ASSUME NEW lines \in Seq(Sized)
  PROVE  \E f : /\ Sums(f, [i \in 1 .. Len(lines) |-> lines[i].size], Len(lines))
                /\ Trace!SizeOf(lines) = f[Len(lines)]
<1> DEFINE n == Len(lines)
           x == [i \in 1 .. n |-> lines[i].size]
           Is(f) == f = [i \in 0 .. n |-> IF i = 0 THEN 0 ELSE f[i - 1] + lines[i].size]
           g == CHOOSE f : Is(f)
<1>1. n \in Nat /\ x \in [1 .. n -> Nat]
  <2>1. n \in Nat /\ \A i \in 1 .. n : lines[i] \in Sized
    OBVIOUS
  <2> QED BY <2>1 DEF Sized
<1>2. PICK sums : Sums(sums, x, n)
  <2> HIDE DEF n, x
  <2> QED BY <1>1, SumExists
<1>3. \A i \in 1 .. n : x[i] = lines[i].size
  OBVIOUS
<1>4. Trace!SizeOf(lines) = g[n]
  BY DEF Trace!SizeOf
<1> HIDE DEF n, x, g
<1>5. Is(sums)
  <2>1. sums = [i \in 0 .. n |-> sums[i]]
    BY <1>2 DEF Sums
  <2>2. ASSUME NEW i \in 0 .. n
        PROVE  sums[i] = IF i = 0 THEN 0 ELSE sums[i - 1] + lines[i].size
    <3>1. i = 0 \/ (i \in 1 .. n /\ i # 0)
      BY <1>1
    <3> QED BY <1>2, <1>3, <3>1, Zenon DEF Sums
  <2> QED BY <2>1, <2>2, Zenon
<1>6. Is(g)
  BY <1>5 DEF g
<1>7. g = sums
  <2>1. ASSUME NEW k \in Nat, k <= n PROVE g[k] = sums[k]
    <3>1. g[0] = sums[0]
      BY <1>1, <1>5, <1>6
    <3>2. ASSUME NEW i \in 1 .. k, g[i - 1] = sums[i - 1]
          PROVE  g[i] = sums[i]
      <4>1. i \in 0 .. n /\ i # 0
        BY <1>1, <2>1
      <4>2. g[i] = g[i - 1] + lines[i].size
        BY <1>6, <4>1, Zenon
      <4>3. sums[i] = sums[i - 1] + lines[i].size
        BY <1>5, <4>1, Zenon
      <4> QED BY <3>2, <4>2, <4>3
    <3> HIDE DEF Is
    <3> QED BY <2>1, <3>1, <3>2, SameLoop, Zenon
  <2>2. g = [i \in 0 .. n |-> g[i]] /\ sums = [i \in 0 .. n |-> sums[i]]
    BY <1>5, <1>6
  <2>3. \A i \in 0 .. n : g[i] = sums[i]
    BY <1>1, <2>1
  <2> QED BY <2>2, <2>3
<1> QED BY <1>2, <1>4, <1>7 DEF n, x

LEMMA SizeOfFacts ==
  /\ Trace!SizeOf(<<>>) = 0
  /\ \A lines \in Seq(Sized), l \in Sized :
       /\ Trace!SizeOf(lines) \in Nat
       /\ Trace!SizeOf(Append(lines, l)) = Trace!SizeOf(lines) + l.size
<1>1. Trace!SizeOf(<<>>) = 0
  <2>1. <<>> \in Seq(Sized) /\ Len(<<>>) = 0
    OBVIOUS
  <2>2. PICK f : /\ Sums(f, [i \in 1 .. 0 |-> <<>>[i].size], 0)
                 /\ Trace!SizeOf(<<>>) = f[0]
    BY <2>1, SizeOfSum
  <2> QED BY <2>2 DEF Sums
<1>2. ASSUME NEW lines \in Seq(Sized), NEW l \in Sized
      PROVE  /\ Trace!SizeOf(lines) \in Nat
             /\ Trace!SizeOf(Append(lines, l)) = Trace!SizeOf(lines) + l.size
  <2> DEFINE n == Len(lines)
             more == Append(lines, l)
             x == [i \in 1 .. n |-> lines[i].size]
             y == [i \in 1 .. n + 1 |-> more[i].size]
  <2>1. n \in Nat /\ more \in Seq(Sized) /\ Len(more) = n + 1
    OBVIOUS
  <2>2. (\A i \in 1 .. n : y[i] = x[i]) /\ y[n + 1] = l.size /\ l.size \in Nat
    BY DEF Sized
  <2>3. PICK f : Sums(f, x, n) /\ Trace!SizeOf(lines) = f[n]
    BY SizeOfSum
  <2>4. PICK g : Sums(g, y, n + 1) /\ Trace!SizeOf(more) = g[n + 1]
    <3> HIDE DEF more, n
    <3>1. \E g : Sums(g, [i \in 1 .. Len(more) |-> more[i].size], Len(more))
                 /\ Trace!SizeOf(more) = g[Len(more)]
      BY <2>1, SizeOfSum
    <3> QED BY <2>1, <3>1
  <2> HIDE DEF n, more, x, y
  <2>5. f[n] = g[n]
    <3>1. f[0] = g[0]
      BY <2>3, <2>4 DEF Sums
    <3>2. ASSUME NEW i \in 1 .. n, f[i - 1] = g[i - 1] PROVE f[i] = g[i]
      <4>1. i \in 1 .. n + 1
        BY <2>1
      <4>2. f[i] = f[i - 1] + x[i]
        BY <2>3, Zenon DEF Sums
      <4>3. g[i] = g[i - 1] + y[i]
        BY <2>4, <4>1, Zenon DEF Sums
      <4> QED BY <2>2, <3>2, <4>2, <4>3
    <3> QED BY <2>1, <3>1, <3>2, SameLoop, Zenon
  <2>6. f[n] \in Nat
    BY <2>1, <2>3 DEF Sums
  <2>7. g[n + 1] = g[n] + y[n + 1]
    <3>1. n + 1 \in 1 .. n + 1 /\ (n + 1) - 1 = n
      BY <2>1
    <3> QED BY <2>4, <3>1 DEF Sums
  <2> QED BY <2>2, <2>3, <2>4, <2>5, <2>6, <2>7 DEF more
<1> QED BY <1>1, <1>2

-----------------------------------------------------------------------------
FileLines == UNION {{f[i] : i \in 1 .. Len(f)} : f \in MapFiles}

BadLine == [kind |-> "bad", rvabase |-> 0, internal |-> FALSE, length |-> 0]

EntryLines ==
  {l \in FileLines \cup {BadLine} :
     /\ l.kind = "entry" \/ l = BadLine
     /\ l.rvabase \in Nat /\ l.length \in Nat /\ l.internal \in BOOLEAN}

TraceInputs ==
  /\ MapFiles \subseteq Seq(FileLines)
  /\ \A l \in FileLines : l.kind = "entry" => l \in EntryLines
  /\ Stacks \subseteq Seq(Nat)
  /\ BufferSizes \subseteq Nat \ {0}
  /\ MinBuffer \in Nat /\ ErrorSize \in Nat /\ ErrorSize < MinBuffer

Callers == [addr : Nat, entry : EntryLines]

Parsing == {"open", "name", "scan", "head", "entries", "sort", "report"}

Named(j) == callers[Len(callers) - j + 1].entry.internal

(* Every caller that is through is internal or printed.                     *)
Covered(j, n) == Named(j) \/ \E k \in 1 .. n : output[k].of = j

TraceType ==
  /\ mapFile \in Seq(FileLines) /\ stack \in Seq(Nat) /\ bufferSize \in Nat \ {0}
  /\ line \in Nat \ {0} /\ level \in Nat
  /\ entries \in Seq(EntryLines)
  /\ callers \in Seq(Callers)
  /\ output \in Seq(Sized) /\ needed \in Nat /\ printed \in 0 .. Len(callers)

TraceOrder ==
  /\ phase \in Parsing => callers = <<>>
  /\ phase \in Parsing \cup {"collect"} => /\ needed = 0 /\ output = <<>>
                                          /\ printed = 0

PrintSound ==
  /\ Trace!TraceSize < bufferSize
  /\ needed < bufferSize =>
       /\ Trace!TraceSize = needed
       /\ \A j \in 1 .. printed : Covered(j, Len(output))
  /\ \A i \in 1 .. Len(output) :
       /\ output[i].of \in 1 .. printed
       /\ \A j \in 1 .. output[i].of : Covered(j, i)

TraceInv == TraceType /\ TraceOrder /\ Trace!CallersNamed /\ PrintSound

LEMMA TraceInit ==
  ASSUME TraceInputs, Trace!Init
  PROVE  TraceInv
<1>1. TraceType
  BY DEF TraceInputs, Trace!Init, TraceType
<1>2. TraceOrder
  BY DEF Trace!Init, TraceOrder
<1>3. Trace!CallersNamed
  BY DEF Trace!Init, Trace!CallersNamed
<1>4. PrintSound
  BY <1>1, SizeOfFacts DEF Trace!Init, PrintSound, Trace!TraceSize, TraceType
<1> QED BY <1>1, <1>2, <1>3, <1>4 DEF TraceInv

(* Nothing is traced while the map file is read.                            *)
LEMMA Untraced ==
  ASSUME TraceInv, phase \in Parsing,
         UNCHANGED <<Trace!inputs, level, callers, needed, output, printed>>
  PROVE  /\ TraceOrder' /\ Trace!CallersNamed' /\ PrintSound'
<1>1. callers' = <<>> /\ needed' = 0 /\ output' = <<>> /\ printed' = 0
  BY DEF TraceInv, TraceOrder
<1>2. TraceOrder' /\ Trace!CallersNamed'
  BY <1>1 DEF TraceOrder, Trace!CallersNamed
<1>3. bufferSize' \in Nat \ {0}
  BY DEF TraceInv, TraceType, Trace!inputs
<1>4. PrintSound'
  BY <1>1, <1>3, SizeOfFacts DEF PrintSound, Trace!TraceSize
<1> QED BY <1>2, <1>4

LEMMA ParserSteps ==
  ASSUME TraceInputs, TraceInv,
         \/ Trace!Open \/ Trace!ReadName \/ Trace!Scan \/ Trace!SkipBlank
         \/ Trace!ReadEntry \/ Trace!ReadBadEntry \/ Trace!SkipTable
         \/ Trace!EndOfFile \/ Trace!Sort \/ Trace!ReportError
  PROVE  TraceInv'
<1>1. /\ phase \in Parsing
      /\ UNCHANGED <<Trace!inputs, level, callers, needed, output, printed>>
  BY DEF Parsing, Trace!tracer, Trace!Open, Trace!ReadName, Trace!ReportError,
         Trace!Scan, Trace!SkipBlank, Trace!ReadEntry, Trace!ReadBadEntry,
         Trace!SkipTable, Trace!EndOfFile, Trace!Sort
<1>2. TraceOrder' /\ Trace!CallersNamed' /\ PrintSound'
  BY <1>1, Untraced
<1>3. line' \in Nat \ {0}
  BY DEF TraceInv, TraceType, Trace!Open, Trace!ReadName, Trace!ReportError,
         Trace!Scan, Trace!SkipBlank, Trace!ReadEntry, Trace!ReadBadEntry,
         Trace!SkipTable, Trace!EndOfFile, Trace!Sort, Trace!parser
<1>4. entries' \in Seq(EntryLines)
  <2>1. CASE \/ Trace!Open \/ Trace!ReadName \/ Trace!ReportError
             \/ Trace!Scan \/ Trace!SkipBlank \/ Trace!SkipTable \/ Trace!EndOfFile
    BY <2>1 DEF TraceInv, TraceType, Trace!Open, Trace!ReadName, Trace!ReportError,
                  Trace!Scan, Trace!SkipBlank, Trace!SkipTable,
                  Trace!EndOfFile, Trace!parser
  <2>2. CASE Trace!ReadEntry
    <3>1. line \in 1 .. Len(mapFile) /\ mapFile[line].kind = "entry"
      BY <2>2 DEF Trace!ReadEntry, Trace!This, Trace!AtEnd, TraceInv, TraceType
    <3>2. mapFile[line] \in FileLines
      BY <3>1 DEF TraceInv, TraceType
    <3>3. mapFile[line] \in EntryLines
      BY <3>1, <3>2 DEF TraceInputs
    <3> QED BY <2>2, <3>3 DEF Trace!ReadEntry, TraceInv, TraceType
  <2>3. CASE Trace!ReadBadEntry
    <3>1. BadLine \in EntryLines
      BY DEF EntryLines, BadLine
    <3> QED BY <2>3, <3>1 DEF Trace!ReadBadEntry, TraceInv, TraceType, BadLine
  <2>4. CASE Trace!Sort
    <3>1. PICK order \in Trace!Bijection(DOMAIN entries, DOMAIN entries) :
            entries' = [i \in 1 .. Len(entries) |-> entries[order[i]]]
      BY <2>4 DEF Trace!Sort
    <3>2. entries \in Seq(EntryLines) /\ DOMAIN entries = 1 .. Len(entries)
      BY DEF TraceInv, TraceType
    <3>3. order \in [1 .. Len(entries) -> 1 .. Len(entries)]
      BY <3>2 DEF Trace!Bijection, Trace!Injection
    <3> QED BY <3>1, <3>2, <3>3
  <2> QED BY <2>1, <2>2, <2>3, <2>4
<1>5. TraceType'
  BY <1>1, <1>3, <1>4 DEF TraceInv, TraceType, Trace!inputs
<1> QED BY <1>2, <1>5 DEF TraceInv

LEMMA TraceMax ==
  ASSUME NEW n \in Nat, NEW S, S \subseteq 1 .. n, S # {}
  PROVE  Trace!Max(S) \in S /\ \A y \in S : y <= Trace!Max(S)
<1> DEFINE T == {n - x : x \in S}
<1>1. T \subseteq Nat /\ T # {}
  <2>1. ASSUME NEW x \in S PROVE n - x \in Nat
    OBVIOUS
  <2>2. PICK x \in S : TRUE
    OBVIOUS
  <2>3. n - x \in T
    OBVIOUS
  <2> QED BY <2>1, <2>3
<1>2. PICK t \in T : \A y \in T : t <= y
  <2> HIDE DEF T
  <2> QED BY <1>1, LeastElement
<1>3. PICK x \in S : t = n - x
  OBVIOUS
<1>4. \A y \in S : x >= y
  <2> SUFFICES ASSUME NEW y \in S PROVE x >= y
    OBVIOUS
  <2>1. n - y \in T
    OBVIOUS
  <2>2. n - x <= n - y
    BY <1>2, <1>3, <2>1
  <2>3. x \in Int /\ y \in Int
    OBVIOUS
  <2> HIDE DEF T
  <2> QED BY <2>2, <2>3
<1>5. Trace!Max(S) \in S /\ \A y \in S : Trace!Max(S) >= y
  BY <1>4 DEF Trace!Max
<1>6. \A y \in S : y \in Int
  OBVIOUS
<1> QED BY <1>5, <1>6

LEMMA AscendingFar ==
  ASSUME entries \in Seq(EntryLines), Trace!Ascending,
         NEW i \in 1 .. Len(entries), NEW j \in 1 .. Len(entries), i <= j
  PROVE  entries[i].rvabase <= entries[j].rvabase
<1> DEFINE S == {k \in Nat : i + k <= Len(entries) =>
                               entries[i].rvabase <= entries[i + k].rvabase}
<1>1. \A k \in 1 .. Len(entries) : entries[k].rvabase \in Nat
  <2>1. \A k \in 1 .. Len(entries) : entries[k] \in EntryLines
    OBVIOUS
  <2> QED BY <2>1 DEF EntryLines
<1>2. 0 \in S
  BY <1>1
<1>3. ASSUME NEW k \in Nat, k \in S PROVE k + 1 \in S
  <2> SUFFICES ASSUME i + (k + 1) <= Len(entries)
               PROVE  entries[i].rvabase <= entries[i + (k + 1)].rvabase
    OBVIOUS
  <2>1. i + k \in 1 .. Len(entries) - 1 /\ i + k \in 1 .. Len(entries)
        /\ i + (k + 1) \in 1 .. Len(entries) /\ i + (k + 1) = (i + k) + 1
    OBVIOUS
  <2>2. entries[i].rvabase <= entries[i + k].rvabase
    BY <1>3, <2>1
  <2>3. entries[i + k].rvabase <= entries[i + (k + 1)].rvabase
    BY <2>1 DEF Trace!Ascending
  <2>4. /\ entries[i].rvabase \in Nat /\ entries[i + k].rvabase \in Nat
        /\ entries[i + (k + 1)].rvabase \in Nat
    BY <1>1, <2>1
  <2> QED BY <2>2, <2>3, <2>4
<1> HIDE DEF S
<1>4. j - i \in S
  <2>1. j - i \in Nat
    OBVIOUS
  <2> QED BY <1>2, <1>3, <2>1, Induction
<1>5. i + (j - i) = j
  OBVIOUS
<1> QED BY <1>4, <1>5 DEF S

(* findEntry() returns 0 or the last entry that is not above the address.   *)
LEMMA EntryFound ==
  ASSUME entries \in Seq(EntryLines), NEW addr, Trace!FindEntry(addr) # 0
  PROVE  /\ Trace!FindEntry(addr) \in 1 .. Len(entries)
         /\ entries[Trace!FindEntry(addr)].rvabase <= addr
         /\ \A j \in 1 .. Len(entries) :
              entries[j].rvabase <= addr => j <= Trace!FindEntry(addr)
<1> DEFINE below == {i \in 1 .. Len(entries) : entries[i].rvabase <= addr}
<1>1. below # {} /\ Trace!FindEntry(addr) = Trace!Max(below)
  BY Zenon DEF Trace!FindEntry
<1>2. below \subseteq 1 .. Len(entries) /\ Len(entries) \in Nat
  OBVIOUS
<1>3. Trace!Max(below) \in below /\ \A y \in below : y <= Trace!Max(below)
  <2> HIDE DEF below
  <2> QED BY <1>1, <1>2, TraceMax
<1> QED BY <1>1, <1>3

LEMMA CollectStep ==
  ASSUME TraceInv, Trace!CollectCaller
  PROVE  TraceInv'
<1> DEFINE addr == Trace!Caller(level)
           entry == Trace!FindEntry(addr)
<1>1. /\ phase = "collect" /\ UNCHANGED <<Trace!inputs, Trace!parser, needed, output, printed>>
      /\ UNCHANGED <<entries, bufferSize>>
  BY DEF Trace!CollectCaller, Trace!inputs, Trace!parser
<1>2. needed = 0 /\ output = <<>> /\ printed = 0
  BY <1>1 DEF TraceInv, TraceOrder
<1>3. PrintSound'
  BY <1>1, <1>2, SizeOfFacts DEF TraceInv, TraceType, PrintSound, Trace!TraceSize
<1>4. CASE entries = <<>> /\ addr # 0
  <2>1. phase' = "crashed" /\ UNCHANGED <<level, callers>>
    BY <1>4 DEF Trace!CollectCaller
  <2>2. TraceType' /\ TraceOrder'
    BY <1>1, <1>2, <2>1 DEF TraceInv, TraceType, TraceOrder, Parsing, Trace!inputs, Trace!parser
  <2>3. Trace!CallersNamed'
    BY <1>1, <2>1 DEF TraceInv, Trace!CallersNamed, Trace!Nearest, Trace!Ascending, Trace!parser
  <2> QED BY <1>3, <2>2, <2>3 DEF TraceInv
<1>5. CASE ~ (entries = <<>> /\ addr # 0)
  <2>1. /\ callers' = IF addr = 0 \/ entry = 0 THEN callers
                      ELSE Append(callers, [addr |-> addr, entry |-> entries[entry]])
        /\ level' = level + 1
        /\ phase' \in {"print", "collect"}
    BY <1>5 DEF Trace!CollectCaller
  <2>2. addr \in Nat
    BY DEF Trace!Caller, TraceInv, TraceType
  <2> DEFINE new == [addr |-> addr, entry |-> entries[entry]]
  <2>3. entries \in Seq(EntryLines) /\ callers \in Seq(Callers)
    BY DEF TraceInv, TraceType
  <2> HIDE DEF addr, entry
  <2>4. entry # 0 => /\ entry \in 1 .. Len(entries)
                     /\ entries[entry] \in EntryLines
                     /\ entries[entry].rvabase <= addr
                     /\ \A j \in 1 .. Len(entries) : entries[j].rvabase <= addr => j <= entry
    BY <2>3, EntryFound DEF entry
  <2>5. entry # 0 => new \in Callers
    BY <2>2, <2>4 DEF Callers
  <2>6. callers' \in Seq(Callers) /\ Len(callers') \in Nat
    <3>1. callers' = callers \/ (entry # 0 /\ callers' = Append(callers, new))
      BY <2>1
    <3> HIDE DEF new
    <3> QED BY <2>3, <2>5, <3>1
  <2>7. TraceType'
    BY <1>1, <1>2, <2>1, <2>6 DEF TraceInv, TraceType, Trace!inputs, Trace!parser
  <2>8. TraceOrder'
    BY <1>1, <1>2, <2>1 DEF TraceOrder, Parsing
  <2>9. Trace!CallersNamed'
    <3> DEFINE Good(c) == /\ c.entry.rvabase <= c.addr
                          /\ Trace!Ascending => \A j \in 1 .. Len(entries) :
                               entries[j].rvabase <= c.addr
                                 => entries[j].rvabase <= c.entry.rvabase
    <3>1. \A i \in 1 .. Len(callers) : Good(callers[i])
      BY DEF TraceInv, Trace!CallersNamed, Trace!Nearest
    <3>2. entry # 0 => Good(new)
      <4> SUFFICES ASSUME entry # 0 PROVE Good(new)
        OBVIOUS
      <4>1. new.entry = entries[entry] /\ new.addr = addr
        OBVIOUS
      <4>2. ASSUME Trace!Ascending, NEW j \in 1 .. Len(entries), entries[j].rvabase <= addr
            PROVE  entries[j].rvabase <= entries[entry].rvabase
        BY <2>3, <2>4, <4>2, AscendingFar
      <4> HIDE DEF new
      <4> QED BY <2>4, <4>1, <4>2
    <3> HIDE DEF Good
    <3>3. \A i \in 1 .. Len(callers') : Good(callers'[i])
      <4>1. CASE callers' = callers
        BY <3>1, <4>1
      <4>2. CASE entry # 0 /\ callers' = Append(callers, new)
        BY <2>3, <3>1, <3>2, <4>2
      <4> QED BY <2>1, <4>1, <4>2
    <3>4. Trace!Ascending' <=> Trace!Ascending
      BY <1>1 DEF Trace!Ascending
    <3> QED BY <1>1, <3>3, <3>4 DEF Trace!CallersNamed, Trace!Nearest, Good
  <2> QED BY <1>3, <2>7, <2>8, <2>9 DEF TraceInv
<1> QED BY <1>4, <1>5

LEMMA PrintStep ==
  ASSUME TraceInv, Trace!PrintCaller
  PROVE  TraceInv'
<1> DEFINE caller == callers[Len(callers) - printed]
           size == caller.entry.length + printed + 1
           piece == [of |-> printed + 1, size |-> size]
<1>1. /\ phase = "print" /\ printed < Len(callers) /\ printed' = printed + 1
      /\ UNCHANGED <<Trace!inputs, phase, Trace!parser, level, callers>>
      /\ caller.entry.internal => UNCHANGED <<needed, output>>
      /\ ~ caller.entry.internal =>
           /\ needed' = needed + size
           /\ output' = IF needed + size < bufferSize THEN Append(output, piece)
                                                    ELSE output
  BY DEF Trace!PrintCaller
<1>2. /\ callers \in Seq(Callers) /\ output \in Seq(Sized) /\ needed \in Nat
      /\ printed \in Nat /\ Len(callers) \in Nat /\ bufferSize \in Nat
      /\ Len(output) \in Nat
  BY DEF TraceInv, TraceType
<1>3. size \in Nat /\ piece \in Sized /\ piece.of = printed + 1 /\ piece.size = size
  <2>1. Len(callers) - printed \in 1 .. Len(callers)
    BY <1>1, <1>2
  <2>2. caller \in Callers
    BY <1>2, <2>1
  <2>3. caller.entry.length \in Nat
    BY <2>2 DEF Callers, EntryLines
  <2> HIDE DEF caller
  <2> QED BY <1>2, <2>3 DEF Sized
<1>4. Named(printed + 1) = caller.entry.internal
  <2>1. Len(callers) - (printed + 1) + 1 = Len(callers) - printed
    BY <1>2
  <2> QED BY <2>1 DEF Named
<1> HIDE DEF size, piece, caller
<1>5. /\ needed' \in Nat /\ output' \in Seq(Sized) /\ Len(output') \in Nat
  <2>1. output' = output \/ output' = Append(output, piece)
    BY <1>1
  <2>2. needed' = needed \/ needed' = needed + size
    BY <1>1
  <2>3. output' \in Seq(Sized)
    <3>1. output \in Seq(Sized) /\ piece \in Sized
      BY <1>2, <1>3
    <3>2. Append(output, piece) \in Seq(Sized)
      BY <3>1
    <3> QED BY <2>1, <3>1, <3>2
  <2>4. needed' \in Nat
    BY <1>2, <1>3, <2>2
  <2>5. Len(output') \in Nat
    BY <2>3
  <2> QED BY <2>3, <2>4, <2>5
<1>6. TraceType'
  BY <1>1, <1>2, <1>5 DEF TraceInv, TraceType, Trace!inputs, Trace!parser
<1>7. TraceOrder' /\ Trace!CallersNamed'
  BY <1>1 DEF TraceInv, TraceOrder, Parsing, Trace!CallersNamed, Trace!Nearest,
              Trace!Ascending, Trace!parser
<1>8. \A j : Named(j)' <=> Named(j)
  BY <1>1 DEF Named
<1>9. UNCHANGED bufferSize
  BY <1>1 DEF Trace!inputs
<1>10. /\ Trace!TraceSize \in Nat /\ Trace!TraceSize < bufferSize
       /\ needed < bufferSize =>
            /\ Trace!TraceSize = needed
            /\ \A j \in 1 .. printed : Covered(j, Len(output))
       /\ \A i \in 1 .. Len(output) :
            /\ output[i].of \in 1 .. printed
            /\ \A j \in 1 .. output[i].of : Covered(j, i)
  BY <1>2, SizeOfFacts DEF TraceInv, PrintSound, Trace!TraceSize
<1>11. CASE caller.entry.internal
  <2>1. UNCHANGED <<needed, output>>
    BY <1>1, <1>11
  <2>2. \A j, n : Covered(j, n)' <=> Covered(j, n)
    BY <1>8, <2>1 DEF Covered
  <2>3. \A n : Covered(printed + 1, n)
    BY <1>4, <1>11 DEF Covered
  <2>4. Trace!TraceSize' = Trace!TraceSize
    BY <2>1 DEF Trace!TraceSize
  <2>5. needed < bufferSize => \A j \in 1 .. printed + 1 : Covered(j, Len(output))
    <3>1. \A j \in 1 .. printed + 1 : j \in 1 .. printed \/ j = printed + 1
      BY <1>2
    <3> QED BY <1>10, <2>3, <3>1
  <2>6. \A i \in 1 .. Len(output) : output[i].of \in 1 .. printed + 1
    BY <1>2, <1>10
  <2>7. PrintSound'
    BY <1>1, <1>9, <1>10, <2>1, <2>2, <2>4, <2>5, <2>6 DEF PrintSound
  <2> QED BY <1>6, <1>7, <2>7 DEF TraceInv
<1>12. CASE ~ caller.entry.internal /\ ~ (needed + size < bufferSize)
  <2>1. output' = output /\ needed' = needed + size /\ ~ (needed' < bufferSize)
    BY <1>1, <1>12
  <2>2. \A j, n : Covered(j, n)' <=> Covered(j, n)
    BY <1>8, <2>1 DEF Covered
  <2>3. Trace!TraceSize' = Trace!TraceSize
    BY <2>1 DEF Trace!TraceSize
  <2>4. \A i \in 1 .. Len(output) : output[i].of \in 1 .. printed + 1
    BY <1>2, <1>10
  <2>5. PrintSound'
    BY <1>1, <1>9, <1>10, <2>1, <2>2, <2>3, <2>4 DEF PrintSound
  <2> QED BY <1>6, <1>7, <2>5 DEF TraceInv
<1>13. CASE ~ caller.entry.internal /\ needed + size < bufferSize
  <2>1. output' = Append(output, piece) /\ needed' = needed + size
        /\ needed < bufferSize
    BY <1>1, <1>2, <1>3, <1>13
  <2>2. PICK N \in Nat : N = Len(output)
    BY <1>2
  <2>3. /\ Len(output') = N + 1
        /\ \A i \in 1 .. N : output'[i] = output[i]
        /\ output'[N + 1] = piece
    BY <1>2, <1>3, <2>2, <2>1
  <2>4. /\ Trace!TraceSize \in Nat /\ Trace!TraceSize = needed
        /\ \A j \in 1 .. printed : Covered(j, N)
        /\ \A i \in 1 .. N : /\ output[i].of \in 1 .. printed
                             /\ \A j \in 1 .. output[i].of : Covered(j, i)
    BY <1>10, <2>2, <2>1
  <2>5. \A j : \A n \in 0 .. N : Covered(j, n) => Covered(j, n)'
    <3> SUFFICES ASSUME NEW j, NEW n \in 0 .. N, Covered(j, n)
                 PROVE  Covered(j, n)'
      OBVIOUS
    <3>1. CASE Named(j)
      BY <1>8, <3>1 DEF Covered
    <3>2. CASE \E k \in 1 .. n : output[k].of = j
      <4>1. PICK k \in 1 .. n : output[k].of = j
        BY <3>2
      <4>2. k \in 1 .. N
        BY <1>2
      <4> QED BY <2>3, <4>1, <4>2 DEF Covered
    <3> QED BY <3>1, <3>2 DEF Covered
  <2>6. \A j \in 1 .. printed + 1 : Covered(j, N + 1)'
    <3> SUFFICES ASSUME NEW j \in 1 .. printed + 1
                 PROVE  Covered(j, N + 1)'
      OBVIOUS
    <3>1. CASE j = printed + 1
      <4>1. N + 1 \in 1 .. N + 1 /\ output'[N + 1].of = j
        BY <1>2, <1>3, <2>3, <3>1
      <4> QED BY <4>1, Zenon DEF Covered
    <3>2. CASE j \in 1 .. printed
      <4>1. Covered(j, N)
        BY <2>4, <3>2
      <4>2. Covered(j, N)'
        BY <1>2, <2>5, <4>1
      <4>3. \A k \in 1 .. N : k \in 1 .. N + 1
        BY <1>2
      <4> QED BY <4>2, <4>3 DEF Covered
    <3>3. j = printed + 1 \/ j \in 1 .. printed
      BY <1>2
    <3> QED BY <3>1, <3>2, <3>3
  <2>7. Trace!TraceSize' = Trace!TraceSize + size
    <3>1. Trace!TraceSize' = Trace!SizeOf(Append(output, piece))
      BY <2>1 DEF Trace!TraceSize
    <3> QED BY <1>2, <1>3, <3>1, SizeOfFacts DEF Trace!TraceSize
  <2>8. Trace!TraceSize' = needed' /\ Trace!TraceSize' < bufferSize
    BY <1>2, <1>10, <1>13, <2>1, <2>7
  <2>9. ASSUME NEW i \in 1 .. N + 1
        PROVE  /\ output'[i].of \in 1 .. printed + 1
               /\ \A j \in 1 .. output'[i].of : Covered(j, i)'
    <3>1. CASE i = N + 1
      <4>1. output'[i].of = printed + 1
        BY <1>3, <2>3, <3>1
      <4> QED BY <1>2, <2>6, <3>1, <4>1
    <3>2. CASE i \in 1 .. N
      <4>1. output'[i] = output[i] /\ output[i].of \in 1 .. printed
             /\ i \in 0 .. N
        BY <2>3, <2>4, <3>2
      <4>2. output[i].of \in 1 .. printed + 1
        BY <1>2, <4>1
      <4>3. \A j \in 1 .. output[i].of : Covered(j, i)
        BY <2>4, <3>2
      <4> QED BY <2>5, <4>1, <4>2, <4>3
    <3>3. i = N + 1 \/ i \in 1 .. N
      BY <1>2
    <3> QED BY <3>1, <3>2, <3>3
  <2>10. PrintSound'
    BY <1>1, <1>9, <2>3, <2>6, <2>8, <2>9 DEF PrintSound
  <2> QED BY <1>6, <1>7, <2>10 DEF TraceInv
<1> QED BY <1>11, <1>12, <1>13

LEMMA EndSteps ==
  ASSUME TraceInv, Trace!EndTrace \/ Trace!Cleanup
  PROVE  TraceInv'
<1>1. /\ UNCHANGED <<Trace!inputs, line, Trace!tracer>>
      /\ (entries' = entries \/ entries' = <<>>)
      /\ phase \in {"print", "done"} /\ phase' \in {"done", "crashed", "clean"}
  BY DEF Trace!EndTrace, Trace!Cleanup, Trace!parser
<1>2. TraceType'
  <2>1. TraceType
    BY DEF TraceInv
  <2>2. entries' \in Seq(EntryLines)
    <3>1. entries \in Seq(EntryLines)
      BY <2>1 DEF TraceType
    <3>2. CASE entries' = entries
      BY <3>1, <3>2
    <3>3. CASE entries' = <<>>
      BY <3>3
    <3> QED BY <1>1, <3>2, <3>3
  <2> QED BY <1>1, <2>1, <2>2 DEF TraceType, Trace!inputs, Trace!tracer
<1>3. TraceOrder'
  BY <1>1 DEF TraceOrder, Parsing
<1>4. PrintSound'
  BY <1>1 DEF TraceInv, PrintSound, Trace!TraceSize, Covered, Named, Trace!inputs, Trace!tracer
<1>5. Trace!CallersNamed'
  <2>1. CASE entries' = entries
    BY <1>1, <2>1 DEF TraceInv, Trace!CallersNamed, Trace!Nearest, Trace!Ascending,
                       Trace!tracer
  <2>2. CASE entries' = <<>>
    <3>1. Len(entries') = 0
      BY <2>2
    <3> QED BY <1>1, <3>1 DEF TraceInv, Trace!CallersNamed, Trace!Nearest, Trace!tracer
  <2> QED BY <1>1, <2>1, <2>2
<1> QED BY <1>2, <1>3, <1>4, <1>5 DEF TraceInv

LEMMA CallStep ==
  ASSUME TraceInputs, TraceInv, Trace!CallAgain
  PROVE  TraceInv'
<1>1. /\ callers' = <<>> /\ output' = <<>> /\ needed' = 0 /\ printed' = 0
      /\ level' = 1 /\ stack' \in Stacks /\ (line' = 1 \/ line' = line)
      /\ UNCHANGED <<mapFile, bufferSize, entries>>
  BY DEF Trace!CallAgain
<1>2. TraceType'
  BY <1>1 DEF TraceInv, TraceType, TraceInputs
<1>3. TraceOrder' /\ Trace!CallersNamed'
  BY <1>1 DEF TraceOrder, Trace!CallersNamed
<1>4. PrintSound'
  BY <1>1, <1>2, SizeOfFacts DEF PrintSound, Trace!TraceSize, TraceType
<1> QED BY <1>2, <1>3, <1>4 DEF TraceInv

LEMMA TraceStep ==
  ASSUME TraceInputs, TraceInv, [Trace!Next]_(Trace!vars)
  PROVE  TraceInv'
<1>1. CASE UNCHANGED Trace!vars
  BY <1>1 DEF Trace!vars, TraceInv, TraceType, TraceOrder, PrintSound, Trace!TraceSize, Covered,
    Named, Trace!CallersNamed, Trace!Nearest, Trace!Ascending
<1>2. CASE Trace!Next
  BY <1>2, ParserSteps, CollectStep, PrintStep, EndSteps, CallStep DEF Trace!Next
<1> QED BY <1>1, <1>2

LEMMA TraceIsSound ==
  ASSUME TraceInputs, TraceInv
  PROVE  Trace!TraceSound
<1>1. bufferSize >= MinBuffer => Trace!TextSize < bufferSize
  <2>1. ErrorSize < MinBuffer /\ ErrorSize \in Nat /\ MinBuffer \in Nat /\ bufferSize \in Nat
    BY DEF TraceInputs, TraceInv, TraceType
  <2>2. Trace!TraceSize < bufferSize
    BY DEF TraceInv, PrintSound
  <2> QED BY <2>1, <2>2 DEF Trace!TextSize
<1>2. Trace!TraceInBuffer
  BY <1>1 DEF TraceInv, PrintSound, Trace!TraceInBuffer, Covered, Named
<1> QED BY <1>2 DEF TraceInv, Trace!TraceSound

LEMMA TraceRuns == Spec => Trace!Spec
<1>1. Init => Trace!Init
  BY DEF Init
<1>2. [Next]_all => [Trace!Next]_(Trace!vars)
  <2>1. ASSUME UNCHANGED traceVars PROVE UNCHANGED Trace!vars
    BY <2>1 DEF traceVars, Trace!vars
  <2> QED BY <2>1, OneRuns
<1> QED BY <1>1, <1>2, Parted, PTL DEF Trace!Spec

(* Each call of printStackTrace() names each caller by an entry that is not *)
(* above it, the nearest one if the entries happen to be in order.  The     *)
(* trace it appends stays in the buffer, whatever its size, and leaves no   *)
(* caller out before one that is printed; an error text, which sprintf()    *)
(* writes unbounded, stays in a buffer of the size the program has to pass. *)
(* For every map file and stack.                                            *)
THEOREM PartTraceSound ==
  ASSUME TraceInputs
  PROVE  Spec => []TraceSound
<1>1. Trace!Init => TraceInv
  BY TraceInit
<1>2. TraceInv /\ [Trace!Next]_(Trace!vars) => TraceInv'
  BY TraceStep
<1>3. TraceInv => Trace!TraceSound
  BY TraceIsSound
<1> QED BY <1>1, <1>2, <1>3, TraceRuns, PTL DEF Trace!Spec, TraceSound

-----------------------------------------------------------------------------
(* The digits, and the number that a text of digits denotes.                *)
Hex == {Message!Char[i] : i \in 1 .. 16}

LEMMA CharFacts ==
  /\ \A i, j \in 1 .. 16 : Message!Char[i] = Message!Char[j] => i = j
  /\ "-" \notin Hex
<1>1. \A i \in 1 .. 16 : \/ i = 1 \/ i = 2 \/ i = 3 \/ i = 4 \/ i = 5 \/ i = 6 \/ i = 7 \/ i = 8
                         \/ i = 9 \/ i = 10 \/ i = 11 \/ i = 12 \/ i = 13 \/ i = 14
                         \/ i = 15 \/ i = 16
  OBVIOUS
<1>2. Message!Char = <<"0", "1", "2", "3", "4", "5", "6", "7",
                       "8", "9", "a", "b", "c", "d", "e", "f">>
  BY DEF Message!Char
<1>3. \A i, j \in 1 .. 16 : Message!Char[i] = Message!Char[j] => i = j
  BY <1>1, <1>2
<1>4. "-" \notin Hex
  BY <1>1, <1>2 DEF Hex
<1> QED BY <1>3, <1>4

LEMMA DigitFacts ==
  ASSUME NEW d \in 0 .. 15
  PROVE  /\ Message!DigitChar(d) \in Hex
         /\ Message!DigitOf(Message!DigitChar(d)) = d
<1>1. Message!DigitChar(d) = Message!Char[d + 1] /\ d + 1 \in 1 .. 16
  BY DEF Message!DigitChar
<1>2. (CHOOSE i \in 1 .. 16 : Message!Char[i] = Message!Char[d + 1]) = d + 1
  BY <1>1, CharFacts
<1>3. Message!DigitOf(Message!DigitChar(d)) = d
  <2>1. Message!DigitOf(Message!DigitChar(d)) = (d + 1) - 1
    BY <1>1, <1>2, Zenon DEF Message!DigitOf
  <2> QED BY <2>1
<1> QED BY <1>1, <1>3, CharFacts DEF Hex

(* The passes over the digits of a text.                                    *)
Passes(text, base) ==
  [i \in 1 .. Len(text) |-> [x \in Nat |-> x * base + Message!DigitOf(text[i])]]

LEMMA DigitIn ==
  ASSUME NEW c \in Hex
  PROVE  Message!DigitOf(c) \in 0 .. 15
<1>1. PICK j \in 1 .. 16 : c = Message!Char[j]
  BY DEF Hex
<1>2. j - 1 \in 0 .. 15 /\ Message!DigitChar(j - 1) = Message!Char[j]
  <2>1. j - 1 \in 0 .. 15 /\ ~ (j - 1 < 0) /\ (j - 1) + 1 = j
    OBVIOUS
  <2> QED BY <2>1 DEF Message!DigitChar
<1> QED BY <1>1, <1>2, DigitFacts

LEMMA PassesType ==
  ASSUME NEW text \in Seq(Hex), NEW base \in {10, 16}
  PROVE  Passes(text, base) \in [1 .. Len(text) -> [Nat -> Nat]]
<1>1. ASSUME NEW i \in 1 .. Len(text), NEW x \in Nat
      PROVE  x * base + Message!DigitOf(text[i]) \in Nat
  <2>1. text[i] \in Hex
    OBVIOUS
  <2>2. Message!DigitOf(text[i]) \in Nat
    BY <2>1, DigitIn
  <2>3. base = 10 \/ base = 16
    OBVIOUS
  <2> QED BY <2>2, <2>3
<1> QED BY <1>1 DEF Passes

LEMMA NumberInRuns ==
  ASSUME NEW text \in Seq(Hex), NEW base \in {10, 16}
  PROVE  \E f : /\ Runs(f, 0, Len(text), Passes(text, base), Nat)
                /\ Message!NumberIn(text, base) = f[Len(text)]
<1> DEFINE n == Len(text)
           Is(f) == f = [i \in 0 .. n |->
                           IF i = 0 THEN 0 ELSE f[i - 1] * base + Message!DigitOf(text[i])]
           g == CHOOSE f : Is(f)
<1>1. n \in Nat /\ Passes(text, base) \in [1 .. n -> [Nat -> Nat]]
  <2>1. n \in Nat
    OBVIOUS
  <2>2. Passes(text, base) \in [1 .. n -> [Nat -> Nat]]
    BY PassesType
  <2> QED BY <2>1, <2>2
<1>2. PICK runs : Runs(runs, 0, n, Passes(text, base), Nat)
  <2> HIDE DEF n
  <2> QED BY <1>1, Loop
<1>3. ASSUME NEW i \in 1 .. n, NEW x \in Nat
      PROVE  Passes(text, base)[i][x] = x * base + Message!DigitOf(text[i])
  BY DEF Passes
<1>4. Message!NumberIn(text, base) = g[n]
  BY DEF Message!NumberIn
<1> HIDE DEF n, g
<1>5. Is(runs)
  <2>1. runs \in [0 .. n -> Nat] /\ runs = [i \in 0 .. n |-> runs[i]]
    BY <1>2 DEF Runs
  <2>2. ASSUME NEW i \in 0 .. n
        PROVE  runs[i] = IF i = 0 THEN 0 ELSE runs[i - 1] * base + Message!DigitOf(text[i])
    <3>1. i = 0 \/ (i \in 1 .. n /\ i # 0 /\ i - 1 \in 0 .. n)
      BY <1>1
    <3>2. i - 1 \in 0 .. n => runs[i - 1] \in Nat
      BY <2>1
    <3> QED BY <1>2, <1>3, <3>1, <3>2, Zenon DEF Runs
  <2> QED BY <2>1, <2>2, Zenon
<1>6. Is(g)
  BY <1>5, Zenon DEF g
<1>7. g = runs
  <2>1. ASSUME NEW k \in Nat, k <= n PROVE g[k] = runs[k]
    <3>1. g[0] = runs[0]
      <4>1. 0 \in 0 .. n
        BY <1>1
      <4> QED BY <1>5, <1>6, <4>1, Zenon
    <3>2. ASSUME NEW i \in 1 .. k, g[i - 1] = runs[i - 1]
          PROVE  g[i] = runs[i]
      <4>1. i \in 0 .. n /\ i # 0
        BY <1>1, <2>1
      <4>2. g[i] = g[i - 1] * base + Message!DigitOf(text[i])
        BY <1>6, <4>1, Zenon
      <4>3. runs[i] = runs[i - 1] * base + Message!DigitOf(text[i])
        BY <1>5, <4>1, Zenon
      <4> QED BY <3>2, <4>2, <4>3, Zenon
    <3>3. \A i \in 1 .. k : g[i - 1] = runs[i - 1] => g[i] = runs[i]
      BY <3>2, Zenon
    <3> HIDE DEF Is
    <3> QED BY <3>1, <3>3, SameLoop
  <2>2. g = [i \in 0 .. n |-> g[i]] /\ runs = [i \in 0 .. n |-> runs[i]]
    <3>1. \A f : Is(f) => f = [i \in 0 .. n |-> f[i]]
      <4> SUFFICES ASSUME NEW f, Is(f) PROVE f = [i \in 0 .. n |-> f[i]]
        OBVIOUS
      <4> QED OBVIOUS
    <3> HIDE DEF Is
    <3> QED BY <1>5, <1>6, <3>1
  <2>3. \A i \in 0 .. n : g[i] = runs[i]
    BY <1>1, <2>1
  <2> HIDE DEF Is
  <2> QED BY <2>2, <2>3, Zenon
<1> QED BY <1>2, <1>4, <1>7, Zenon DEF n

(* A digit more at the end of a number.                                     *)
LEMMA NumberInAppend ==
  ASSUME NEW text \in Seq(Hex), NEW c \in Hex, NEW base \in {10, 16}
  PROVE  /\ Message!NumberIn(text, base) \in Nat
         /\ Message!NumberIn(Append(text, c), base)
              = Message!NumberIn(text, base) * base + Message!DigitOf(c)
<1> DEFINE n == Len(text)
           more == Append(text, c)
           G == Passes(text, base)
           H == Passes(more, base)
<1>1. n \in Nat /\ more \in Seq(Hex) /\ Len(more) = n + 1 /\ more[n + 1] = c
  OBVIOUS
<1>2. PICK f : Runs(f, 0, n, G, Nat) /\ Message!NumberIn(text, base) = f[n]
  BY NumberInRuns
<1>3. PICK g : Runs(g, 0, n + 1, H, Nat) /\ Message!NumberIn(more, base) = g[n + 1]
  <2> HIDE DEF more, n
  <2>1. \E g : Runs(g, 0, Len(more), H, Nat) /\ Message!NumberIn(more, base) = g[Len(more)]
    BY <1>1, NumberInRuns
  <2> QED BY <1>1, <2>1
<1>4. \A i \in 1 .. n : H[i] = G[i]
  <2> SUFFICES ASSUME NEW i \in 1 .. n PROVE H[i] = G[i]
    OBVIOUS
  <2>1. i \in 1 .. Len(more) /\ more[i] = text[i]
    BY <1>1
  <2> QED BY <2>1 DEF Passes
<1>5. \A x \in Nat : H[n + 1][x] = x * base + Message!DigitOf(c)
  <2>1. n + 1 \in 1 .. Len(more)
    BY <1>1
  <2> QED BY <1>1, <2>1 DEF Passes
<1> HIDE DEF n, more, G, H
<1>6. f[n] = g[n]
  <2>1. f[0] = g[0]
    BY <1>2, <1>3 DEF Runs
  <2>2. ASSUME NEW i \in 1 .. n, f[i - 1] = g[i - 1] PROVE f[i] = g[i]
    <3>1. i \in 1 .. n + 1
      BY <1>1
    <3>2. f[i] = G[i][f[i - 1]]
      BY <1>2, Zenon DEF Runs
    <3>3. g[i] = H[i][g[i - 1]]
      BY <1>3, <3>1, Zenon DEF Runs
    <3> QED BY <1>4, <2>2, <3>2, <3>3, Zenon
  <2>3. \A i \in 1 .. n : f[i - 1] = g[i - 1] => f[i] = g[i]
    BY <2>2, Zenon
  <2>4. n \in Nat
    BY <1>1
  <2> QED BY <2>1, <2>3, <2>4, SameLoop
<1>7. f[n] \in Nat
  BY <1>1, <1>2 DEF Runs
<1>8. g[n + 1] = H[n + 1][g[n]]
  <2>1. n + 1 \in 1 .. n + 1 /\ (n + 1) - 1 = n
    BY <1>1
  <2> QED BY <1>3, <2>1 DEF Runs
<1> QED BY <1>2, <1>3, <1>5, <1>6, <1>7, <1>8, Zenon DEF more

LEMMA NumberInEmpty ==
  ASSUME NEW base \in {10, 16}
  PROVE  Message!NumberIn(<<>>, base) = 0
<1>1. <<>> \in Seq(Hex) /\ Len(<<>>) = 0
  OBVIOUS
<1>2. PICK f : Runs(f, 0, 0, Passes(<<>>, base), Nat) /\ Message!NumberIn(<<>>, base) = f[0]
  BY <1>1, NumberInRuns
<1> QED BY <1>2 DEF Runs

-----------------------------------------------------------------------------
LEMMA Division ==
  ASSUME NEW v \in Nat, NEW base \in {10, 16}
  PROVE  /\ v \div base \in 0 .. v
         /\ v > 0 => v \div base < v
         /\ v % base \in 0 .. 15
         /\ (v \div base) * base + (v % base) = v
<1>1. CASE base = 10
  BY <1>1
<1>2. CASE base = 16
  BY <1>2
<1> QED BY <1>1, <1>2

(* The text of v after that of v \div base.                                *)
Digits(f, v, base) ==
  IF v \div base > 0
    THEN Append(f[v \div base], Message!DigitChar(v % base))
    ELSE <<Message!DigitChar(v % base)>>

LEMMA DigitsExist ==
  ASSUME NEW m \in Nat, NEW base \in {10, 16}
  PROVE  \E f : f \in [0 .. m -> Seq(Hex)] /\ \A v \in 0 .. m : f[v] = Digits(f, v, base)
<1> DEFINE S == {k \in Nat :
                   \E f : /\ f \in [0 .. k -> Seq(Hex)]
                         /\ \A v \in 0 .. k : f[v] = Digits(f, v, base)}
<1>1. 0 \in S
  <2> DEFINE f == [v \in 0 .. 0 |-> <<Message!DigitChar(0)>>]
  <2>1. Message!DigitChar(0) \in Hex
    BY DigitFacts
  <2>2. f \in [0 .. 0 -> Seq(Hex)] /\ f[0] = <<Message!DigitChar(0)>>
    BY <2>1
  <2>3. 0 \div base = 0 /\ 0 % base = 0
    <3>1. base = 10 \/ base = 16
      OBVIOUS
    <3> QED BY <3>1
  <2> HIDE DEF f
  <2>4. f[0] = Digits(f, 0, base)
    BY <2>2, <2>3 DEF Digits
  <2>5. \A v \in 0 .. 0 : v = 0
    OBVIOUS
  <2> QED BY <2>2, <2>4, <2>5
<1>2. ASSUME NEW k \in Nat, k \in S PROVE k + 1 \in S
  <2>1. PICK f : /\ f \in [0 .. k -> Seq(Hex)]
                 /\ \A v \in 0 .. k : f[v] = Digits(f, v, base)
    BY <1>2
  <2> DEFINE last == Digits(f, k + 1, base)
             g == [v \in 0 .. k + 1 |-> IF v <= k THEN f[v] ELSE last]
  <2>2. ASSUME NEW v \in 0 .. k + 1
        PROVE  v \div base > 0 => v \div base \in 0 .. k
    BY <2>2, Division
  <2>3. last \in Seq(Hex)
    <3>1. k + 1 \in 0 .. k + 1 /\ k + 1 \in Nat
      OBVIOUS
    <3>2. Message!DigitChar((k + 1) % base) \in Hex
      BY <3>1, Division, DigitFacts
    <3>3. CASE (k + 1) \div base > 0
      <4>1. f[(k + 1) \div base] \in Seq(Hex)
        BY <2>1, <2>2, <3>1, <3>3
      <4>2. last = Append(f[(k + 1) \div base], Message!DigitChar((k + 1) % base))
        BY <3>3 DEF Digits
      <4> HIDE DEF last
      <4> QED BY <3>2, <4>1, <4>2
    <3>4. CASE ~ ((k + 1) \div base > 0)
      BY <3>2, <3>4 DEF Digits
    <3> QED BY <3>3, <3>4
  <2>4. /\ g \in [0 .. k + 1 -> Seq(Hex)] /\ g[k + 1] = last
        /\ \A v \in 0 .. k : g[v] = f[v]
    <3> HIDE DEF last
    <3> QED BY <2>1, <2>3
  <2> HIDE DEF g
  <2>5. ASSUME NEW v \in 0 .. k + 1 PROVE g[v] = Digits(g, v, base)
    <3>1. Digits(g, v, base) = Digits(f, v, base)
      BY <2>2, <2>4, Zenon DEF Digits
    <3>2. v \in 0 .. k \/ v = k + 1
      OBVIOUS
    <3> HIDE DEF last
    <3>3. CASE v \in 0 .. k
      BY <2>1, <2>4, <3>1, <3>3, Zenon
    <3>4. CASE v = k + 1
      BY <2>4, <3>1, <3>4, Zenon DEF last
    <3> QED BY <3>2, <3>3, <3>4
  <2>6. k + 1 \in Nat
    OBVIOUS
  <2> QED BY <2>4, <2>5, <2>6, Zenon
<1> HIDE DEF S
<1>3. m \in S
  BY <1>1, <1>2, Induction
<1> QED BY <1>3, Zenon DEF S

(* Every number is read back from its digits.                               *)
LEMMA DigitsRead ==
  ASSUME NEW m \in Nat, NEW base \in {10, 16}, NEW f,
         \A v \in 0 .. m : f[v] = Digits(f, v, base)
  PROVE  \A v \in 0 .. m : /\ f[v] \in Seq(Hex) /\ f[v] # <<>>
                           /\ Message!NumberIn(f[v], base) = v
<1> DEFINE Good(v) == /\ f[v] \in Seq(Hex) /\ f[v] # <<>>
                      /\ Message!NumberIn(f[v], base) = v
           S == {k \in Nat : \A v \in 0 .. m : v < k => Good(v)}
<1>1. 0 \in S
  OBVIOUS
<1>2. ASSUME NEW k \in Nat, k \in S PROVE k + 1 \in S
  <2>1. ASSUME k \in 0 .. m PROVE Good(k)
    <3> DEFINE q == k \div base
               c == Message!DigitChar(k % base)
    <3>1. /\ q \in 0 .. k /\ (k > 0 => q < k)
          /\ k % base \in 0 .. 15 /\ q * base + (k % base) = k
      BY Division
    <3>2. c \in Hex /\ Message!DigitOf(c) = k % base
      BY <3>1, DigitFacts
    <3>3. f[k] = IF q > 0 THEN Append(f[q], c) ELSE <<c>>
      BY <2>1, Zenon DEF Digits
    <3> HIDE DEF q, c
    <3>4. CASE q > 0
      <4>1. q \in 0 .. m /\ q < k
        BY <2>1, <3>1, <3>4
      <4>2. Good(q)
        BY <1>2, <4>1
      <4>3. f[k] = Append(f[q], c)
        BY <3>3, <3>4
      <4>4. f[k] \in Seq(Hex) /\ f[k] # <<>>
        BY <3>2, <4>2, <4>3
      <4>5. Message!NumberIn(f[k], base)
              = Message!NumberIn(f[q], base) * base + Message!DigitOf(c)
        BY <3>2, <4>2, <4>3, NumberInAppend
      <4>6. Message!NumberIn(f[k], base) = q * base + (k % base)
        <5>1. Message!NumberIn(f[q], base) = q
          BY <4>2
        <5> HIDE DEF Good
        <5>2. Message!DigitOf(c) = k % base
          BY <3>2
        <5> QED BY <4>5, <5>1, <5>2
      <4> QED BY <3>1, <4>4, <4>6, Zenon
    <3>5. CASE ~ (q > 0)
      <4>1. q = 0 /\ f[k] = <<c>> /\ <<c>> = Append(<<>>, c) /\ <<>> \in Seq(Hex)
        BY <3>1, <3>2, <3>3, <3>5
      <4>2. Message!NumberIn(f[k], base) = 0 * base + (k % base)
        <5>1. Message!NumberIn(f[k], base)
                = Message!NumberIn(<<>>, base) * base + Message!DigitOf(c)
          BY <3>2, <4>1, NumberInAppend
        <5> HIDE DEF Good
        <5>2. Message!DigitOf(c) = k % base
          BY <3>2
        <5> QED BY <5>1, <5>2, NumberInEmpty
      <4>3. Message!NumberIn(f[k], base) = k
        BY <3>1, <4>1, <4>2
      <4> QED BY <3>2, <4>1, <4>3
    <3> QED BY <3>4, <3>5
  <2> HIDE DEF Good
  <2>2. ASSUME NEW v \in 0 .. m, v < k + 1 PROVE Good(v)
    <3>1. v < k \/ v = k
      BY <2>2
    <3> QED BY <1>2, <2>1, <2>2, <3>1
  <2> QED BY <2>2
<1> HIDE DEF S
<1>3. m + 1 \in S
  <2>1. m + 1 \in Nat
    OBVIOUS
  <2> QED BY <1>1, <1>2, <2>1, Induction
<1> HIDE DEF Good
<1>4. \A v \in 0 .. m : Good(v)
  BY <1>3 DEF S
<1> QED BY <1>4, Zenon DEF Good

LEMMA SprintReads ==
  ASSUME LONG_MAX \in Nat, NEW base \in {10, 16}, NEW v \in 0 .. Message!Modulus - 1
  PROVE  /\ Message!Sprint(v, base) \in Seq(Hex) /\ Message!Sprint(v, base) # <<>>
         /\ Message!NumberIn(Message!Sprint(v, base), base) = v
<1> DEFINE m == Message!Modulus - 1
           Is(f) == f = [w \in 0 .. m |->
                           IF w \div base > 0
                             THEN Append(f[w \div base], Message!DigitChar(w % base))
                             ELSE <<Message!DigitChar(w % base)>>]
           g == CHOOSE f : Is(f)
<1>1. m \in Nat
  BY DEF Message!Modulus
<1>2. Message!Sprint(v, base) = g[v]
  <2>1. ~ (v < 0)
    BY <1>1
  <2> QED BY <2>1, Zenon DEF Message!Sprint
<1> HIDE DEF m, g
<1>3. PICK runs : /\ runs \in [0 .. m -> Seq(Hex)]
                  /\ \A w \in 0 .. m : runs[w] = Digits(runs, w, base)
  BY <1>1, DigitsExist
<1>4. Is(runs)
  <2>1. runs = [w \in 0 .. m |-> runs[w]]
    BY <1>3
  <2> QED BY <1>3, <2>1, Zenon DEF Digits
<1>5. Is(g)
  BY <1>4, Zenon DEF g
<1>6. \A w \in 0 .. m : g[w] = Digits(g, w, base)
  BY <1>5, Zenon DEF Digits
<1>7. v \in 0 .. m
  BY DEF m
<1> QED BY <1>1, <1>2, <1>6, <1>7, DigitsRead

-----------------------------------------------------------------------------
(* The elements of the patterns, and what there is in a buffer.             *)
Elements == UNION {{p[i] : i \in 1 .. Len(p)} : p \in Patterns}

TextChars ==
  Hex \cup Elements \cup {"-", "?", "c", "N", "U", "L", "s", "t", "r", "Aborting",
                         "Exiting", "\n", "bad"}

MessagesReal ==
  /\ LONG_MAX \in Nat
  /\ Patterns \subseteq Seq(Elements)
  /\ Numbers \subseteq Message!LongMin .. LONG_MAX

ReadsAs(c, value, text) ==
  /\ c \in {"%a", "%x"} => /\ text # <<>> /\ Message!IsNumber(text)
                           /\ Message!NumberIn(text, 16) = Message!AsAddr(value)
  /\ c = "%d" => /\ text # <<>> /\ Message!IsNumber(text)
                 /\ Message!NumberIn(text, 10) = Message!AsAddr(value)
  /\ c \in {"%i", "%l"} /\ value # Message!LongMin =>
       /\ text # <<>>
       /\ Message!IsNumber(IF Head(text) = "-" THEN Tail(text) ELSE text)
       /\ Message!SignedIn(text) = value

LEMMA HexIsNumber ==
  ASSUME NEW text \in Seq(Hex)
  PROVE  Message!IsNumber(text) /\ text \in Seq(TextChars)
<1>1. ASSUME NEW i \in 1 .. Len(text)
      PROVE  \E j \in 1 .. 16 : Message!Char[j] = text[i]
  <2>1. text[i] \in Hex
    OBVIOUS
  <2> QED BY <2>1 DEF Hex
<1>2. Hex \subseteq TextChars
  BY DEF TextChars
<1>3. text \in Seq(TextChars)
  BY <1>2
<1> QED BY <1>1, <1>3 DEF Message!IsNumber

LEMMA AsAddrIn ==
  ASSUME MessagesReal, NEW n \in Int
  PROVE  Message!AsAddr(n) \in 0 .. Message!Modulus - 1
<1>1. Message!Modulus \in Nat \ {0}
  BY DEF MessagesReal, Message!Modulus
<1> QED BY <1>1 DEF Message!AsAddr

LEMMA SignedReads ==
  ASSUME MessagesReal, NEW n \in Message!LongMin .. LONG_MAX
  PROVE  LET text == Message!SprintSigned(n)
         IN  /\ text \in Seq(TextChars)
             /\ n # Message!LongMin =>
                  /\ text # <<>>
                  /\ Message!IsNumber(IF Head(text) = "-" THEN Tail(text) ELSE text)
                  /\ Message!SignedIn(text) = n
<1> DEFINE text == Message!SprintSigned(n)
<1>1. LONG_MAX \in Nat /\ Message!Modulus \in Nat /\ Message!Modulus = 2 * LONG_MAX + 2
      /\ Message!LongMin = - LONG_MAX - 1 /\ n \in Int
  BY DEF MessagesReal, Message!Modulus, Message!LongMin
<1>2. "-" \in TextChars /\ "?" \in TextChars /\ "0" \in TextChars
  <2>1. "0" \in Hex
    <3>1. Message!Char[1] = "0"
      BY DEF Message!Char
    <3> QED BY <3>1 DEF Hex
  <2> QED BY <2>1, Zenon DEF TextChars
<1>3. CASE n >= 0
  <2>1. text = Message!Sprint(n, 10)
    BY <1>1, <1>3 DEF Message!SprintSigned
  <2>2. n \in 0 .. Message!Modulus - 1
    BY <1>1, <1>3
  <2>3. text \in Seq(Hex) /\ text # <<>> /\ Message!NumberIn(text, 10) = n
    BY <1>1, <2>1, <2>2, SprintReads
  <2> HIDE DEF text
  <2>4. Head(text) # "-"
    <3>1. Head(text) \in Hex
      BY <2>3
    <3> QED BY <3>1, CharFacts
  <2>5. Message!SignedIn(text) = n
    BY <2>3, <2>4, Zenon DEF Message!SignedIn
  <2> QED BY <2>3, <2>4, <2>5, HexIsNumber DEF text
<1>4. CASE n < 0 /\ n # Message!LongMin
  <2> DEFINE digits == Message!Sprint(-n, 10)
  <2>1. -n \in 1 .. LONG_MAX /\ -n \in 0 .. Message!Modulus - 1
    BY <1>1, <1>4
  <2>2. Message!AsLong(-n) = -n
    <3> DEFINE x == -n - Message!LongMin
    <3>1. x \in Nat /\ x < Message!Modulus
      BY <1>1, <2>1
    <3> HIDE DEF x
    <3>2. x % Message!Modulus = x
      BY <1>1, <3>1
    <3>3. Message!AsLong(-n) = x + Message!LongMin
      BY <3>2, Zenon DEF Message!AsLong, x
    <3> QED BY <1>1, <2>1, <3>3 DEF x
  <2>3. text = <<"-">> \o digits
    BY <1>1, <1>4, <2>2 DEF Message!SprintSigned
  <2>4. digits \in Seq(Hex) /\ digits # <<>> /\ Message!NumberIn(digits, 10) = -n
    BY <1>1, <2>1, SprintReads
  <2>5. Message!IsNumber(digits) /\ digits \in Seq(TextChars)
    BY <2>4, HexIsNumber
  <2> HIDE DEF digits, text
  <2>6. /\ text \in Seq(TextChars) /\ text # <<>> /\ Head(text) = "-" /\ Tail(text) = digits
    <3>1. <<"-">> \in Seq(TextChars) /\ <<"-">> # <<>>
      BY <1>2
    <3>2. text \in Seq(TextChars) /\ text # <<>>
      BY <2>3, <2>5, <3>1
    <3>3. Head(text) = "-" /\ Tail(text) = digits
      BY <2>3, <2>5, <3>1, ConcatSimplifications, HeadTailProperties
    <3> QED BY <3>2, <3>3
  <2>7. Message!SignedIn(text) = n
    <3>1. Message!SignedIn(text) = - Message!NumberIn(digits, 10)
      BY <2>6, Zenon DEF Message!SignedIn
    <3> QED BY <1>1, <2>4, <3>1
  <2> QED BY <2>5, <2>6, <2>7 DEF text
<1>5. CASE n = Message!LongMin
  <2>1. Message!AsLong(-n) = Message!LongMin
    <3>1. -n - Message!LongMin = Message!Modulus
      BY <1>1, <1>5
    <3>2. Message!Modulus % Message!Modulus = 0
      BY <1>1
    <3> QED BY <1>1, <3>1, <3>2 DEF Message!AsLong
  <2>2. n < 0 /\ Message!LongMin < 0
    BY <1>1, <1>5
  <2>3. text = <<"-">> \o Message!Sprint(Message!LongMin, 10)
    BY <2>1, <2>2 DEF Message!SprintSigned
  <2>4. Message!Sprint(Message!LongMin, 10)
          = <<Message!DigitChar(- ((- Message!LongMin) % 10))>>
    BY <2>2, Zenon DEF Message!Sprint
  <2>5. Message!DigitChar(- ((- Message!LongMin) % 10)) \in {"?", "0"}
    <3> DEFINE r == (- Message!LongMin) % 10
    <3>1. r \in 0 .. 9
      BY <1>1
    <3> HIDE DEF r
    <3>2. CASE r = 0
      <4>1. ~ (-r < 0) /\ -r + 1 = 1
        BY <3>1, <3>2
      <4>2. Message!DigitChar(-r) = Message!Char[1]
        BY <4>1, Zenon DEF Message!DigitChar
      <4> QED BY <4>2 DEF Message!Char, r
    <3>3. CASE r # 0
      <4>1. -r < 0
        BY <3>1, <3>3
      <4> QED BY <4>1 DEF Message!DigitChar, r
    <3> QED BY <3>2, <3>3
  <2>6. text \in Seq(TextChars)
    <3>1. Message!DigitChar(- ((- Message!LongMin) % 10)) \in TextChars
      BY <1>2, <2>5
    <3> QED BY <1>2, <2>3, <2>4, <3>1
  <2> QED BY <1>5, <2>6
<1>6. n >= 0 \/ (n < 0 /\ n # Message!LongMin) \/ n = Message!LongMin
  BY <1>1
<1> QED BY <1>3, <1>4, <1>5, <1>6

LEMMA ConvertedReads ==
  ASSUME MessagesReal, NEW c \in Elements, NEW value \in Message!LongMin .. LONG_MAX
  PROVE  LET text == Message!Converted(c, value)
         IN  text \in Seq(TextChars) /\ ReadsAs(c, value, text)
<1> DEFINE text == Message!Converted(c, value)
<1>1. Message!AsAddr(value) \in 0 .. Message!Modulus - 1 /\ LONG_MAX \in Nat
  <2>1. value \in Int
    BY DEF MessagesReal, Message!LongMin
  <2> QED BY <2>1, AsAddrIn DEF MessagesReal
<1>2. CASE c \in {"%a", "%x"}
  <2>1. text = Message!Sprint(Message!AsAddr(value), 16)
    BY <1>2, Zenon DEF Message!Converted
  <2>2. text \in Seq(Hex) /\ text # <<>> /\ Message!NumberIn(text, 16) = Message!AsAddr(value)
    BY <1>1, <2>1, SprintReads
  <2>3. ~ (c = "%d") /\ c \notin {"%i", "%l"}
    BY <1>2
  <2> HIDE DEF text
  <2> QED BY <2>2, <2>3, HexIsNumber, Zenon DEF ReadsAs, text
<1>3. CASE c = "%d"
  <2>1. text = Message!Sprint(Message!AsAddr(value), 10)
    BY <1>3 DEF Message!Converted
  <2>2. text \in Seq(Hex) /\ text # <<>> /\ Message!NumberIn(text, 10) = Message!AsAddr(value)
    BY <1>1, <2>1, SprintReads
  <2>3. c \notin {"%a", "%x"} /\ c \notin {"%i", "%l"}
    BY <1>3
  <2> HIDE DEF text
  <2> QED BY <2>2, <2>3, HexIsNumber, Zenon DEF ReadsAs, text
<1>4. CASE c \in {"%i", "%l"}
  <2>1. text = Message!SprintSigned(value)
    BY <1>4 DEF Message!Converted
  <2>2. /\ text \in Seq(TextChars)
        /\ value # Message!LongMin =>
             /\ text # <<>>
             /\ Message!IsNumber(IF Head(text) = "-" THEN Tail(text) ELSE text)
             /\ Message!SignedIn(text) = value
    BY <2>1, SignedReads, Zenon
  <2>3. c \notin {"%a", "%x"} /\ c # "%d"
    BY <1>4
  <2> HIDE DEF text
  <2> QED BY <2>2, <2>3, Zenon DEF ReadsAs, text
<1>5. CASE c \notin {"%a", "%x", "%d", "%i", "%l"}
  <2>1. ReadsAs(c, value, text)
    BY <1>5, Zenon DEF ReadsAs
  <2>2. c \in TextChars /\ {"c", "N", "U", "L", "s", "t", "r"} \subseteq TextChars
    BY DEF TextChars
  <2>3. text \in {<<"c">>, <<"N", "U", "L", "L">>, <<"s", "t", "r">>, <<>>, <<c>>}
    BY <1>5 DEF Message!Converted
  <2>4. text \in Seq(TextChars)
    <3> HIDE DEF text
    <3>1. CASE text = <<"c">>
      BY <2>2, <3>1
    <3>2. CASE text = <<"N", "U", "L", "L">>
      BY <2>2, <3>2
    <3>3. CASE text = <<"s", "t", "r">>
      BY <2>2, <3>3
    <3>4. CASE text = <<>>
      BY <3>4
    <3>5. CASE text = <<c>>
      BY <2>2, <3>5
    <3> QED BY <2>3, <3>1, <3>2, <3>3, <3>4, <3>5
  <2> QED BY <2>1, <2>4
<1> QED BY <1>2, <1>3, <1>4, <1>5

-----------------------------------------------------------------------------
(* The arguments the first k elements of a pattern take.                    *)
Taking(p, k) == {i \in 1 .. k : Message!TakesArgument(p[i])}

LEMMA ArgumentsCounted ==
  ASSUME NEW p
  PROVE  Message!ArgumentsIn(p) = Cardinality(Taking(p, Len(p)))
BY DEF Message!ArgumentsIn, Message!Cardinality, Cardinality, Taking

LEMMA TakingFacts ==
  ASSUME NEW p \in Seq(Elements), NEW k \in 1 .. Len(p)
  PROVE  /\ Cardinality(Taking(p, 0)) = 0
         /\ Cardinality(Taking(p, k - 1)) \in Nat
         /\ Cardinality(Taking(p, k)) = Cardinality(Taking(p, k - 1))
                                        + (IF Message!TakesArgument(p[k]) THEN 1 ELSE 0)
         /\ Cardinality(Taking(p, k)) <= Message!ArgumentsIn(p)
<1>1. Taking(p, 0) = {}
  BY DEF Taking
<1>2. /\ Taking(p, k - 1) \subseteq Taking(p, k)
      /\ Taking(p, k) \subseteq Taking(p, Len(p)) /\ Taking(p, Len(p)) \subseteq 1 .. Len(p)
      /\ k \notin Taking(p, k - 1)
  BY DEF Taking
<1>3. IsFiniteSet(1 .. Len(p))
  <2>1. 1 \in Int /\ Len(p) \in Int
    OBVIOUS
  <2> QED BY <2>1, FS_Interval
<1>4. /\ IsFiniteSet(Taking(p, Len(p))) /\ IsFiniteSet(Taking(p, k))
      /\ IsFiniteSet(Taking(p, k - 1))
  <2>1. IsFiniteSet(Taking(p, Len(p)))
    BY <1>2, <1>3, FS_Subset
  <2>2. IsFiniteSet(Taking(p, k))
    BY <1>2, <2>1, FS_Subset
  <2>3. IsFiniteSet(Taking(p, k - 1))
    BY <1>2, <2>2, FS_Subset
  <2> QED BY <2>1, <2>2, <2>3
<1>5. Cardinality(Taking(p, k)) <= Message!ArgumentsIn(p)
  <2>1. Message!ArgumentsIn(p) = Cardinality(Taking(p, Len(p)))
    BY ArgumentsCounted
  <2> QED BY <1>2, <1>4, <2>1, FS_Subset
<1>6. Cardinality(Taking(p, k - 1)) \in Nat
  BY <1>4, FS_CardinalityType
<1>7. CASE Message!TakesArgument(p[k])
  <2>1. Taking(p, k) = Taking(p, k - 1) \cup {k}
    BY <1>7 DEF Taking
  <2>2. Cardinality(Taking(p, k)) = Cardinality(Taking(p, k - 1)) + 1
    BY <1>2, <1>4, <2>1, FS_AddElement
  <2> QED BY <1>1, <1>5, <1>6, <1>7, <2>2, FS_EmptySet
<1>8. CASE ~ Message!TakesArgument(p[k])
  <2>1. \A i \in 1 .. k : i = k \/ i \in 1 .. k - 1
    OBVIOUS
  <2>2. Taking(p, k) = Taking(p, k - 1)
    BY <1>8, <2>1 DEF Taking
  <2>3. (IF Message!TakesArgument(p[k]) THEN 1 ELSE 0) = 0
    BY <1>8
  <2>4. Cardinality(Taking(p, 0)) = 0
    BY <1>1, FS_EmptySet
  <2>5. Cardinality(Taking(p, k)) = Cardinality(Taking(p, k - 1)) + 0
    BY <1>6, <2>2
  <2> QED BY <1>5, <1>6, <2>3, <2>4, <2>5
<1> QED BY <1>7, <1>8

LEMMA ArgumentsNat ==
  ASSUME NEW p \in Seq(Elements)
  PROVE  Message!ArgumentsIn(p) \in Nat
<1>1. IsFiniteSet(1 .. Len(p))
  <2>1. 1 \in Int /\ Len(p) \in Int
    OBVIOUS
  <2> QED BY <2>1, FS_Interval
<1>2. IsFiniteSet(Taking(p, Len(p)))
  <2>1. Taking(p, Len(p)) \subseteq 1 .. Len(p)
    BY DEF Taking
  <2> QED BY <1>1, <2>1, FS_Subset
<1> QED BY <1>2, FS_CardinalityType, ArgumentsCounted

Pieces == [c : Elements, value : Message!LongMin .. LONG_MAX, first : Nat \ {0}, last : Nat]

PrintType ==
  /\ msg.pattern \in Seq(Elements)
  /\ msg.args \in [1 .. Message!ArgumentsIn(msg.pattern) -> Numbers]
  /\ pos \in 1 .. Len(msg.pattern) + 1
  /\ nextArg = 1 + Cardinality(Taking(msg.pattern, pos - 1))
  /\ buffer \in Seq(TextChars) /\ len = Len(buffer)
  /\ pieces \in Seq(Pieces)

(* Every piece reads as its argument, and the pieces lie side by side.      *)
PiecesRead ==
  /\ \A i \in 1 .. Len(pieces) :
       /\ pieces[i].first <= pieces[i].last + 1
       /\ pieces[i].last <= Len(buffer)
       /\ ReadsAs(pieces[i].c, pieces[i].value,
                  SubSeq(buffer, pieces[i].first, pieces[i].last))
       /\ i < Len(pieces) => pieces[i + 1].first = pieces[i].last + 1
  /\ printStatus = "format" /\ pieces # <<>> => pieces[Len(pieces)].last = Len(buffer)

Prefixed ==
  msg.fn # "DUMA_Print" =>
    /\ buffer # <<>> /\ buffer[1] \in {"Aborting", "Exiting"}
    /\ printStatus # "format" => buffer[Len(buffer)] = "\n"

Complaints ==
  printStatus \in {"format", "print"} =>
    \A f \in DOMAIN sinks :
      /\ sinks[f] \in Seq(TextChars)
      /\ \A j \in 1 .. Len(sinks[f]) : sinks[f][j] = "bad"
      /\ flags[f] # "on" => sinks[f] = <<>>

PrintInv == PrintType /\ PiecesRead /\ Prefixed /\ Complaints /\ Message!SaidBeforeEnd

LEMMA PrintInit ==
  ASSUME MessagesReal, Message!Init
  PROVE  PrintInv
<1>0. PICK p \in Patterns, fn \in {"DUMA_Print", "DUMA_Abort", "DUMA_Exit"} :
        \E a \in [1 .. Message!ArgumentsIn(p) -> Numbers] :
          /\ msg = [pattern |-> p, args |-> a, fn |-> fn]
          /\ buffer = Message!Prefix(fn)
          /\ len = Len(Message!Prefix(fn))
  BY Zenon DEF Message!Init
<1>1. PICK a \in [1 .. Message!ArgumentsIn(p) -> Numbers] :
        /\ msg = [pattern |-> p, args |-> a, fn |-> fn]
        /\ buffer = Message!Prefix(fn)
        /\ len = Len(Message!Prefix(fn))
  BY <1>0, Zenon
<1>2. /\ pos = 1 /\ nextArg = 1 /\ pieces = <<>> /\ sinks = Message!NoSinks
      /\ printStatus = "format"
  BY DEF Message!Init
<1>3. /\ buffer \in Seq(TextChars)
      /\ fn # "DUMA_Print" => buffer # <<>> /\ buffer[1] \in {"Aborting", "Exiting"}
  <2>1. {"Aborting", "Exiting"} \subseteq TextChars
    BY DEF TextChars
  <2>2. CASE fn = "DUMA_Print"
    BY <1>1, <2>2 DEF Message!Prefix
  <2>3. CASE fn = "DUMA_Abort"
    BY <1>1, <2>1, <2>3 DEF Message!Prefix
  <2>4. CASE fn = "DUMA_Exit"
    BY <1>1, <2>1, <2>4 DEF Message!Prefix
  <2> QED BY <2>2, <2>3, <2>4
<1>4. msg.pattern = p /\ msg.args = a /\ msg.fn = fn /\ p \in Seq(Elements)
  BY <1>1 DEF MessagesReal
<1>5. PrintType
  <2>1. Taking(p, 0) = {}
    BY DEF Taking
  <2>2. pos \in 1 .. Len(p) + 1 /\ pos - 1 = 0
    BY <1>2, <1>4
  <2>3. nextArg = 1 + Cardinality(Taking(p, pos - 1))
    <3>1. Taking(p, pos - 1) = {} /\ Cardinality({}) = 0
      BY <2>1, <2>2, FS_EmptySet
    <3>2. Cardinality(Taking(p, pos - 1)) = 0
      BY <3>1
    <3>3. 1 = 1 + 0
      OBVIOUS
    <3> QED BY <1>2, <3>2, <3>3, Zenon
  <2>4. pieces \in Seq(Pieces)
    BY <1>2
  <2> QED BY <1>1, <1>3, <1>4, <2>2, <2>3, <2>4 DEF PrintType
<1>6. PiecesRead
  BY <1>2 DEF PiecesRead
<1>7. Prefixed
  BY <1>2, <1>3, <1>4 DEF Prefixed
<1>8. Complaints
  <2>1. \A f \in DOMAIN sinks : sinks[f] = <<>>
    BY <1>2 DEF Message!NoSinks
  <2>2. <<>> \in Seq(TextChars) /\ \A j \in 1 .. Len(<<>>) : FALSE
    OBVIOUS
  <2> QED BY <2>1, <2>2, Zenon DEF Complaints
<1>9. Message!SaidBeforeEnd
  BY <1>2 DEF Message!SaidBeforeEnd
<1> QED BY <1>5, <1>6, <1>7, <1>8, <1>9 DEF PrintInv

-----------------------------------------------------------------------------
(* What is appended to a text leaves its pieces as they are.                *)
LEMMA OldPiece ==
  ASSUME NEW b \in Seq(TextChars), NEW t \in Seq(TextChars),
         NEW first \in Nat \ {0}, NEW last \in Nat, first <= last + 1, last <= Len(b)
  PROVE  SubSeq(b \o t, first, last) = SubSeq(b, first, last)
<1>1. CASE first <= last
  <2>1. first \in 1 .. Len(b) /\ last \in 1 .. Len(b)
    BY <1>1
  <2> QED BY <2>1, SubSeqOfConcat1
<1>2. CASE last < first
  BY <1>2, SubSeqEmpty
<1> QED BY <1>1, <1>2

LEMMA NewPiece ==
  ASSUME NEW b \in Seq(TextChars), NEW t \in Seq(TextChars)
  PROVE  SubSeq(b \o t, Len(b) + 1, Len(b) + Len(t)) = t
<1>1. Len(b) \in Nat /\ Len(t) \in Nat
  OBVIOUS
<1>2. CASE t = <<>>
  <2>1. Len(t) = 0
    BY <1>2
  <2>2. Len(b) + Len(t) < Len(b) + 1
    BY <1>1, <2>1
  <2>3. Len(b) + 1 \in Int /\ Len(b) + Len(t) \in Int
    BY <1>1
  <2> QED BY <1>2, <2>2, <2>3, SubSeqEmpty
<1>3. CASE t # <<>>
  <2>1. Len(t) >= 1
    BY <1>1, <1>3
  <2>2. /\ Len(b) + 1 \in Len(b) + 1 .. Len(b) + Len(t)
        /\ Len(b) + Len(t) \in Len(b) + 1 .. Len(b) + Len(t)
    BY <1>1, <2>1
  <2>3. SubSeq(b \o t, Len(b) + 1, Len(b) + Len(t))
          = SubSeq(t, Len(b) + 1 - Len(b), Len(b) + Len(t) - Len(b))
    BY <2>2, SubSeqOfConcat2
  <2>4. Len(b) + 1 - Len(b) = 1 /\ Len(b) + Len(t) - Len(b) = Len(t)
    BY <1>1
  <2>5. SubSeq(t, 1, Len(t)) = t
    BY SubSeqFull
  <2> QED BY <2>3, <2>4, <2>5
<1> QED BY <1>2, <1>3

LEMMA ElementStep ==
  ASSUME MessagesReal, PrintInv, Message!FormatElement
  PROVE  PrintInv'
<1> DEFINE c == msg.pattern[pos]
           value == IF Message!TakesArgument(c) THEN msg.args[nextArg] ELSE 0
           text == Message!Converted(c, value)
           piece == [c |-> c, value |-> value, first |-> len + 1,
                     last |-> len + Len(text)]
<1>1. /\ printStatus = "format" /\ pos <= Len(msg.pattern)
      /\ buffer' = SubSeq(buffer, 1, len) \o text
      /\ len' = len + Len(text)
      /\ pieces' = Append(pieces, piece)
      /\ nextArg' = IF Message!TakesArgument(c) THEN nextArg + 1 ELSE nextArg
      /\ sinks' = IF c = "%?" THEN Message!Written(<<"bad">>) ELSE sinks
      /\ pos' = pos + 1
      /\ UNCHANGED <<msg, flags, printStatus>>
  BY DEF Message!FormatElement
<1>2. /\ msg.pattern \in Seq(Elements)
      /\ msg.args \in [1 .. Message!ArgumentsIn(msg.pattern) -> Numbers]
      /\ pos \in 1 .. Len(msg.pattern)
      /\ nextArg = 1 + Cardinality(Taking(msg.pattern, pos - 1))
      /\ buffer \in Seq(TextChars) /\ len = Len(buffer) /\ len \in Nat
      /\ pieces \in Seq(Pieces)
  BY <1>1 DEF PrintInv, PrintType
<1>3. /\ Cardinality(Taking(msg.pattern, pos - 1)) \in Nat
      /\ Cardinality(Taking(msg.pattern, pos)) = Cardinality(Taking(msg.pattern, pos - 1))
                                     + (IF Message!TakesArgument(c) THEN 1 ELSE 0)
      /\ Cardinality(Taking(msg.pattern, pos)) <= Message!ArgumentsIn(msg.pattern)
  BY <1>2, TakingFacts
<1>4. c \in Elements /\ value \in Message!LongMin .. LONG_MAX
  <2>1. c \in Elements
    BY <1>2
  <2>2. /\ LONG_MAX \in Nat /\ Message!LongMin = - LONG_MAX - 1
        /\ Numbers \subseteq Message!LongMin .. LONG_MAX
    BY DEF MessagesReal, Message!LongMin
  <2> HIDE DEF c
  <2>3. CASE Message!TakesArgument(c)
    <3>2. Cardinality(Taking(msg.pattern, pos)) = nextArg
      BY <1>2, <1>3, <2>3
    <3>3. nextArg \in Nat /\ nextArg >= 1 /\ nextArg <= Message!ArgumentsIn(msg.pattern)
      BY <1>2, <1>3, <3>2
    <3>4. Message!ArgumentsIn(msg.pattern) \in Nat
      BY <1>2, ArgumentsNat
    <3>5. nextArg \in 1 .. Message!ArgumentsIn(msg.pattern)
      BY <3>3, <3>4
    <3>6. msg.args[nextArg] \in Numbers
      BY <1>2, <3>5
    <3> QED BY <2>1, <2>2, <2>3, <3>6
  <2>4. CASE ~ Message!TakesArgument(c)
    <3>1. value = 0
      BY <2>4
    <3> QED BY <2>1, <2>2, <3>1
  <2> QED BY <2>3, <2>4
<1> HIDE DEF c, value
<1>5. text \in Seq(TextChars) /\ ReadsAs(c, value, text)
  BY <1>4, ConvertedReads
<1>6. buffer' = buffer \o text
  <2>1. SubSeq(buffer, 1, len) = buffer
    BY <1>2, SubSeqFull
  <2> QED BY <1>1, <2>1
<1> HIDE DEF text
<1>7. Len(text) \in Nat
  BY <1>5
<1>8. buffer' \in Seq(TextChars) /\ len' = Len(buffer') /\ Len(buffer') = len + Len(text)
  BY <1>1, <1>2, <1>5, <1>6
<1>9. piece \in Pieces
  BY <1>2, <1>4, <1>7 DEF Pieces
<1>10. PrintType'
  <2>1. nextArg' = 1 + Cardinality(Taking(msg.pattern, pos))
    BY <1>1, <1>2, <1>3
  <2>2. pos' - 1 = pos /\ pos' \in 1 .. Len(msg.pattern) + 1
    <3>1. Len(msg.pattern) \in Nat /\ pos \in 1 .. Len(msg.pattern) /\ pos' = pos + 1
      BY <1>1, <1>2
    <3> QED BY <3>1
  <2>3. pieces' \in Seq(Pieces)
    <3> HIDE DEF piece
    <3> QED BY <1>1, <1>2, <1>9
  <2> QED BY <1>1, <1>2, <1>8, <2>1, <2>2, <2>3 DEF PrintType
<1>11. PiecesRead'
  <2>1. /\ Len(pieces) \in Nat /\ Len(pieces') = Len(pieces) + 1
        /\ \A i \in 1 .. Len(pieces) : pieces'[i] = pieces[i]
        /\ pieces'[Len(pieces) + 1] = piece
    <3> HIDE DEF piece
    <3> QED BY <1>1, <1>2, <1>9
  <2>2. /\ piece.c = c /\ piece.value = value /\ piece.first = len + 1
        /\ piece.last = len + Len(text)
    OBVIOUS
  <2> HIDE DEF piece
  <2>3. PICK N \in Nat : N = Len(pieces)
    BY <2>1
  <2>4. ASSUME NEW i \in 1 .. N + 1
        PROVE  /\ pieces'[i].first <= pieces'[i].last + 1
               /\ pieces'[i].last <= Len(buffer')
               /\ ReadsAs(pieces'[i].c, pieces'[i].value,
                          SubSeq(buffer', pieces'[i].first, pieces'[i].last))
               /\ i < N + 1 => pieces'[i + 1].first = pieces'[i].last + 1
    <3>1. CASE i = N + 1
      <4>1. pieces'[i] = piece
        BY <2>1, <2>3, <3>1
      <4>2. SubSeq(buffer', piece.first, piece.last) = text
        BY <1>2, <1>5, <1>6, <2>2, NewPiece
      <4>3. piece.first <= piece.last + 1 /\ piece.last <= Len(buffer')
        BY <1>2, <1>7, <1>8, <2>2
      <4>4. ~ (i < N + 1)
        BY <3>1
      <4> QED BY <1>5, <2>2, <4>1, <4>2, <4>3, <4>4
    <3>2. CASE i \in 1 .. N
      <4>1. pieces'[i] = pieces[i] /\ pieces[i] \in Pieces
        BY <1>2, <2>1, <2>3, <3>2
      <4>2. /\ pieces[i].first <= pieces[i].last + 1
            /\ pieces[i].last <= Len(buffer)
            /\ ReadsAs(pieces[i].c, pieces[i].value,
                       SubSeq(buffer, pieces[i].first, pieces[i].last))
            /\ i < N => pieces[i + 1].first = pieces[i].last + 1
        BY <2>3, <3>2 DEF PrintInv, PiecesRead
      <4>3. pieces[i].first \in Nat \ {0} /\ pieces[i].last \in Nat
        BY <4>1 DEF Pieces
      <4>4. SubSeq(buffer', pieces[i].first, pieces[i].last)
              = SubSeq(buffer, pieces[i].first, pieces[i].last)
        BY <1>2, <1>5, <1>6, <4>2, <4>3, OldPiece
      <4>5. pieces[i].last <= Len(buffer')
        BY <1>2, <1>7, <1>8, <4>2, <4>3
      <4>6. pieces'[i + 1].first = pieces'[i].last + 1
        <5>1. CASE i < N
          <6>1. i + 1 \in 1 .. N
            BY <3>2, <5>1
          <6> QED BY <2>1, <2>3, <4>1, <4>2, <5>1, <6>1
        <5>2. CASE i = N
          <6>1. pieces # <<>> /\ pieces[N].last = Len(buffer)
            BY <1>1, <2>3, <3>2 DEF PrintInv, PiecesRead
          <6> QED BY <1>2, <2>1, <2>2, <2>3, <4>1, <5>2, <6>1
        <5> QED BY <3>2, <5>1, <5>2
      <4> QED BY <4>1, <4>2, <4>4, <4>5, <4>6
    <3> QED BY <3>1, <3>2
  <2>5. pieces'[Len(pieces')].last = Len(buffer')
    BY <1>8, <2>1, <2>2
  <2>6. Len(pieces') = N + 1
    BY <2>1, <2>3
  <2> QED BY <2>4, <2>5, <2>6, Zenon DEF PiecesRead
<1>12. Prefixed'
  <2>1. buffer # <<>> => buffer' # <<>> /\ buffer'[1] = buffer[1]
    BY <1>2, <1>5, <1>6
  <2> QED BY <1>1, <2>1 DEF PrintInv, Prefixed
<1>13. Complaints'
  <2> SUFFICES ASSUME NEW f \in DOMAIN sinks'
               PROVE  /\ sinks'[f] \in Seq(TextChars)
                      /\ \A j \in 1 .. Len(sinks'[f]) : sinks'[f][j] = "bad"
                      /\ flags'[f] # "on" => sinks'[f] = <<>>
    BY Zenon DEF Complaints
  <2>1. f \in DOMAIN sinks /\ sinks'[f] \in {sinks[f], sinks[f] \o <<"bad">>}
        /\ (flags[f] # "on" => sinks'[f] = sinks[f])
    BY <1>1 DEF Message!Written
  <2>2. /\ sinks[f] \in Seq(TextChars)
        /\ \A j \in 1 .. Len(sinks[f]) : sinks[f][j] = "bad"
        /\ flags[f] # "on" => sinks[f] = <<>>
    BY <1>1, <2>1 DEF PrintInv, Complaints
  <2>3. "bad" \in TextChars
    BY DEF TextChars
  <2>4. CASE sinks'[f] = sinks[f]
    BY <1>1, <2>2, <2>4
  <2>5. CASE sinks'[f] = sinks[f] \o <<"bad">>
    <3> DEFINE old == sinks[f]
               new == sinks[f] \o <<"bad">>
    <3>1. new \in Seq(TextChars) /\ \A j \in 1 .. Len(new) : new[j] = "bad"
      BY <2>2, <2>3
    <3>2. flags'[f] # "on" => sinks'[f] = <<>>
      BY <1>1, <2>1, <2>2
    <3> HIDE DEF new
    <3> QED BY <2>5, <3>1, <3>2 DEF new
  <2> QED BY <2>1, <2>4, <2>5
<1>14. Message!SaidBeforeEnd'
  BY <1>1 DEF Message!SaidBeforeEnd
<1> QED BY <1>10, <1>11, <1>12, <1>13, <1>14 DEF PrintInv

LEMMA PatternEnds ==
  ASSUME PrintInv, Message!EndPattern
  PROVE  PrintInv'
<1> DEFINE newline == IF msg.fn = "DUMA_Print" THEN <<>> ELSE <<"\n">>
<1>1. /\ printStatus = "format" /\ printStatus' = "print"
      /\ buffer' = SubSeq(buffer, 1, len) \o newline /\ len' = Len(buffer')
      /\ UNCHANGED <<msg, pos, nextArg, pieces, sinks, flags>>
  BY DEF Message!EndPattern
<1>2. /\ buffer \in Seq(TextChars) /\ len = Len(buffer) /\ Len(buffer) \in Nat
      /\ pieces \in Seq(Pieces)
  BY DEF PrintInv, PrintType
<1>3. newline \in Seq(TextChars) /\ Len(newline) \in Nat
  <2>1. "\n" \in TextChars
    BY DEF TextChars
  <2> QED BY <2>1
<1>4. buffer' = buffer \o newline
  <2>1. SubSeq(buffer, 1, len) = buffer
    BY <1>2, SubSeqFull
  <2> QED BY <1>1, <2>1
<1>5. msg.fn # "DUMA_Print" => newline = <<"\n">>
  OBVIOUS
<1> HIDE DEF newline
<1>6. buffer' \in Seq(TextChars) /\ Len(buffer') = Len(buffer) + Len(newline)
  BY <1>2, <1>3, <1>4
<1>7. PrintType'
  BY <1>1, <1>6 DEF PrintInv, PrintType
<1>8. PiecesRead'
  <2>1. ASSUME NEW i \in 1 .. Len(pieces)
        PROVE  /\ pieces[i].first <= pieces[i].last + 1
               /\ pieces[i].last <= Len(buffer')
               /\ ReadsAs(pieces[i].c, pieces[i].value,
                          SubSeq(buffer', pieces[i].first, pieces[i].last))
               /\ i < Len(pieces) => pieces[i + 1].first = pieces[i].last + 1
    <3>1. /\ pieces[i].first <= pieces[i].last + 1
          /\ pieces[i].last <= Len(buffer)
          /\ ReadsAs(pieces[i].c, pieces[i].value,
                     SubSeq(buffer, pieces[i].first, pieces[i].last))
          /\ i < Len(pieces) => pieces[i + 1].first = pieces[i].last + 1
      BY <2>1 DEF PrintInv, PiecesRead
    <3>2. pieces[i] \in Pieces
      BY <1>2, <2>1
    <3>3. pieces[i].first \in Nat \ {0} /\ pieces[i].last \in Nat
      BY <3>2 DEF Pieces
    <3>4. SubSeq(buffer', pieces[i].first, pieces[i].last)
            = SubSeq(buffer, pieces[i].first, pieces[i].last)
      BY <1>2, <1>3, <1>4, <3>1, <3>3, OldPiece
    <3>5. pieces[i].last <= Len(buffer')
      BY <1>2, <1>3, <1>6, <3>1, <3>3
    <3> QED BY <3>1, <3>4, <3>5
  <2>2. printStatus' # "format" /\ pieces' = pieces
    BY <1>1
  <2> QED BY <2>1, <2>2, Zenon DEF PiecesRead
<1>9. Prefixed'
  <2>1. CASE msg.fn = "DUMA_Print"
    BY <1>1, <2>1 DEF Prefixed
  <2>2. CASE msg.fn # "DUMA_Print"
    <3>1. buffer # <<>> /\ buffer[1] \in {"Aborting", "Exiting"}
      BY <2>2 DEF PrintInv, Prefixed
    <3>2. buffer' = buffer \o <<"\n">>
      BY <1>4, <1>5, <2>2
    <3>3. buffer' # <<>> /\ buffer'[1] = buffer[1] /\ buffer'[Len(buffer')] = "\n"
      BY <1>2, <3>1, <3>2
    <3> QED BY <3>1, <3>3 DEF Prefixed
  <2> QED BY <2>1, <2>2
<1>10. Complaints' /\ Message!SaidBeforeEnd'
  BY <1>1 DEF PrintInv, Complaints, Message!SaidBeforeEnd
<1> QED BY <1>7, <1>8, <1>9, <1>10 DEF PrintInv

(* The whole text goes behind what a sink already has.                      *)
LEMMA MessageWritten ==
  ASSUME PrintInv, Message!WriteMessage
  PROVE  PrintInv'
<1>1. /\ printStatus = "print"
      /\ sinks' = Message!Written(SubSeq(buffer, 1, len))
      /\ printStatus' = IF msg.fn = "DUMA_Print" THEN "returned" ELSE "ended"
      /\ UNCHANGED <<msg, pos, nextArg, buffer, len, pieces, flags>>
  BY DEF Message!WriteMessage
<1>2. buffer \in Seq(TextChars) /\ len = Len(buffer) /\ Len(buffer) \in Nat
  BY DEF PrintInv, PrintType
<1>3. sinks' = Message!Written(buffer)
  <2>1. SubSeq(buffer, 1, len) = buffer
    BY <1>2, SubSeqFull
  <2> QED BY <1>1, <2>1
<1>4. printStatus' \notin {"format", "print"}
  BY <1>1
<1>5. PrintType'
  BY <1>1 DEF PrintInv, PrintType
<1>6. PiecesRead'
  BY <1>1, <1>4 DEF PrintInv, PiecesRead
<1>7. Prefixed'
  BY <1>1 DEF PrintInv, Prefixed
<1>8. Complaints'
  BY <1>4 DEF Complaints
<1>9. Message!SaidBeforeEnd'
  <2> SUFFICES ASSUME printStatus' = "ended", NEW f \in DOMAIN sinks'
               PROVE  IF flags'[f] = "on"
                        THEN \E i \in 0 .. Len(sinks'[f]) :
                               /\ SubSeq(sinks'[f], i + 1, Len(sinks'[f])) = buffer'
                               /\ \A j \in 1 .. i : sinks'[f][j] = "bad"
                               /\ Head(buffer') \in {"Aborting", "Exiting"}
                               /\ Message!Last(buffer') = "\n"
                        ELSE sinks'[f] = <<>>
    BY Zenon DEF Message!SaidBeforeEnd
  <2>1. /\ buffer # <<>> /\ buffer[1] \in {"Aborting", "Exiting"}
        /\ buffer[Len(buffer)] = "\n"
    BY <1>1 DEF PrintInv, Prefixed
  <2>2. Head(buffer) \in {"Aborting", "Exiting"} /\ Message!Last(buffer) = "\n"
    BY <1>2, <2>1 DEF Message!Last
  <2>3. f \in DOMAIN sinks
        /\ sinks'[f] = IF flags[f] = "on" THEN sinks[f] \o buffer ELSE sinks[f]
    BY <1>3 DEF Message!Written
  <2>4. /\ sinks[f] \in Seq(TextChars)
        /\ \A j \in 1 .. Len(sinks[f]) : sinks[f][j] = "bad"
        /\ flags[f] # "on" => sinks[f] = <<>>
    BY <1>1, <2>3 DEF PrintInv, Complaints
  <2>5. CASE flags[f] # "on"
    BY <1>1, <2>3, <2>4, <2>5
  <2>6. CASE flags[f] = "on"
    <3> DEFINE new == sinks[f] \o buffer
    <3>1. Len(sinks[f]) \in Nat /\ Len(new) = Len(sinks[f]) + Len(buffer)
      BY <1>2, <2>4
    <3>2. Len(sinks[f]) \in 0 .. Len(new)
      BY <1>2, <3>1
    <3>3. SubSeq(new, Len(sinks[f]) + 1, Len(new)) = buffer
      BY <1>2, <2>4, <3>1, NewPiece
    <3>4. \A j \in 1 .. Len(sinks[f]) : new[j] = "bad"
      BY <1>2, <2>4
    <3> HIDE DEF new
    <3>5. \E i \in 0 .. Len(new) :
            /\ SubSeq(new, i + 1, Len(new)) = buffer
            /\ \A j \in 1 .. i : new[j] = "bad"
            /\ Head(buffer) \in {"Aborting", "Exiting"}
            /\ Message!Last(buffer) = "\n"
      BY <2>2, <3>2, <3>3, <3>4, Zenon
    <3>6. sinks'[f] = new
      BY <2>3, <2>6 DEF new
    <3>7. flags'[f] = "on" /\ buffer' = buffer
      BY <1>1, <2>6
    <3>8. Head(buffer') = Head(buffer) /\ Message!Last(buffer') = Message!Last(buffer)
      BY <3>7 DEF Message!Last
    <3> QED BY <3>5, <3>6, <3>7, <3>8
  <2> QED BY <2>5, <2>6
<1> QED BY <1>5, <1>6, <1>7, <1>8, <1>9 DEF PrintInv

LEMMA PrinterStep ==
  ASSUME MessagesReal, PrintInv, [Message!Next]_(Message!vars)
  PROVE  PrintInv'
<1>1. CASE UNCHANGED Message!vars
  <2>1. /\ msg' = msg /\ pos' = pos /\ nextArg' = nextArg /\ buffer' = buffer /\ len' = len
        /\ pieces' = pieces /\ sinks' = sinks /\ flags' = flags /\ printStatus' = printStatus
    BY <1>1 DEF Message!vars
  <2> QED BY <2>1 DEF PrintInv, PrintType, PiecesRead, Prefixed, Complaints,
                      Message!SaidBeforeEnd
<1> QED BY <1>1, ElementStep, PatternEnds, MessageWritten DEF Message!Next

LEMMA MessageReads ==
  ASSUME PrintInv
  PROVE  Message!MessageIntact
<1>1. Message!ReadsBack
  BY DEF PrintInv, PiecesRead, ReadsAs, Message!ReadsBack
<1> QED BY <1>1 DEF PrintInv, Message!MessageIntact

(* A message that is not printed is empty.                                  *)
LEMMA MessageStart ==
  ASSUME MessagesReal, Init
  PROVE  PrintInv
<1>1. CASE part = "print"
  BY <1>1, PrintInit DEF Init
<1>2. CASE part # "print"
  <2>1. /\ msg = [pattern |-> <<>>, args |-> <<>>, fn |-> "DUMA_Print"]
        /\ pos = 1 /\ nextArg = 1 /\ buffer = <<>> /\ len = 0
        /\ pieces = <<>> /\ printStatus = "format"
        /\ sinks = [stdout |-> <<>>, stderr |-> <<>>, file |-> <<>>]
    BY <1>2 DEF Init
  <2>2. /\ msg.pattern = <<>> /\ msg.args = <<>> /\ msg.fn = "DUMA_Print"
        /\ <<>> \in Seq(Elements) /\ Len(<<>>) = 0
    BY <2>1
  <2>3. Taking(<<>>, 0) = {} /\ Cardinality({}) = 0
    BY FS_EmptySet DEF Taking
  <2>4. Message!ArgumentsIn(msg.pattern) = 0
    <3>1. Message!ArgumentsIn(<<>>) = Cardinality(Taking(<<>>, 0))
      BY <2>2, ArgumentsCounted
    <3> QED BY <2>2, <2>3, <3>1
  <2>5. PrintType
    <3>1. msg.args \in [1 .. Message!ArgumentsIn(msg.pattern) -> Numbers]
      <4>1. <<>> \in [1 .. 0 -> Numbers]
        OBVIOUS
      <4> QED BY <2>2, <2>4, <4>1
    <3>2. pos - 1 = 0 /\ pos \in 1 .. Len(msg.pattern) + 1
      BY <2>1, <2>2
    <3>3. nextArg = 1 + Cardinality(Taking(msg.pattern, pos - 1))
      <4>1. Cardinality(Taking(msg.pattern, pos - 1)) = 0
        BY <2>2, <2>3, <3>2
      <4> QED BY <2>1, <4>1
    <3>4. pieces \in Seq(Pieces) /\ buffer \in Seq(TextChars) /\ len = Len(buffer)
      BY <2>1
    <3> QED BY <2>2, <3>1, <3>2, <3>3, <3>4 DEF PrintType
  <2>6. PiecesRead
    BY <2>1 DEF PiecesRead
  <2>7. Prefixed /\ Message!SaidBeforeEnd
    BY <2>1, <2>2 DEF Prefixed, Message!SaidBeforeEnd
  <2>8. Complaints
    <3>1. \A f \in DOMAIN sinks : sinks[f] = <<>>
      BY <2>1
    <3>2. <<>> \in Seq(TextChars) /\ \A j \in 1 .. Len(<<>>) : FALSE
      OBVIOUS
    <3> QED BY <3>1, <3>2, Zenon DEF Complaints
  <2> QED BY <2>5, <2>6, <2>7, <2>8 DEF PrintInv
<1> QED BY <1>1, <1>2

LEMMA MessageRuns == Spec => [][Message!Next]_(Message!vars)
<1>1. [Next]_all => [Message!Next]_(Message!vars)
  <2>1. ASSUME UNCHANGED printVars PROVE UNCHANGED Message!vars
    BY <2>1 DEF printVars, Message!vars
  <2> QED BY <2>1, OneRuns
<1> QED BY <1>1, Parted, PTL

(* Every number in a message of DUMA reads back as the argument, no piece   *)
(* of it overwrites another one, and before DUMA_Abort() or DUMA_Exit()     *)
(* ends the process the whole message has gone to every enabled sink, for   *)
(* every pattern, every argument and every width of long.                   *)
THEOREM PartMessageIntact ==
  ASSUME MessagesReal
  PROVE  Spec => []MessageIntact
<1>1. Init => PrintInv
  BY MessageStart
<1>2. PrintInv /\ [Message!Next]_(Message!vars) => PrintInv'
  BY PrinterStep
<1>3. PrintInv => Message!MessageIntact
  BY MessageReads
<1> QED BY <1>1, <1>2, <1>3, MessageRuns, Parted, PTL DEF MessageIntact

=============================================================================
