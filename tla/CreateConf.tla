------------------------------ MODULE CreateConf ------------------------------
(***************************************************************************)
(* createconf (src/createconf.c), the program that measures the platform    *)
(* and writes duma_config.h, and what the preprocessor makes of that file   *)
(* in each kind of build.                                                   *)
(*                                                                          *)
(* main() halves the alignment and writes the whole file after every access *)
(* test that the process has survived: a CPU that insists on alignment ends *)
(* the process in the test of the first alignment that is too small.        *)
(*                                                                          *)
(* A platform is a record: the integer types in the order of sIntTypes with *)
(* their sizes, the sizes of void*, size_t and the floating point types,    *)
(* the alignment the CPU insists on for an object of each size, the address *)
(* of the local buffer, what malloc(0) returns, and whether the attribute   *)
(* constructor works.                                                       *)
(***************************************************************************)
EXTENDS Integers, Sequences, FiniteSetsExt

CONSTANTS
  Platforms,
  OptionSets    \* the sets of options createconf was compiled with

VARIABLES
  platform, options,
  phase,        \* "detect", "test", "write", "crashed" or "finished"
  alignment,
  file,         \* duma_config.h, or NoFile
  survived      \* ghost: the alignments whose test did not crash

vars == <<platform, options, phase, alignment, file, survived>>

NoFile == [alignment |-> 0, addr |-> 0, size |-> 0, strategy |-> 0,
           attr |-> FALSE, options |-> {}]

Init ==
  /\ platform \in Platforms
  /\ options \in OptionSets
  /\ phase = "detect"
  /\ alignment = 0
  /\ file = NoFile
  /\ survived = {}

(* addrIdx and sizeIdx: the first type that is not smaller; 0 if there is   *)
(* none (-1 in C).                                                          *)
TypeFor(size) ==
  LET fits == {i \in 1 .. Len(platform.ints) : platform.ints[i] >= size}
  IN  IF fits = {} THEN 0 ELSE Min(fits)

max_sizeof ==
  Max({platform.ints[i] : i \in 1 .. Len(platform.ints)} \cup platform.floats)

(* malloc(0) twice                                                          *)
malloc0strategy ==
  CASE platform.malloc0 = "null"     -> 1
    [] platform.malloc0 = "same"     -> 2
    [] platform.malloc0 = "distinct" -> 3

(* The part of main() before the loop.                                      *)
Detect ==
  /\ phase = "detect"
  /\ alignment' = max_sizeof
  /\ phase' = "test"
  /\ UNCHANGED <<platform, options, file, survived>>

(* An access of testAlignment() that the CPU refuses: the addresses in the  *)
(* first max_sizeof bytes of the buffer that are multiples of alignment,    *)
(* written as every type.                                                   *)
Traps ==
  \E addr \in platform.buffer .. platform.buffer + max_sizeof - 1 :
    /\ addr % alignment = 0
    /\ \E size \in DOMAIN platform.needs : addr % platform.needs[size] # 0

(* testAlignment().  Without a type for addresses it looks at               *)
(* sIntTypes[-1]: it may crash, or find no case and test nothing.           *)
TestAlignment ==
  /\ phase = "test"
  /\ \/ Traps /\ phase' = "crashed" /\ UNCHANGED survived
     \/ /\ ~ Traps /\ phase' = "write"
        /\ survived' = survived \cup {alignment}
     \/ /\ TypeFor(platform.voidp) = 0
        /\ phase' \in {"crashed", "write"}
        /\ UNCHANGED survived
  /\ UNCHANGED <<platform, options, alignment, file>>

(* Mutant: the loop ends at alignment 1.                                    *)
WriteFile_Late ==
  /\ phase = "write"
  /\ alignment' = alignment \div 2
  /\ phase' = IF alignment \div 2 > 0 THEN "test" ELSE "finished"
  /\ file' = [alignment |-> alignment \div 2,
              addr |-> TypeFor(platform.voidp),
              size |-> TypeFor(platform.sizet),
              strategy |-> malloc0strategy,
              attr |-> platform.attr, options |-> options]
  /\ UNCHANGED <<platform, options, survived>>

(* writeFile(), which goes on without a file that cannot be opened, and the *)
(* end of the loop: alignment >>= 1 while alignment > 0.                    *)
WriteFile ==
  /\ phase = "write"
  /\ \/ UNCHANGED file
     \/ file' = [alignment |-> alignment,
                 addr |-> TypeFor(platform.voidp),
                 size |-> TypeFor(platform.sizet),
                 strategy |-> malloc0strategy,
                 attr |-> platform.attr, options |-> options]
  /\ alignment' = alignment \div 2
  /\ phase' = IF alignment \div 2 > 0 THEN "test" ELSE "finished"
  /\ UNCHANGED <<platform, options, survived>>

Next == Detect \/ TestAlignment \/ WriteFile

Spec == Init /\ [][Next]_vars

-----------------------------------------------------------------------------
(* duma_config.h read by the preprocessor.  A source is compiled in one of  *)
(* four sections, with the macros given on the command line.  An option of  *)
(* createconf is a pair: the prefix of its name ("" for none) and the macro *)
(* it is for.                                                               *)

Sections == {"SO", "DLL", "DETOURS", "REGULAR"}

(* The macros whose options are named DUMA_SO_... and DUMA_LIB_...          *)
Prefixed == {"NO_CPP_SUPPORT", "NO_LEAKDETECTION", "PREFER_ATEXIT",
             "PREFER_GETENV", "NO_HANG_MSG"}

OldMacros == {"OLD_NEW_MACRO", "OLD_DEL_MACRO"}

AlwaysOn(section) ==
  IF section \in {"DLL", "DETOURS"}
    THEN {"SKIP_SETUP", "NO_GLOBAL_MALLOC_FREE", "EXPLICIT_INIT"} ELSE {}

AlwaysOff(section) ==
  CASE section = "SO" -> {"NO_GLOBAL_MALLOC_FREE", "EXPLICIT_INIT",
                          "NO_THREAD_SAFETY"} \cup OldMacros
    [] section \in {"DLL", "DETOURS"} -> {"NO_THREAD_SAFETY"} \cup OldMacros
    [] section = "REGULAR" -> {}

ByOwnOption(section) ==
  CASE section = "SO" -> {"SEMAPHORES", "NO_STRERROR"}
    [] section \in {"DLL", "DETOURS"} -> {}
    [] section = "REGULAR" -> {"NO_GLOBAL_MALLOC_FREE", "EXPLICIT_INIT",
                               "NO_THREAD_SAFETY", "NO_STRERROR"}
                                \cup OldMacros

(* Mutant: the DLL section leaves leak detection to the command line.       *)
ByPrefixedOption_NotDll(section) ==
  IF section = "DLL" THEN Prefixed \ {"NO_LEAKDETECTION"} ELSE Prefixed

ByPrefixedOption(section) == Prefixed

PrefixOf(section) == IF section = "REGULAR" THEN "LIB" ELSE "SO"

Touched(section) ==
  AlwaysOn(section) \cup AlwaysOff(section) \cup ByOwnOption(section)
    \cup ByPrefixedOption(section)

(* The macros that are defined behind the file, with given on the command   *)
(* line.                                                                    *)
Effective(section, given) ==
  AlwaysOn(section)
    \cup {m \in ByOwnOption(section) : <<"", m>> \in file.options}
    \cup {m \in ByPrefixedOption(section) :
            <<PrefixOf(section), m>> \in file.options}
    \cup (given \ Touched(section))

-----------------------------------------------------------------------------

(* However the process ends, in a trap or by itself, and whichever of its   *)
(* attempts to write the file failed: a file that is there has an alignment *)
(* the CPU accepts for every type, one _duma_allocate() takes (a power of   *)
(* two) and one whose test was survived, and types for addresses and sizes  *)
(* that hold them.                                                          *)
IsPowerOf2(n) == \E i \in 0 .. n : n = 2 ^ i

FileSound ==
  file # NoFile /\ TypeFor(platform.voidp) # 0 =>
    /\ \A size \in DOMAIN platform.needs :
         file.alignment % platform.needs[size] = 0
    /\ file.alignment \in survived
    /\ IsPowerOf2(file.alignment)
    /\ platform.ints[file.addr] >= platform.voidp
    /\ file.size # 0 => platform.ints[file.size] >= platform.sizet

(* The macros that change the functions and their parameters.               *)
Interface == {"NO_LEAKDETECTION", "NO_CPP_SUPPORT"}

(* The header the program sees, in the regular section, declares the        *)
(* functions the library has, in whichever section it was compiled and      *)
(* whatever both have on their command lines; provided createconf got the   *)
(* options of the interface for both kinds of library or for none.          *)
InterfaceAgrees ==
  (/\ file # NoFile
   /\ \A m \in Interface : <<"SO", m>> \in file.options
                             <=> <<"LIB", m>> \in file.options) =>
    \A section \in Sections, lib \in SUBSET Interface,
       program \in SUBSET Interface :
      Effective(section, lib) \cap Interface
        = Effective("REGULAR", program) \cap Interface

=============================================================================
