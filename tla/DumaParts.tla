------------------------------ MODULE DumaParts ------------------------------
(***************************************************************************)
(* The parts of the library around the allocator, one at a time: part says  *)
(* which one runs, the others stay as they are.  Each part is an instance   *)
(* of its module; nothing is added to it.  Four of them are instances of    *)
(* the module with the proofs about the part, so that its theorems can be   *)
(* cited.                                                                   *)
(***************************************************************************)
EXTENDS Integers, FiniteSets, Sequences

CONSTANTS
  Parts,                   \* the parts that are run
  Threads, NewThreads,     \* threads; those of them that run out of memory
  Ops, Alone,              \* DumaThreads
  Sites, Unknown,          \* DumaDelete
  Capacity, MaxTables, MaxCalls, DUMA_MAX_DEL_DEPTH, MaxNesting, MaxDeletes,
  MaxStack, MaxBlocks, PageSize, KBPerPage, CreationPages, CHECK_FREQ, Slots,
  MaxSteps, MemSize, Chars, LONG_MAX, MIN_ALIGNMENT, Reserve, MaxNews, MaxDepth,
  Beyond,
  (* the inputs of the parts *)
  Configs,                 \* DumaInit
  Requests,                \* DumaGuard
  Numbers, Patterns,       \* DumaPrint
  Environments,            \* DumaEnv
  Platforms, OptionSets,   \* CreateConf
  MapFiles, Stacks, BufferSizes, MinBuffer, ErrorSize   \* StackTrace

VARIABLES
  part,
  (* startup *)
  conf, init_state, constructed, semInited, semInInit, semDepth, SLACKFILL,
  blocks, calling, startStatus, atexit, leaks,
  (* threads *)
  allocList, access, table, depth, pc, op, arg, slot, calls, live, fault,
  ended, report,
  (* delete *)
  delDepth, DelPtr, Magic, DelFile, expr, deletes, freed, aborted,
  (* guard *)
  block, checkFreqCounter, guardStatus, steps,
  (* string *)
  mem, call, copyStatus,
  (* print *)
  msg, pos, nextArg, buffer, len, pieces, sinks, flags, printStatus,
  (* new *)
  handler, chosen, avail, reserve, newPc, h, dothrow, outcome, news,
  (* environment *)
  environ, next, settings, copies,
  (* createconf *)
  platform, options, confPhase, alignment, file, survived,
  (* stack trace *)
  mapFile, line, stack, bufferSize, again, phase, error, entries, level,
  callers, needed, output, printed, written

-----------------------------------------------------------------------------

Startup == INSTANCE DumaInit_proofs WITH
  stack <- calling, status <- startStatus, report <- leaks
Thr == INSTANCE DumaThreads_proofs
Delete == INSTANCE DumaDelete_proofs WITH depth <- delDepth
Guard == INSTANCE DumaGuard_proofs WITH status <- guardStatus
String == INSTANCE DumaString WITH status <- copyStatus
Message == INSTANCE DumaPrint WITH arg <- nextArg, status <- printStatus
New == INSTANCE DumaNew WITH Threads <- NewThreads, pc <- newPc
Env == INSTANCE DumaEnv
Config == INSTANCE CreateConf WITH phase <- confPhase
Trace == INSTANCE StackTrace WITH Files <- MapFiles, file <- mapFile

startupVars == <<conf, init_state, constructed, semInited, semInInit,
  semDepth, SLACKFILL, blocks, calling, startStatus, atexit, leaks>>
threadsVars == <<allocList, access, table, depth, pc, op, arg, slot, calls,
  live, fault, ended, report>>
deleteVars == <<delDepth, DelPtr, Magic, DelFile, expr, deletes, freed,
  aborted>>
guardVars == <<block, checkFreqCounter, guardStatus, steps>>
stringVars == <<mem, call, copyStatus>>
printVars == <<msg, pos, nextArg, buffer, len, pieces, sinks, flags,
  printStatus>>
newVars == <<handler, chosen, avail, reserve, newPc, h, dothrow, outcome,
  news>>
envVars == <<environ, next, settings, copies>>
confVars == <<platform, options, confPhase, alignment, file, survived>>
traceVars == <<mapFile, line, stack, bufferSize, again, phase, error, entries,
  level, callers, needed, output, printed, written>>

all ==
  <<part, startupVars, threadsVars, deleteVars, guardVars, stringVars,
    printVars, newVars, envVars, confVars, traceVars>>

(* A part that does not run has one of its initial states.                  *)
Init ==
  /\ part \in Parts
  /\ IF part \in {"startup", "explicit"} THEN TRUE ELSE conf =
       [explicit |-> FALSE, ctor |-> FALSE, lazy |-> FALSE, fill |-> FALSE,
        file |-> FALSE, quiet |-> FALSE, all |-> FALSE]
  /\ Startup!Init
  /\ Thr!Init
  /\ Delete!Init
  /\ Guard!Init
  /\ IF part = "string" THEN TRUE ELSE mem = [a \in 0 .. MemSize - 1 |-> 0]
  /\ String!Init
  /\ IF part = "print"
       THEN Message!Init
       ELSE /\ msg = [pattern |-> <<>>, args |-> <<>>, fn |-> "DUMA_Print"]
            /\ pos = 1 /\ nextArg = 1 /\ buffer = <<>> /\ len = 0
            /\ pieces = <<>> /\ printStatus = "format"
            /\ sinks = [stdout |-> <<>>, stderr |-> <<>>, file |-> <<>>]
            /\ flags = [stdout |-> "on", stderr |-> "on", file |-> "on"]
  /\ IF part = "new" THEN TRUE ELSE handler = "none" /\ avail = 0
  /\ New!Init
  /\ IF part = "env" THEN TRUE ELSE environ = <<>>
  /\ Env!Init
  /\ IF part = "conf" THEN TRUE
       ELSE platform = (CHOOSE p \in Platforms : TRUE) /\ options = {}
  /\ Config!Init
  /\ IF part = "trace" THEN TRUE
       ELSE mapFile = <<[kind |-> "other"]>> /\ bufferSize = 1
              /\ stack = <<5, 12, 12, 0>>
  /\ Trace!Init

(* The part that runs takes a step.                                         *)
OnlyStartup ==
  /\ part \in {"startup", "explicit"}
  /\ UNCHANGED <<part, threadsVars, deleteVars, guardVars, stringVars,
       printVars, newVars, envVars, confVars, traceVars>>

OnlyThreads ==
  /\ part = "threads"
  /\ UNCHANGED <<part, startupVars, deleteVars, guardVars, stringVars,
       printVars, newVars, envVars, confVars, traceVars>>

OnlyDelete ==
  /\ part = "delete"
  /\ UNCHANGED <<part, startupVars, threadsVars, guardVars, stringVars,
       printVars, newVars, envVars, confVars, traceVars>>

OnlyGuard ==
  /\ part = "guard"
  /\ UNCHANGED <<part, startupVars, threadsVars, deleteVars, stringVars,
       printVars, newVars, envVars, confVars, traceVars>>

OnlyString ==
  /\ part = "string"
  /\ UNCHANGED <<part, startupVars, threadsVars, deleteVars, guardVars,
       printVars, newVars, envVars, confVars, traceVars>>

OnlyPrint ==
  /\ part = "print"
  /\ UNCHANGED <<part, startupVars, threadsVars, deleteVars, guardVars,
       stringVars, newVars, envVars, confVars, traceVars>>

OnlyNew ==
  /\ part = "new"
  /\ UNCHANGED <<part, startupVars, threadsVars, deleteVars, guardVars,
       stringVars, printVars, envVars, confVars, traceVars>>

OnlyEnv ==
  /\ part = "env"
  /\ UNCHANGED <<part, startupVars, threadsVars, deleteVars, guardVars,
       stringVars, printVars, newVars, confVars, traceVars>>

OnlyConf ==
  /\ part = "conf"
  /\ UNCHANGED <<part, startupVars, threadsVars, deleteVars, guardVars,
       stringVars, printVars, newVars, envVars, traceVars>>

OnlyTrace ==
  /\ part = "trace"
  /\ UNCHANGED <<part, startupVars, threadsVars, deleteVars, guardVars,
       stringVars, printVars, newVars, envVars, confVars>>

StartupStep == Startup!Step /\ OnlyStartup

NewStep(t) == New!Step(t) /\ OnlyNew

Next ==
  \/ OnlyStartup /\ Startup!Next
  \/ OnlyThreads /\ Thr!Next
  \/ OnlyDelete /\ Delete!Next
  \/ OnlyGuard /\ Guard!Next
  \/ OnlyString /\ String!Next
  \/ OnlyPrint /\ Message!Next
  \/ OnlyNew /\ New!Next
  \/ OnlyEnv /\ Env!Next
  \/ OnlyConf /\ Config!Next
  \/ OnlyTrace /\ Trace!Next

Spec ==
  /\ Init /\ [][Next]_all
  /\ WF_all(StartupStep)
  /\ \A t \in NewThreads : WF_all(NewStep(t))

-----------------------------------------------------------------------------
(* The properties of the parts.  Each is stated in full in its module; the  *)
(* comment says which behaviour of the code it is about.                    *)

(* _duma_init() builds the slot table once and no call of malloc() aborts,  *)
(* however the constructor, duma_init(), the semaphore and the libraries    *)
(* recurse.                                                                 *)
BuiltOnce == Startup!BuiltOnce

(* _duma_check_slack() expects the bytes that _duma_init_slack() wrote,     *)
(* for blocks from before DUMA_SLACKFILL was read too.                      *)
SlackKnown == Startup!SlackKnown

(* _duma_exit() reports every block the program left, and none of a         *)
(* library's.                                                               *)
LeaksReported == Startup!LeaksReported

(* Every call of malloc() during the start comes back: the recursion of     *)
(* DUMA_init_sem() and duma_init() ends.                                    *)
StartupReturns == Startup!StartupReturns

(* No thread closes or deletes the slot table under another one: allow,     *)
(* use and deny lie in one semaphore section.                               *)
TableReachable == Thr!TableReachable

(* allocateMoreSlots() loses no block, whatever other threads do meanwhile, *)
(* and DUMA_delFrame() names exactly the blocks that are left.              *)
BlocksKept == Thr!BlocksKept

(* Each release in a delete expression gets that expression's file and      *)
(* line, and the semaphore is free behind the last one.                     *)
DeleteLocated == Delete!DeleteLocated

(* The body of the delete macro's loop runs exactly once, though a nested   *)
(* delete clears Magic.                                                     *)
RunsOnce == Delete!RunsOnce

(* _duma_init_slack() and _duma_check_slack() visit every byte that is      *)
(* neither the user's nor on a dead page.                                   *)
EveryByteGuarded == Guard!EveryByteGuarded

(* DUMA_CHECK_FREQ finds damage in time, and no check fails without         *)
(* damage.                                                                  *)
ChecksExact == Guard!ChecksExact

(* free() of a block with a damaged no man's land aborts.                   *)
DamageFound == Guard!DamageFound

(* memcpy() to strncat() leave what C asks for, or abort on regions that    *)
(* overlap.                                                                 *)
CopiesExactly == String!CopiesExactly

(* DUMA_vsprintf() writes the numbers it was given, and DUMA_Abort()        *)
(* writes its message to every sink before it ends the process.             *)
MessageIntact == Message!MessageIntact

(* The loop of duma_new_operator() ends, in the way the form of operator    *)
(* new allows, and leaves the program's new handler installed, while nobody *)
(* comes between its two calls of set_new_handler().                        *)
NewEnds == New!NewEnds

(* duma_getenvvars() takes each setting from the entry of exactly its       *)
(* name, and no setting leaves its range, where the documentation does not  *)
(* ask for something else.                                                  *)
EnvironmentRespected == Env!EnvironmentRespected

(* Whenever createconf is trapped, the file it leaves has an alignment and  *)
(* integer types the platform can use.                                      *)
FileSound == Config!FileSound

(* The program's view of duma_config.h has the functions of the library     *)
(* that was built from it.                                                  *)
InterfaceAgrees == Config!InterfaceAgrees

(* printStackTrace() names callers by entries that are not above them; a    *)
(* trace stays in a buffer of any size, an error text in one of the size    *)
(* the program has to pass.                                                 *)
TraceSound == Trace!TraceSound

-----------------------------------------------------------------------------
(* What comments and documents say of the parts, and the code does not do.  *)

(* The loop of duma_new_operator() ends whatever other threads do.          *)
NewAlwaysEnds == New!EveryNewEnds

(* duma_getenvvars() takes each setting as the documentation describes it.  *)
AsDocumented == Env!AsDocumented

=============================================================================
