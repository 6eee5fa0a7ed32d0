------------------------------ MODULE DumaInit ------------------------------
(***************************************************************************)
(* Start and end of a program that is linked with DUMA: the constructor     *)
(* _duma_init(), duma_init() and what they call (src/src/duma.c,            *)
(* src/src/sem_inc.c), with the calls of malloc() that libraries make in    *)
(* the middle of it.  The constructor runs before there is a second thread, *)
(* so this module has one thread; what is hard is the recursion.            *)
(*                                                                          *)
(* stack holds the activations of the thread, the innermost first: an       *)
(* activation has the function fn, the statement at that it runs next,      *)
(* and its local variables (inRec is inRecursion, own and line say who      *)
(* allocates and from which source line, blk is the argument of free()).    *)
(* A call deeper than MaxStack overflows the C stack.                       *)
(*                                                                          *)
(* conf is the build and the environment, chosen once:                      *)
(*   explicit   DUMA_EXPLICIT_INIT: the program calls duma_init()           *)
(*   ctor       DUMA_GNU_INIT_ATTR: _duma_init() runs before main()         *)
(*   lazy       the semaphore has to be initialised (semInited starts as 0) *)
(*              and initialising it may call malloc()                       *)
(*   fill       DUMA_SLACKFILL is set                                       *)
(*   file       DUMA_OUTPUT_FILE, DUMA_OUTPUT_STACKTRACE_MAPFILE or both    *)
(*              are set                                                     *)
(*   quiet      DUMA_SUPPRESS_ATEXIT is set                                 *)
(*   all        DUMA_REPORT_ALL_LEAKS is set                                *)
(***************************************************************************)
EXTENDS Integers, Sequences

CONSTANTS
  Configs,    \* the values of conf
  MaxStack,   \* activations the C stack has room for
  MaxBlocks   \* bound on the blocks the program allocates

VARIABLES
  conf,
  init_state,   \* enum _DUMA_InitState
  constructed,  \* how often the slot table was created; 0: allocList is 0
  semInited, semInInit, semDepth,
  SLACKFILL,
  blocks,       \* the slots of the blocks that were allocated, in order
  stack,
  status,       \* "run", "aborted", "overflow", "exited", or "unregistered":
                \* aborted because atexit() has failed
  atexit,       \* _duma_exit() is registered
  report        \* the blocks DUMA_delFrame() prints

sem == <<semInited, semInInit, semDepth>>

heap == <<constructed, SLACKFILL, blocks>>

vars == <<conf, init_state, sem, heap, stack, status, atexit, report>>

UNINITIALIZED == 0
IN_CONSTRUCTOR == 1
OUT_CONSTRUCTOR == 2
IN_INIT == 3
OUT_INIT == 4

top == Head(stack)

At(fn, at) == status = "run" /\ stack # <<>> /\ top.fn = fn /\ top.at = at

Frame(fn, at) ==
  [fn |-> fn, at |-> at, inRec |-> FALSE, own |-> "none", line |-> 0, blk |-> 0]

MallocFrame(own, line) ==
  [Frame("malloc", "test") EXCEPT !.own = own, !.line = line]

FreeFrame(b) == [Frame("free", "test") EXCEPT !.blk = b]

Goto(at) == stack' = <<[top EXCEPT !.at = at]>> \o Tail(stack)

Return == stack' = Tail(stack)

(* A call from the top activation, which goes on at the statement at.       *)
Call(frame, at) ==
  IF Len(stack) < MaxStack
    THEN /\ stack' = <<frame, [top EXCEPT !.at = at]>> \o Tail(stack)
         /\ UNCHANGED status
    ELSE status' = "overflow" /\ UNCHANGED stack

Init ==
  /\ conf \in Configs
  /\ init_state = UNINITIALIZED
  /\ constructed = 0
  /\ semInited = ~ conf.lazy /\ semInInit = FALSE /\ semDepth = 0
  /\ SLACKFILL = "default"
  /\ blocks = <<>>
  /\ stack = IF conf.ctor THEN <<Frame("_duma_init", "enter")>> ELSE <<>>
  /\ status = "run"
  /\ atexit = conf.ctor
  /\ report = {}

-----------------------------------------------------------------------------
(* DUMA_get_sem(), DUMA_rel_sem() and DUMA_init_sem()                       *)

(* Mutant: the test of semInInit is missing.                                *)
GetSem_NoTest(next) ==
  IF ~ semInited
    THEN Call(Frame("init_sem", "enter"), top.at) /\ UNCHANGED sem
    ELSE /\ Goto(next)
         /\ semDepth' = semDepth + 1
         /\ UNCHANGED <<semInited, semInInit, status>>

(* After DUMA_init_sem() has returned the tests are made once more, with    *)
(* the outcome that the semaphore is taken.                                 *)
GetSem(next) ==
  IF semInInit
    THEN Goto(next) /\ UNCHANGED <<sem, status>>
    ELSE IF ~ semInited
      THEN Call(Frame("init_sem", "enter"), top.at) /\ UNCHANGED sem
      ELSE /\ Goto(next)
           /\ semDepth' = semDepth + 1
           /\ UNCHANGED <<semInited, semInInit, status>>

RelSem(next) ==
  IF semInInit
    THEN Goto(next) /\ UNCHANGED <<sem, status>>
    ELSE IF ~ semInited \/ semDepth = 0
      THEN status' = "aborted" /\ UNCHANGED <<sem, stack>>
      ELSE /\ Goto(next)
           /\ semDepth' = semDepth - 1
           /\ UNCHANGED <<semInited, semInInit, status>>

(* IF__DUMA_INIT_DONE: with DUMA_EXPLICIT_INIT the semaphore is left alone  *)
(* until duma_init() is through.                                            *)
InitDone == conf.explicit => init_state = OUT_INIT

GuardedGet(next) ==
  IF InitDone THEN GetSem(next) ELSE Goto(next) /\ UNCHANGED <<sem, status>>

GuardedRel(next) ==
  IF InitDone THEN RelSem(next) ELSE Goto(next) /\ UNCHANGED <<sem, status>>

InitSem ==
  /\ At("init_sem", "enter")
  /\ IF semInited \/ semInInit
       THEN Return /\ UNCHANGED semInInit
       ELSE Goto("library") /\ semInInit' = TRUE
  /\ UNCHANGED <<conf, init_state, semInited, semDepth, heap, status, atexit,
                 report>>

(* sem_init(), pthread_mutex_init() or CreateSemaphore() may allocate.      *)
InitSemLibrary ==
  /\ At("init_sem", "library")
  /\ \/ Call(MallocFrame("library", 0), "done")
     \/ Goto("done") /\ UNCHANGED status
  /\ UNCHANGED <<conf, init_state, sem, heap, atexit, report>>

InitSemDone ==
  /\ At("init_sem", "done")
  /\ semInited' = TRUE
  /\ semInInit' = FALSE
  /\ Return
  /\ UNCHANGED <<conf, init_state, semDepth, heap, status, atexit, report>>

-----------------------------------------------------------------------------
(* _duma_init()                                                             *)

(* Entry: a call that finds the construction done only calls duma_init(),   *)
(* and a call that finds it in progress takes no semaphore.                 *)
Constructor ==
  /\ At("_duma_init", "enter")
  /\ IF init_state >= OUT_CONSTRUCTOR
       THEN /\ Goto(IF conf.explicit THEN "return" ELSE "callinit")
            /\ UNCHANGED init_state
       ELSE /\ LET rec == init_state >= IN_CONSTRUCTOR
               IN  stack' = <<[top EXCEPT !.inRec = rec,
                                 !.at = IF rec THEN "build" ELSE "get"]>>
                              \o Tail(stack)
            /\ init_state' = IN_CONSTRUCTOR
  /\ UNCHANGED <<conf, sem, heap, status, atexit, report>>

ConstructorGet ==
  /\ At("_duma_init", "get")
  /\ GetSem("build")
  /\ UNCHANGED <<conf, init_state, heap, atexit, report>>

(* Mutant: the work is not skipped when taking the semaphore has done it.   *)
ConstructorBuild_Again ==
  /\ At("_duma_init", "build")
  /\ constructed' = constructed + 1
  /\ init_state' = IF init_state < OUT_CONSTRUCTOR THEN OUT_CONSTRUCTOR
                   ELSE init_state
  /\ Goto(IF top.inRec THEN "leave" ELSE "release")
  /\ UNCHANGED <<conf, sem, SLACKFILL, blocks, status, atexit, report>>

(* "call of DUMA_GET_SEMAPHORE() may already have done the construction     *)
(* recursively!"; otherwise the null block and the slot table are created.  *)
ConstructorBuild ==
  /\ At("_duma_init", "build")
  /\ IF init_state >= OUT_CONSTRUCTOR
       THEN UNCHANGED <<constructed, init_state>>
       ELSE constructed' = constructed + 1 /\ init_state' = OUT_CONSTRUCTOR
  /\ Goto(IF top.inRec THEN "leave" ELSE "release")
  /\ UNCHANGED <<conf, sem, SLACKFILL, blocks, status, atexit, report>>

ConstructorRelease ==
  /\ At("_duma_init", "release")
  /\ RelSem("leave")
  /\ UNCHANGED <<conf, init_state, heap, atexit, report>>

ConstructorLeave ==
  /\ At("_duma_init", "leave")
  /\ Goto(IF conf.explicit THEN "return" ELSE "callinit")
  /\ UNCHANGED <<conf, init_state, sem, heap, status, atexit, report>>

ConstructorCallInit ==
  /\ At("_duma_init", "callinit")
  /\ IF init_state < OUT_INIT
       THEN Call(Frame("duma_init", "enter"), "return")
       ELSE Goto("return") /\ UNCHANGED status
  /\ UNCHANGED <<conf, init_state, sem, heap, atexit, report>>

(* The end of every function but duma_init() and DUMA_init_sem().           *)
FunctionReturn ==
  /\ \E fn \in {"_duma_init", "malloc", "free"} : At(fn, "return")
  /\ Return
  /\ UNCHANGED <<conf, init_state, sem, heap, status, atexit, report>>

-----------------------------------------------------------------------------
(* duma_init()                                                              *)

DumaInitEnter ==
  /\ At("duma_init", "enter")
  /\ IF init_state >= IN_INIT
       THEN Return /\ UNCHANGED init_state
       ELSE Goto("getenv") /\ init_state' = IN_INIT
  /\ UNCHANGED <<conf, sem, heap, status, atexit, report>>

(* duma_getenvvars(): DUMA_SLACKFILL is read before _duma_strdup() copies   *)
(* the names of one or two files (DumaEnv has the other variables).         *)
GetEnvVars ==
  /\ \/ /\ At("duma_init", "getenv")
        /\ SLACKFILL' = IF conf.fill THEN "env" ELSE SLACKFILL
        /\ IF conf.file
             THEN \E next \in {"copy", "atexit"} : Call(MallocFrame("duma", 1), next)
             ELSE Goto("atexit") /\ UNCHANGED status
     \/ /\ At("duma_init", "copy")
        /\ Call(MallocFrame("duma", 1), "atexit")
        /\ UNCHANGED SLACKFILL
  /\ UNCHANGED <<conf, init_state, constructed, sem, blocks, atexit, report>>

(* atexit() may allocate; it is not called when the destructor attribute    *)
(* does the work or DUMA_SUPPRESS_ATEXIT is set.                            *)
RegisterExit ==
  /\ At("duma_init", "atexit")
  /\ IF conf.ctor \/ conf.quiet
       THEN Goto("semaphore") /\ UNCHANGED <<status, atexit>>
       ELSE \/ /\ atexit' = TRUE
               /\ \/ Call(MallocFrame("library", 0), "semaphore")
                  \/ Goto("semaphore") /\ UNCHANGED status
            \/ status' = "unregistered" /\ UNCHANGED <<stack, atexit>>
  /\ UNCHANGED <<conf, init_state, sem, heap, report>>

(* DUMA_INIT_SEMAPHORE(); testAlloc = malloc(123); free(testAlloc).  Both   *)
(* are DUMA's: a program that is bound to other ones is not modelled.       *)
DumaInitTest ==
  /\ \/ /\ At("duma_init", "semaphore")
        /\ Call(Frame("init_sem", "enter"), "malloc")
     \/ /\ At("duma_init", "malloc")
        /\ Call(MallocFrame("duma", 0), "free")
     \/ /\ At("duma_init", "free")
        /\ Call(FreeFrame(Len(blocks)), "done")
  /\ UNCHANGED <<conf, init_state, sem, heap, atexit, report>>

DumaInitDone ==
  /\ At("duma_init", "done")
  /\ init_state' = OUT_INIT
  /\ Return
  /\ UNCHANGED <<conf, sem, heap, status, atexit, report>>

-----------------------------------------------------------------------------
(* malloc() and free(), as far as they depend on the initialisation         *)

MallocTest ==
  /\ At("malloc", "test")
  /\ IF constructed = 0
       THEN Call(Frame("_duma_init", "enter"), "get")
       ELSE Goto("get") /\ UNCHANGED status
  /\ UNCHANGED <<conf, init_state, sem, heap, atexit, report>>

EnterHeap ==
  /\ \/ At("malloc", "get") /\ GuardedGet("slot")
     \/ At("free", "get") /\ GuardedGet("slot")
  /\ UNCHANGED <<conf, init_state, heap, atexit, report>>

(* Mutant: blocks from before duma_init() are not marked.                   *)
StoredLine_Unmarked(line) == line

(* "lineno = -1" marks the blocks from before duma_init() was through.      *)
StoredLine(line) == IF InitDone THEN line ELSE -1

(* The slot of a new block.  Without a table there is no empty slot, and    *)
(* _duma_allocate() aborts.                                                 *)
MallocSlot ==
  /\ At("malloc", "slot")
  /\ IF constructed = 0
       THEN status' = "aborted" /\ UNCHANGED <<blocks, stack>>
       ELSE /\ blocks' = Append(blocks,
                           [own |-> top.own, used |-> TRUE, line |-> top.line,
                            lineno |-> StoredLine(top.line),
                            slack |-> SLACKFILL, slackfill |-> SLACKFILL,
                            started |-> init_state = OUT_INIT])
            /\ Goto("release")
            /\ UNCHANGED status
  /\ UNCHANGED <<conf, init_state, sem, constructed, SLACKFILL, atexit, report>>

LeaveHeap ==
  /\ \/ At("malloc", "release") /\ GuardedRel("return")
     \/ At("free", "release") /\ GuardedRel("return")
  /\ UNCHANGED <<conf, init_state, heap, atexit, report>>

FreeTest ==
  /\ At("free", "test")
  /\ IF constructed = 0
       THEN status' = "aborted" /\ UNCHANGED stack
       ELSE Goto("get") /\ UNCHANGED status
  /\ UNCHANGED <<conf, init_state, sem, heap, atexit, report>>

(* Mutant: the value of today is used in every build.                       *)
ExpectedFill_Current(b) == SLACKFILL

(* The byte _duma_check_slack() looks for: DUMA_EXPLICIT_INIT keeps it in   *)
(* the slot.                                                                *)
ExpectedFill(b) ==
  IF conf.explicit THEN blocks[b].slackfill ELSE SLACKFILL

FreeSlot ==
  /\ At("free", "slot")
  /\ IF ExpectedFill(top.blk) # blocks[top.blk].slack
       THEN status' = "aborted" /\ UNCHANGED <<blocks, stack>>
       ELSE /\ blocks' = [blocks EXCEPT ![top.blk].used = FALSE]
            /\ Goto("release")
            /\ UNCHANGED status
  /\ UNCHANGED <<conf, init_state, sem, constructed, SLACKFILL, atexit, report>>

-----------------------------------------------------------------------------
(* The program: it allocates with or without source position, releases what *)
(* it allocated, calls duma_init() where it has to, and ends.               *)

Idle == status = "run" /\ stack = <<>>

ProgramMalloc ==
  /\ Idle
  /\ Len(SelectSeq(blocks, LAMBDA b : b.own = "program")) < MaxBlocks
  /\ \E line \in {0, 1} : stack' = <<MallocFrame("program", line)>>
  /\ UNCHANGED <<conf, init_state, sem, heap, status, atexit, report>>

ProgramFree ==
  /\ Idle
  /\ \E b \in 1 .. Len(blocks) :
       /\ blocks[b].used /\ blocks[b].own = "program"
       /\ stack' = <<FreeFrame(b)>>
  /\ UNCHANGED <<conf, init_state, sem, heap, status, atexit, report>>

ProgramInit ==
  /\ Idle /\ conf.explicit
  /\ stack' = <<Frame("duma_init", "enter")>>
  /\ UNCHANGED <<conf, init_state, sem, heap, status, atexit, report>>

(* The blocks DUMA_delFrame() reports, and the ones it only counts.         *)
Leaks ==
  {b \in 1 .. Len(blocks) :
     blocks[b].used /\ (conf.explicit => blocks[b].lineno # -1)}

Reported == {b \in Leaks : conf.all \/ blocks[b].lineno > 0}

(* exit() calls _duma_exit() where it is registered.  The semaphore is      *)
(* free, and DUMA_delFrame() takes and releases it.                         *)
ProgramExit ==
  /\ Idle
  /\ status' = "exited"
  /\ report' = IF atexit THEN Reported ELSE {}
  /\ UNCHANGED <<conf, init_state, sem, heap, stack, atexit>>

Step ==
  \/ InitSem \/ InitSemLibrary \/ InitSemDone
  \/ Constructor \/ ConstructorGet \/ ConstructorBuild \/ ConstructorRelease
  \/ ConstructorLeave \/ ConstructorCallInit
  \/ DumaInitEnter \/ GetEnvVars \/ RegisterExit \/ DumaInitTest
  \/ DumaInitDone
  \/ MallocTest \/ EnterHeap \/ MallocSlot \/ LeaveHeap
  \/ FreeTest \/ FreeSlot \/ FunctionReturn

Program == ProgramMalloc \/ ProgramFree \/ ProgramInit \/ ProgramExit

Next == Step \/ Program

Spec == Init /\ [][Next]_vars

(* A thread that is in a function of DUMA goes on running.                  *)
FairSpec == Spec /\ WF_vars(Step)

-----------------------------------------------------------------------------

(* However the constructor, duma_init(), the semaphore and the allocating   *)
(* libraries call one another, the slot table is built once, the semaphore  *)
(* is free whenever the program runs, and no call aborts but for a failure  *)
(* of atexit(): _duma_init() must see in which of its own callers it is     *)
(* (inRecursion, init_state).                                               *)
BuiltOnce ==
  /\ constructed <= 1
  /\ status # "aborted"
  /\ stack = <<>> => semDepth = 0 /\ ~ semInInit

(* _duma_check_slack() expects the bytes _duma_init_slack() has written,    *)
(* for the blocks from before DUMA_SLACKFILL was read as well: the reason   *)
(* for the slot's own slackfill, and for the order in duma_getenvvars().    *)
SlackKnown ==
  \A b \in 1 .. Len(blocks) :
    blocks[b].used => ExpectedFill(b) = blocks[b].slack

(* DUMA_delFrame() reports every block the program has left that carries a  *)
(* source position and was allocated after the initialisation; and nothing  *)
(* that libraries allocated, unless all leaks are asked for.                *)
LeaksReported ==
  status = "exited" /\ atexit =>
    /\ \A b \in 1 .. Len(blocks) :
         blocks[b].used /\ blocks[b].own = "program" /\ blocks[b].line > 0
           /\ blocks[b].started => b \in report
    /\ \A b \in report : ~ conf.all \/ conf.explicit =>
                           blocks[b].own # "library"

(* The first call of malloc(), and every other one, comes back: the         *)
(* recursion through the semaphore and the libraries ends.  Only a failure  *)
(* of atexit() ends the program before.                                     *)
StartupReturns == stack # <<>> ~> stack = <<>> \/ status = "unregistered"

=============================================================================
