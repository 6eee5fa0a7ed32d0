--------------------------- MODULE DumaInit_proofs ---------------------------
(***************************************************************************)
(* The start and the end of the program, however deep the constructor,      *)
(* duma_init(), the semaphore and the allocating libraries call one         *)
(* another, for every depth of the C stack and every number of blocks: the  *)
(* slot table is built once, the slack bytes are known, and exactly the     *)
(* leaks are reported.  The invariant is the shape of the stack of          *)
(* activations.                                                             *)
(***************************************************************************)
EXTENDS DumaInit, TLAPS

-----------------------------------------------------------------------------
(* The program calls duma_init() only after the constructor has run: with   *)
(* DUMA_EXPLICIT_INIT the library is built with the constructor attribute.  *)
ConstructorRuns == \A c \in Configs : c.explicit => c.ctor

(* The statements at which an activation may be.                            *)
Labels ==
  {"enter", "get", "build", "release", "leave", "callinit", "return", "getenv",
   "copy", "atexit", "semaphore", "malloc", "free", "done", "library", "test",
   "slot"}

Frames ==
  [fn : {"_duma_init", "duma_init", "init_sem", "malloc", "free"},
   at : Labels, inRec : BOOLEAN, own : {"none", "program", "library", "duma"},
   line : {0, 1}, blk : Nat]

SlotRecords ==
  [own : {"none", "program", "library", "duma"}, used : BOOLEAN, line : {0, 1},
   lineno : {-1, 0, 1}, slack : {"default", "env"}, slackfill : {"default", "env"},
   started : BOOLEAN]

TypeInv ==
  /\ conf \in Configs
  /\ init_state \in 0 .. 4
  /\ constructed = IF init_state >= OUT_CONSTRUCTOR THEN 1 ELSE 0
  /\ semInited \in BOOLEAN /\ semInInit \in BOOLEAN /\ semDepth \in Nat
  /\ SLACKFILL \in {"default", "env"}
  /\ blocks \in Seq(SlotRecords)
  /\ stack \in Seq(Frames)

(* What the position of an activation says, wherever it is in the stack:    *)
(* how far the initialisation is, and that the block of a free() is in use. *)
FrameOK(f) ==
  /\ f.fn = "duma_init" =>
       /\ init_state >= OUT_CONSTRUCTOR
       /\ f.at # "enter" => init_state >= IN_INIT
       /\ conf.explicit => semInited
  /\ f.fn = "_duma_init" =>
       /\ f.at # "enter" => init_state >= IN_CONSTRUCTOR
       /\ f.at \in {"release", "leave", "callinit", "return"} =>
            init_state >= OUT_CONSTRUCTOR
       /\ f.at \in {"get", "release"} => ~ f.inRec
       /\ f.at = "callinit" => ~ conf.explicit
  /\ f.fn = "free" =>
       /\ init_state >= OUT_CONSTRUCTOR
       /\ f.blk \in 1 .. Len(blocks)
       /\ f.at \in {"test", "get", "slot"} => blocks[f.blk].used
  /\ f.own = "library" => f.fn = "malloc" /\ f.line = 0
  /\ conf.explicit /\ (f.own = "library" \/ (f.fn = "init_sem" /\ f.at # "enter")) =>
       init_state <= OUT_CONSTRUCTOR

(* The positions in which a function waits for one it has called.           *)
Waiting(f) ==
  \/ f.fn \in {"malloc", "free"} /\ f.at = "get"
  \/ f.fn = "_duma_init" /\ f.at \in {"get", "return"}
  \/ f.fn = "init_sem" /\ f.at = "done"
  \/ f.fn = "duma_init"
       /\ f.at \in {"copy", "atexit", "semaphore", "malloc", "free", "done"}

(* An activation g that f has called.                                       *)
Called(g, f) ==
  /\ f.fn = "malloc" => init_state >= OUT_CONSTRUCTOR \/ g.fn = "_duma_init"
  /\ f.fn = "duma_init" /\ f.at = "free" => g.fn = "malloc"
  /\ conf.explicit => g.fn # "duma_init"

LastUsed == Len(blocks) > 0 /\ blocks[Len(blocks)].used

(* What holds of the activation that runs.                                  *)
TopOK(f) ==
  /\ f.fn = "malloc" /\ f.at # "test" => init_state >= OUT_CONSTRUCTOR
  /\ f.fn = "malloc" /\ f.at \in {"release", "return"} => LastUsed
  /\ f.fn = "duma_init" /\ f.at = "free" => LastUsed
  /\ f.fn = "duma_init" /\ f.at = "getenv" /\ ~ conf.explicit => blocks = <<>>

Initialising(f) == f.fn = "init_sem" /\ f.at \in {"library", "done"}

(* The constructor is the oldest activation until it is through, and the    *)
(* semaphore is initialised before it goes on.                              *)
Oldest ==
  conf.ctor =>
    /\ init_state < OUT_CONSTRUCTOR =>
         Len(stack) > 0 /\ stack[Len(stack)].fn = "_duma_init"
    /\ ~ semInited =>
         /\ Len(stack) > 0 /\ stack[Len(stack)].fn = "_duma_init"
         /\ \/ stack[Len(stack)].at = "get"
            \/ stack[Len(stack)].at = "enter" /\ Len(stack) = 1
                 /\ init_state = UNINITIALIZED

(* Below a free() nothing is initialised any more, so a second free() of    *)
(* the same block cannot come in between.                                   *)
FreesLast ==
  \A k \in 1 .. Len(stack) : \A j \in 1 .. k - 1 :
    stack[k].fn = "free" => stack[j].fn \in {"malloc", "init_sem"}

StackInv ==
  /\ \A k \in 1 .. Len(stack) : FrameOK(stack[k])
  /\ \A k \in 2 .. Len(stack) : Waiting(stack[k]) /\ Called(stack[k - 1], stack[k])
  /\ Len(stack) > 0 => TopOK(stack[1])
  /\ semInInit => \E k \in 1 .. Len(stack) : Initialising(stack[k])
  /\ FreesLast
  /\ Oldest

(* The semaphore is held by the activation that runs, or not at all.        *)
Holding(f) ==
  /\ ~ semInInit
  /\ \/ f.fn = "_duma_init" /\ f.at \in {"build", "release"} /\ ~ f.inRec
     \/ f.fn \in {"malloc", "free"} /\ f.at \in {"slot", "release"} /\ InitDone

DepthInv ==
  /\ semDepth = IF Len(stack) > 0 /\ Holding(stack[1]) THEN 1 ELSE 0
  /\ Len(stack) > 0 /\ Holding(stack[1]) => semInited

(* Between the construction and duma_init() no block is allocated, unless   *)
(* the program decides when duma_init() is called; then the semaphore is    *)
(* initialised before.                                                      *)
Early ==
  /\ ~ conf.explicit =>
       /\ init_state <= OUT_CONSTRUCTOR => blocks = <<>>
       /\ init_state = OUT_CONSTRUCTOR /\ status = "run" =>
            /\ Len(stack) > 0
            /\ \/ stack[1].fn = "_duma_init"
                    /\ stack[1].at \in {"release", "leave", "callinit"}
               \/ stack[1].fn = "duma_init" /\ stack[1].at = "enter"
  /\ conf.explicit /\ init_state > OUT_CONSTRUCTOR => semInited

BlocksInv ==
  /\ Len(blocks) > 0 => init_state >= OUT_CONSTRUCTOR
  /\ \A b \in 1 .. Len(blocks) :
       /\ blocks[b].started => blocks[b].lineno = blocks[b].line
       /\ blocks[b].own = "library" =>
            blocks[b].lineno <= 0 /\ (conf.explicit => blocks[b].lineno = -1)
       /\ blocks[b].slackfill = blocks[b].slack

ReportInv == status = "exited" /\ atexit => report = Reported

StartInv ==
  /\ TypeInv
  /\ StackInv
  /\ DepthInv
  /\ Early
  /\ BlocksInv
  /\ SlackKnown
  /\ ReportInv
  /\ status # "aborted"

-----------------------------------------------------------------------------
(* How a step moves the stack: the activation that runs goes on, returns,   *)
(* or calls.                                                                *)
Replaced ==
  /\ Len(stack) > 0 /\ stack' \in Seq(Frames) /\ Len(stack') = Len(stack)
  /\ \A k \in 2 .. Len(stack) : stack'[k] = stack[k]

Popped ==
  /\ Len(stack) > 0 /\ stack' \in Seq(Frames) /\ Len(stack') = Len(stack) - 1
  /\ \A k \in 2 .. Len(stack) : stack'[k - 1] = stack[k]

Pushed ==
  /\ Len(stack) > 0 /\ stack' \in Seq(Frames) /\ Len(stack') = Len(stack) + 1
  /\ \A k \in 2 .. Len(stack) : stack'[k + 1] = stack[k]

(* g is the activation f at another statement.                              *)
Moved(f, g, at) ==
  /\ g.at = at
  /\ g.fn = f.fn /\ g.inRec = f.inRec /\ g.own = f.own /\ g.line = f.line
  /\ g.blk = f.blk

LEMMA TopFirst ==
  ASSUME stack \in Seq(Frames), stack # <<>>
  PROVE  Len(stack) > 0 /\ top = stack[1] /\ stack[1] \in Frames
BY DEF top

LEMMA MovedFrame ==
  ASSUME NEW f \in Frames, NEW at \in Labels
  PROVE  [f EXCEPT !.at = at] \in Frames /\ Moved(f, [f EXCEPT !.at = at], at)
BY DEF Frames, Moved

(* What an assignment to the top of the stack does.                         *)
LEMMA ReplaceMoves ==
  ASSUME stack \in Seq(Frames), stack # <<>>, NEW g \in Frames,
         stack' = <<g>> \o Tail(stack)
  PROVE  Replaced /\ stack'[1] = g
<1>1. Len(stack) > 0
  OBVIOUS
<1>2. /\ Tail(stack) \in Seq(Frames) /\ Len(Tail(stack)) = Len(stack) - 1
      /\ \A k \in 1 .. Len(stack) - 1 : Tail(stack)[k] = stack[k + 1]
  OBVIOUS
<1>3. <<g>> \in Seq(Frames) /\ Len(<<g>>) = 1 /\ <<g>>[1] = g
  OBVIOUS
<1> QED BY <1>1, <1>2, <1>3 DEF Replaced

LEMMA GotoMoves ==
  ASSUME stack \in Seq(Frames), stack # <<>>, NEW at \in Labels, Goto(at)
  PROVE  Replaced /\ Moved(stack[1], stack'[1], at)
<1>1. PICK g \in Frames : g = [top EXCEPT !.at = at] /\ Moved(stack[1], g, at)
  BY TopFirst, MovedFrame
<1> QED BY <1>1, ReplaceMoves DEF Goto

LEMMA ReturnMoves ==
  ASSUME stack \in Seq(Frames), stack # <<>>, Return
  PROVE  Popped
<1>1. Len(stack) > 0
  OBVIOUS
<1>2. /\ Tail(stack) \in Seq(Frames) /\ Len(Tail(stack)) = Len(stack) - 1
      /\ \A k \in 1 .. Len(stack) - 1 : Tail(stack)[k] = stack[k + 1]
  OBVIOUS
<1> QED BY <1>1, <1>2 DEF Popped, Return

(* A call, with room for it on the C stack.                                 *)
Calls(g, at) ==
  /\ UNCHANGED status
  /\ Pushed
  /\ stack'[1] = g
  /\ Moved(stack[1], stack'[2], at)

Overflows == status' \in {"overflow", "unregistered"} /\ stack' = stack

LEMMA CallMoves ==
  ASSUME stack \in Seq(Frames), stack # <<>>, NEW f \in Frames,
         NEW at \in Labels, Call(f, at)
  PROVE  Calls(f, at) \/ Overflows
<1>1. CASE Len(stack) < MaxStack
  <2>1. PICK g \in Frames : g = [top EXCEPT !.at = at] /\ Moved(stack[1], g, at)
    BY TopFirst, MovedFrame
  <2>2. stack' = <<f, g>> \o Tail(stack) /\ UNCHANGED status
    BY <1>1, <2>1 DEF Call
  <2>3. Len(stack) > 0
    OBVIOUS
  <2>4. /\ Tail(stack) \in Seq(Frames) /\ Len(Tail(stack)) = Len(stack) - 1
        /\ \A k \in 1 .. Len(stack) - 1 : Tail(stack)[k] = stack[k + 1]
    OBVIOUS
  <2>5. /\ <<f, g>> \in Seq(Frames) /\ Len(<<f, g>>) = 2
        /\ <<f, g>>[1] = f /\ <<f, g>>[2] = g
    OBVIOUS
  <2>6. /\ stack' \in Seq(Frames) /\ Len(stack') = Len(stack) + 1
        /\ stack'[1] = f /\ stack'[2] = g
    BY <2>2, <2>3, <2>4, <2>5
  <2>7. \A k \in 2 .. Len(stack) : stack'[k + 1] = stack[k]
    BY <2>2, <2>3, <2>4, <2>5
  <2> QED BY <2>1, <2>2, <2>3, <2>6, <2>7 DEF Calls, Pushed
<1>2. CASE ~ (Len(stack) < MaxStack)
  BY <1>2 DEF Call, Overflows
<1> QED BY <1>1, <1>2

-----------------------------------------------------------------------------
(* Each of these keeps the shape of the stack, if the activations that wait *)
(* do not notice what else the step does.                                   *)
Later ==
  /\ UNCHANGED conf
  /\ init_state' \in 0 .. 4 /\ init_state' >= init_state
  /\ semInited => semInited'

Unnoticed ==
  \A k \in 2 .. Len(stack) : \A f \in Frames :
    f = stack[k] => FrameOK(f)'

LEMMA ReplaceKeeps ==
  ASSUME TypeInv, StackInv, Replaced, Later, Unnoticed,
         stack'[1].fn = stack[1].fn, FrameOK(stack[1])', TopOK(stack[1])',
         semInInit' => \/ Initialising(stack'[1])
                       \/ semInInit /\ ~ Initialising(stack[1]),
         conf.ctor /\ ~ semInited' /\ Len(stack) = 1 => stack'[1].at = "get"
  PROVE  StackInv'
<1> USE DEF Replaced
<1>0. \A k \in 1 .. Len(stack) : stack[k] \in Frames /\ stack'[k].fn = stack[k].fn
  BY DEF TypeInv
<1>1. \A k \in 1 .. Len(stack') : FrameOK(stack[k])'
  <2> TAKE k \in 1 .. Len(stack')
  <2>1. CASE k = 1
    BY <2>1
  <2>2. CASE k # 1
    BY <2>2, <1>0 DEF Unnoticed
  <2> QED BY <2>1, <2>2
<1>2. \A k \in 2 .. Len(stack') :
        Waiting(stack'[k]) /\ Called(stack[k - 1], stack[k])'
  <2> TAKE k \in 2 .. Len(stack')
  <2>1. Waiting(stack[k]) /\ Called(stack[k - 1], stack[k])
    BY DEF StackInv
  <2>2. stack'[k] = stack[k] /\ stack'[k - 1].fn = stack[k - 1].fn
    BY <1>0
  <2> QED BY <2>1, <2>2 DEF Called, Later, TypeInv, OUT_CONSTRUCTOR
<1>3. semInInit' => \E k \in 1 .. Len(stack') : Initialising(stack'[k])
  <2>1. CASE Initialising(stack'[1])
    BY <2>1
  <2>2. CASE semInInit /\ ~ Initialising(stack[1])
    BY <2>2 DEF StackInv
  <2> QED BY <2>1, <2>2
<1>4. FreesLast'
  BY <1>0 DEF StackInv, FreesLast
<1>5. Oldest'
  <2>1. CASE Len(stack) = 1
    BY <1>0, <2>1 DEF StackInv, Oldest, Later, TypeInv, OUT_CONSTRUCTOR
  <2>2. CASE Len(stack) > 1
    BY <2>2 DEF StackInv, Oldest, Later, TypeInv, OUT_CONSTRUCTOR
  <2> QED BY <2>1, <2>2
<1> QED BY <1>1, <1>2, <1>3, <1>4, <1>5 DEF StackInv

LEMMA PopKeeps ==
  ASSUME TypeInv, StackInv, Popped, Later, Unnoticed, UNCHANGED blocks,
         stack[1].fn \in {"_duma_init", "malloc", "free"} =>
           stack[1].at = "return",
         semInInit' => semInInit /\ ~ Initialising(stack[1])
  PROVE  StackInv'
<1> USE DEF Popped
<1>0. \A k \in 1 .. Len(stack') : stack'[k] = stack[k + 1] /\ stack[k + 1] \in Frames
  BY DEF TypeInv
<1>1. \A k \in 1 .. Len(stack') : FrameOK(stack[k])'
  BY <1>0 DEF Unnoticed
<1>2. \A k \in 2 .. Len(stack') :
        Waiting(stack'[k]) /\ Called(stack[k - 1], stack[k])'
  <2> TAKE k \in 2 .. Len(stack')
  <2>1. Waiting(stack[k + 1]) /\ Called(stack[(k + 1) - 1], stack[k + 1])
    BY DEF StackInv
  <2>2. stack'[k] = stack[k + 1] /\ stack'[k - 1] = stack[(k + 1) - 1]
    BY <1>0
  <2> QED BY <2>1, <2>2 DEF Called, Later, TypeInv, OUT_CONSTRUCTOR
<1>3. Len(stack') > 0 => TopOK(stack[1])'
  <2> SUFFICES ASSUME Len(stack') > 0 PROVE TopOK(stack[1])'
    OBVIOUS
  <2>1. /\ FrameOK(stack[1]) /\ TopOK(stack[1])
        /\ Waiting(stack[2]) /\ Called(stack[2 - 1], stack[2])
        /\ stack'[1] = stack[2]
    BY <1>0 DEF StackInv
  <2> QED BY <2>1 DEF Called, Later, TypeInv, OUT_CONSTRUCTOR, Waiting, TopOK,
                     FrameOK, LastUsed
<1>4. semInInit' => \E k \in 1 .. Len(stack') : Initialising(stack'[k])
  <2> SUFFICES ASSUME semInInit' PROVE \E k \in 1 .. Len(stack') : Initialising(stack'[k])
    OBVIOUS
  <2>1. PICK k \in 1 .. Len(stack) : Initialising(stack[k])
    BY DEF StackInv
  <2>2. k # 1
    BY <2>1
  <2>3. k - 1 \in 1 .. Len(stack') /\ stack'[k - 1] = stack[k]
    BY <2>2
  <2> QED BY <2>1, <2>3
<1>5. FreesLast'
  <2> SUFFICES ASSUME NEW k \in 1 .. Len(stack'), NEW j \in 1 .. k - 1,
                      stack'[k].fn = "free"
               PROVE  stack'[j].fn \in {"malloc", "init_sem"}
    BY DEF FreesLast
  <2>1. j + 1 \in 1 .. (k + 1) - 1 /\ k + 1 \in 1 .. Len(stack)
    OBVIOUS
  <2>2. stack'[k] = stack[k + 1] /\ stack'[j] = stack[j + 1]
    BY <1>0
  <2> QED BY <2>1, <2>2 DEF StackInv, FreesLast
<1>6. Oldest'
  <2>1. CASE Len(stack) = 1
    <3>1. FrameOK(stack[1])
      BY <2>1 DEF StackInv
    <3> QED BY <3>1, <2>1 DEF StackInv, Oldest, Later, TypeInv, FrameOK, OUT_CONSTRUCTOR
  <2>2. CASE Len(stack) > 1
    <3>1. stack'[Len(stack')] = stack[Len(stack)]
      BY <2>2, <1>0
    <3> QED BY <3>1, <2>2 DEF StackInv, Oldest, Later, TypeInv, OUT_CONSTRUCTOR
  <2> QED BY <2>1, <2>2
<1> QED BY <1>1, <1>2, <1>3, <1>4, <1>5, <1>6 DEF StackInv

LEMMA OneOrMore ==
  ASSUME NEW n \in Nat, n > 0
  PROVE  n = 1 \/ n > 1
OBVIOUS

LEMMA PushKeeps ==
  ASSUME TypeInv, StackInv, Pushed, Later, Unnoticed,
         stack'[2].fn = stack[1].fn, Waiting(stack'[2]), FrameOK(stack[2])',
         Called(stack[1], stack[2])', FrameOK(stack[1])', TopOK(stack[1])',
         \/ stack'[1].fn \in {"malloc", "init_sem"}
         \/ \A k \in 1 .. Len(stack) : stack[k].fn # "free",
         semInInit' =>
           semInInit /\ (Initialising(stack[1]) => Initialising(stack'[2])),
         conf.ctor /\ ~ semInited' /\ Len(stack) = 1 => stack'[2].at = "get"
  PROVE  StackInv'
<1> USE DEF Pushed
<1>0. \A k \in 1 .. Len(stack) :
        stack[k] \in Frames /\ stack'[k + 1].fn = stack[k].fn
  BY DEF TypeInv
<1>a. \A k \in 3 .. Len(stack') : stack'[k] = stack[k - 1] /\ k - 1 \in 2 .. Len(stack)
  <2> TAKE k \in 3 .. Len(stack')
  <2>1. k - 1 \in 2 .. Len(stack) /\ (k - 1) + 1 = k
    BY DEF TypeInv
  <2> QED BY <2>1
<1>1. \A k \in 1 .. Len(stack') : FrameOK(stack[k])'
  <2> TAKE k \in 1 .. Len(stack')
  <2>1. CASE k \in {1, 2}
    BY <2>1
  <2>2. CASE k \in 3 .. Len(stack')
    BY <2>2, <1>0, <1>a DEF Unnoticed
  <2> QED BY <2>1, <2>2
<1>2. \A k \in 2 .. Len(stack') :
        Waiting(stack'[k]) /\ Called(stack[k - 1], stack[k])'
  <2> TAKE k \in 2 .. Len(stack')
  <2>1. CASE k = 2
    BY <2>1
  <2>2. CASE k \in 3 .. Len(stack')
    <3>1. Waiting(stack[k - 1]) /\ Called(stack[(k - 1) - 1], stack[k - 1])
      BY <2>2, <1>a DEF StackInv
    <3>2. (k - 1) - 1 \in 1 .. Len(stack) /\ ((k - 1) - 1) + 1 = k - 1
      BY <2>2 DEF TypeInv
    <3>3. stack'[k] = stack[k - 1] /\ stack'[k - 1].fn = stack[(k - 1) - 1].fn
      BY <2>2, <3>2, <1>0, <1>a
    <3> QED BY <3>1, <3>3 DEF Called, Later, TypeInv, OUT_CONSTRUCTOR
  <2> QED BY <2>1, <2>2
<1>3. semInInit' => \E k \in 1 .. Len(stack') : Initialising(stack'[k])
  <2> SUFFICES ASSUME semInInit' PROVE \E k \in 1 .. Len(stack') : Initialising(stack'[k])
    OBVIOUS
  <2>1. PICK k \in 1 .. Len(stack) : Initialising(stack[k])
    BY DEF StackInv
  <2>2. k + 1 \in 1 .. Len(stack')
    OBVIOUS
  <2>3. Initialising(stack'[k + 1])
    BY <2>1
  <2> QED BY <2>2, <2>3
<1>4. FreesLast'
  <2> SUFFICES ASSUME NEW k \in 1 .. Len(stack'), NEW j \in 1 .. k - 1,
                      stack'[k].fn = "free"
               PROVE  stack'[j].fn \in {"malloc", "init_sem"}
    BY DEF FreesLast
  <2>1. k - 1 \in 1 .. Len(stack) /\ (k - 1) + 1 = k
    BY DEF TypeInv
  <2>2. stack[k - 1].fn = "free"
    BY <2>1, <1>0
  <2>3. CASE j = 1
    BY <2>3, <2>1, <2>2
  <2>4. CASE j # 1
    <3>1. j - 1 \in 1 .. (k - 1) - 1 /\ (j - 1) + 1 = j /\ j - 1 \in 1 .. Len(stack)
      BY <2>4, <2>1 DEF TypeInv
    <3>2. stack[j - 1].fn \in {"malloc", "init_sem"}
      BY <3>1, <2>1, <2>2 DEF StackInv, FreesLast
    <3> QED BY <3>1, <3>2, <1>0
  <2> QED BY <2>3, <2>4
<1>5. Oldest'
  <2>1. CASE Len(stack) = 1
    BY <1>0, <2>1 DEF StackInv, Oldest, Later, TypeInv, OUT_CONSTRUCTOR
  <2>2. CASE Len(stack) > 1
    <3>1. stack'[Len(stack')] = stack[Len(stack)] /\ Len(stack') > 0
      BY <2>2
    <3>2. conf' = conf /\ (init_state' < OUT_CONSTRUCTOR => init_state < OUT_CONSTRUCTOR)
            /\ (~ semInited' => ~ semInited)
      BY DEF Later, TypeInv, OUT_CONSTRUCTOR
    <3>3. Oldest /\ Len(stack) # 1
      BY <2>2 DEF StackInv
    <3>4. Len(stack') \in Nat /\ Len(stack) \in Nat
      BY DEF TypeInv
    <3> QED BY <3>1, <3>2, <3>3, <3>4 DEF Oldest
  <2>3. Len(stack) \in Nat /\ Len(stack) > 0
    BY DEF TypeInv
  <2>4. Len(stack) = 1 \/ Len(stack) > 1
    BY <2>3, OneOrMore
  <2> QED BY <2>1, <2>2, <2>4
<1> QED BY <1>1, <1>2, <1>3, <1>4, <1>5 DEF StackInv
-----------------------------------------------------------------------------
(* What most steps leave alone.                                             *)
LEMMA AtTop ==
  ASSUME TypeInv, NEW fn, NEW at, At(fn, at)
  PROVE  /\ status = "run" /\ stack \in Seq(Frames) /\ stack # <<>> /\ Len(stack) > 0
         /\ top = stack[1] /\ stack[1] \in Frames
         /\ stack[1].fn = fn /\ stack[1].at = at
BY TopFirst DEF TypeInv, At

(* The initialisation and the blocks stay as they are.                      *)
Steady ==
  /\ UNCHANGED <<conf, init_state, constructed, blocks>>
  /\ \/ UNCHANGED SLACKFILL
     \/ SLACKFILL' \in {"default", "env"} /\ (conf.explicit \/ blocks = <<>>)
  /\ semInited => semInited'
  /\ status = "run" /\ status' \in {"run", "overflow", "unregistered"}

LEMMA SteadyFrames ==
  ASSUME UNCHANGED <<conf, init_state, blocks>>, semInited => semInited',
         NEW f, FrameOK(f)
  PROVE  FrameOK(f)'
BY DEF FrameOK

LEMMA SteadyLater ==
  ASSUME TypeInv, StackInv, UNCHANGED <<conf, init_state, blocks>>,
         semInited => semInited'
  PROVE  Later /\ Unnoticed
<1>1. Later
  BY DEF Later, TypeInv
<1>2. Unnoticed
  <2> SUFFICES ASSUME NEW k \in 2 .. Len(stack), NEW f \in Frames, f = stack[k]
               PROVE  FrameOK(f)'
    BY DEF Unnoticed
  <2>1. FrameOK(f)
    BY DEF StackInv, TypeInv
  <2> QED BY <2>1, SteadyFrames
<1> QED BY <1>1, <1>2

LEMMA SteadyKeeps ==
  ASSUME StartInv, Steady
  PROVE  /\ BlocksInv' /\ SlackKnown' /\ ReportInv' /\ status' # "aborted"
         /\ \/ stack[1].fn = "_duma_init"
                 /\ stack[1].at \in {"release", "leave", "callinit"}
            \/ stack[1].fn = "duma_init" /\ stack[1].at = "enter"
            \/ Early'
<1>1. BlocksInv'
  BY DEF StartInv, Steady, BlocksInv
<1>2. SlackKnown'
  BY DEF StartInv, Steady, SlackKnown, ExpectedFill, BlocksInv
<1>3. ReportInv' /\ status' # "aborted"
  BY DEF Steady, ReportInv
<1>4. \/ stack[1].fn = "_duma_init"
           /\ stack[1].at \in {"release", "leave", "callinit"}
      \/ stack[1].fn = "duma_init" /\ stack[1].at = "enter"
      \/ Early'
  BY DEF StartInv, Steady, Early, TypeInv
<1> QED BY <1>1, <1>2, <1>3, <1>4

LEMMA SteadyTypes ==
  ASSUME TypeInv, Steady, stack' \in Seq(Frames),
         semInited' \in BOOLEAN, semInInit' \in BOOLEAN, semDepth' \in Nat
  PROVE  TypeInv'
BY DEF TypeInv, Steady

(* A call that overflows the C stack is the end.                            *)
LEMMA OverflowKeeps ==
  ASSUME StartInv, Steady, Overflows, UNCHANGED sem
  PROVE  StartInv'
<1>1. TypeInv'
  BY SteadyTypes DEF StartInv, TypeInv, Overflows, sem
<1>2. StackInv'
  <2>1. \A k \in 1 .. Len(stack) : FrameOK(stack[k])'
    BY DEF StartInv, StackInv, FrameOK, Steady, sem, Overflows
  <2>2. \A k \in 2 .. Len(stack) : Called(stack[k - 1], stack[k])'
    BY DEF StartInv, StackInv, Called, Steady, Overflows
  <2>3. Len(stack) > 0 => TopOK(stack[1])'
    BY DEF StartInv, StackInv, TopOK, LastUsed, Steady, Overflows
  <2>4. FreesLast' /\ Oldest'
    BY DEF StartInv, StackInv, FreesLast, Oldest, Steady, sem, Overflows
  <2> QED BY <2>1, <2>2, <2>3, <2>4 DEF StartInv, StackInv, sem, Overflows
<1>3. DepthInv'
  BY DEF StartInv, DepthInv, Holding, InitDone, Steady, sem, Overflows
<1>4. Early'
  BY DEF StartInv, Early, Steady, Overflows
<1> QED BY <1>1, <1>2, <1>3, <1>4, SteadyKeeps DEF StartInv

(* A function that waits does not hold the semaphore.                       *)
LEMMA PopDepth ==
  ASSUME TypeInv, StackInv, DepthInv, Popped, ~ Holding(stack[1]),
         UNCHANGED semDepth
  PROVE  DepthInv'
<1>1. semDepth' = 0
  BY DEF DepthInv
<1>2. Len(stack') > 0 => Waiting(stack'[1])
  <2> SUFFICES ASSUME Len(stack') > 0 PROVE Waiting(stack'[1])
    OBVIOUS
  <2>1. 2 \in 2 .. Len(stack) /\ 2 - 1 = 1
    BY DEF Popped, TypeInv
  <2>2. stack'[2 - 1] = stack[2] /\ Waiting(stack[2])
    BY <2>1 DEF Popped, StackInv
  <2> QED BY <2>1, <2>2
<1>3. Len(stack') > 0 => ~ Holding(stack[1])'
  BY <1>2 DEF Waiting, Holding
<1> QED BY <1>1, <1>3 DEF DepthInv

LEMMA FrameTypes ==
  ASSUME NEW fn \in {"_duma_init", "duma_init", "init_sem", "malloc", "free"},
         NEW at \in Labels
  PROVE  /\ Frame(fn, at) \in Frames
         /\ Frame(fn, at).fn = fn /\ Frame(fn, at).at = at
         /\ Frame(fn, at).own = "none"
BY DEF Frame, Frames

LEMMA MallocFrameTypes ==
  ASSUME NEW own \in {"program", "library", "duma"}, NEW line \in {0, 1}
  PROVE  /\ MallocFrame(own, line) \in Frames
         /\ MallocFrame(own, line).fn = "malloc"
         /\ MallocFrame(own, line).at = "test"
         /\ MallocFrame(own, line).own = own
         /\ MallocFrame(own, line).line = line
<1>1. /\ Frame("malloc", "test") \in Frames
      /\ Frame("malloc", "test").fn = "malloc"
      /\ Frame("malloc", "test").at = "test"
  BY FrameTypes DEF Labels
<1>2. PICK f \in Frames : f = Frame("malloc", "test")
  BY <1>1
<1>3. /\ [f EXCEPT !.own = own, !.line = line] \in Frames
      /\ [f EXCEPT !.own = own, !.line = line].fn = f.fn
      /\ [f EXCEPT !.own = own, !.line = line].at = f.at
      /\ [f EXCEPT !.own = own, !.line = line].own = own
      /\ [f EXCEPT !.own = own, !.line = line].line = line
  BY DEF Frames
<1> QED BY <1>1, <1>2, <1>3 DEF MallocFrame

LEMMA FreeFrameTypes ==
  ASSUME NEW b \in Nat
  PROVE  /\ FreeFrame(b) \in Frames
         /\ FreeFrame(b).fn = "free" /\ FreeFrame(b).at = "test"
         /\ FreeFrame(b).own = "none" /\ FreeFrame(b).blk = b
<1>1. PICK f \in Frames : f = Frame("free", "test")
  BY FrameTypes DEF Labels
<1>2. f.fn = "free" /\ f.at = "test" /\ f.own = "none"
  BY <1>1 DEF Frame
<1>3. /\ [f EXCEPT !.blk = b] \in Frames
      /\ [f EXCEPT !.blk = b].fn = f.fn /\ [f EXCEPT !.blk = b].at = f.at
      /\ [f EXCEPT !.blk = b].own = f.own /\ [f EXCEPT !.blk = b].blk = b
  BY DEF Frames
<1> QED BY <1>1, <1>2, <1>3 DEF FreeFrame

-----------------------------------------------------------------------------
(* DUMA_init_sem() and the ends of the functions.                           *)
LEMMA InitSemKeeps ==
  ASSUME StartInv, InitSem
  PROVE  StartInv'
<1>1. /\ status = "run" /\ stack \in Seq(Frames) /\ stack # <<>> /\ Len(stack) > 0
      /\ stack[1].fn = "init_sem" /\ stack[1].at = "enter" /\ stack[1] \in Frames
  BY AtTop DEF StartInv, InitSem
<1>2. /\ Steady /\ UNCHANGED <<semInited, semDepth>>
      /\ FrameOK(stack[1]) /\ TypeInv /\ StackInv /\ DepthInv
  BY <1>1 DEF InitSem, heap, Steady, StartInv, StackInv
<1>3. Later /\ Unnoticed
  BY <1>2, SteadyLater DEF Steady
<1>4. CASE Return /\ UNCHANGED semInInit
  <2>1. Popped
    BY <1>1, <1>4, ReturnMoves
  <2>2. StackInv'
    BY <1>1, <1>2, <1>3, <1>4, <2>1, PopKeeps DEF Steady, Initialising
  <2>3. DepthInv'
    BY <1>1, <1>2, <2>1, PopDepth DEF Holding
  <2>4. TypeInv'
    BY <1>2, <1>4, <2>1, SteadyTypes DEF TypeInv, Popped
  <2> QED BY <1>1, <1>2, <2>2, <2>3, <2>4, SteadyKeeps DEF StartInv
<1>5. CASE ~ semInited /\ Goto("library") /\ semInInit' = TRUE
  <2>1. Replaced /\ Moved(stack[1], stack'[1], "library")
    <3>1. "library" \in Labels /\ Goto("library")
      BY <1>5 DEF Labels
    <3> QED BY <1>1, <3>1, GotoMoves
  <2>2. /\ stack'[1].fn = "init_sem" /\ stack'[1].at = "library"
        /\ stack'[1].own = stack[1].own /\ stack'[1].line = stack[1].line
    BY <1>1, <2>1 DEF Moved
  <2>3. conf.explicit => init_state <= OUT_CONSTRUCTOR
    BY <1>2, <1>5 DEF StartInv, Early, TypeInv, OUT_CONSTRUCTOR
  <2>4. FrameOK(stack[1])'
    BY <1>1, <1>2, <2>2, <2>3 DEF FrameOK, Steady
  <2>5. StackInv'
    <3>1. TopOK(stack[1])'
      BY <2>2 DEF TopOK
    <3>2. Initialising(stack'[1])
      BY <2>2 DEF Initialising
    <3>3. Len(stack) = 1 => semInited \/ ~ conf.ctor
      BY <1>1, <1>2 DEF StackInv, Oldest
    <3> QED BY <1>1, <1>2, <1>3, <1>5, <2>1, <2>2, <2>4, <3>1, <3>2, <3>3,
               ReplaceKeeps
  <2>6. DepthInv'
    BY <1>1, <1>2, <2>1, <2>2 DEF DepthInv, Holding, Replaced
  <2>7. TypeInv'
    BY <1>2, <1>5, <2>1, SteadyTypes DEF TypeInv, Replaced
  <2> QED BY <1>1, <1>2, <2>5, <2>6, <2>7, SteadyKeeps DEF StartInv
<1> QED BY <1>1, <1>4, <1>5 DEF InitSem

LEMMA InitSemLibraryKeeps ==
  ASSUME StartInv, InitSemLibrary
  PROVE  StartInv'
<1>1. /\ status = "run" /\ stack \in Seq(Frames) /\ stack # <<>> /\ Len(stack) > 0
      /\ stack[1].fn = "init_sem" /\ stack[1].at = "library" /\ stack[1] \in Frames
  BY AtTop DEF StartInv, InitSemLibrary
<1>2. /\ UNCHANGED <<conf, init_state, constructed, SLACKFILL, blocks>>
      /\ UNCHANGED <<semInited, semInInit, semDepth>>
      /\ FrameOK(stack[1]) /\ TypeInv /\ StackInv /\ DepthInv
  BY <1>1 DEF InitSemLibrary, heap, sem, StartInv, StackInv
<1>3. Later /\ Unnoticed
  BY <1>2, SteadyLater
<1>4. CASE Call(MallocFrame("library", 0), "done")
  <2>1. Calls(MallocFrame("library", 0), "done") \/ Overflows
    <3>1. MallocFrame("library", 0) \in Frames /\ "done" \in Labels
      BY MallocFrameTypes DEF Labels
    <3> QED BY <1>1, <1>4, <3>1, CallMoves
  <2>2. CASE Overflows
    BY <1>1, <1>2, <2>2, OverflowKeeps DEF Steady, Overflows, sem
  <2>3. CASE Calls(MallocFrame("library", 0), "done")
    <3>1. Pushed /\ UNCHANGED status /\ Steady
      BY <1>1, <1>2, <2>3 DEF Calls, Steady
    <3>2. /\ stack'[1].fn = "malloc" /\ stack'[1].at = "test"
          /\ stack'[1].own = "library" /\ stack'[1].line = 0
      BY <2>3, MallocFrameTypes DEF Calls
    <3>3. /\ stack'[2].fn = "init_sem" /\ stack'[2].at = "done"
          /\ stack'[2].own = stack[1].own /\ stack'[2].line = stack[1].line
      BY <1>1, <2>3 DEF Calls, Moved
    <3>4. conf.explicit => init_state <= OUT_CONSTRUCTOR
      BY <1>1, <1>2 DEF FrameOK
    <3>5. FrameOK(stack[1])' /\ FrameOK(stack[2])'
      BY <1>1, <1>2, <3>2, <3>3, <3>4 DEF FrameOK
    <3>6. /\ TopOK(stack[1])' /\ Called(stack[1], stack[2])'
          /\ Waiting(stack'[2]) /\ Initialising(stack'[2])
      BY <3>2, <3>3 DEF TopOK, Called, Waiting, Initialising
    <3>7. Len(stack) = 1 => semInited \/ ~ conf.ctor
      BY <1>1, <1>2 DEF StackInv, Oldest
    <3>8. StackInv'
      BY <1>1, <1>2, <1>3, <3>1, <3>2, <3>3, <3>5, <3>6, <3>7, PushKeeps
    <3>9. DepthInv'
      BY <1>1, <1>2, <3>1, <3>2 DEF DepthInv, Holding, Pushed
    <3>10. TypeInv'
      BY <1>2, <3>1, SteadyTypes DEF TypeInv, Pushed
    <3> QED BY <1>1, <1>2, <3>1, <3>8, <3>9, <3>10, SteadyKeeps DEF StartInv
  <2> QED BY <2>1, <2>2, <2>3
<1>5. CASE Goto("done") /\ UNCHANGED status
  <2>1. Replaced /\ Moved(stack[1], stack'[1], "done") /\ Steady
    <3>1. "done" \in Labels /\ Goto("done")
      BY <1>5 DEF Labels
    <3>2. Steady
      BY <1>1, <1>2, <1>5 DEF Steady
    <3> QED BY <1>1, <3>1, <3>2, GotoMoves
  <2>2. /\ stack'[1].fn = "init_sem" /\ stack'[1].at = "done"
        /\ stack'[1].own = stack[1].own /\ stack'[1].line = stack[1].line
    BY <1>1, <2>1 DEF Moved
  <2>4. FrameOK(stack[1])' /\ TopOK(stack[1])' /\ Initialising(stack'[1])
    BY <1>1, <1>2, <2>2 DEF FrameOK, TopOK, Initialising
  <2>5. StackInv'
    <3>3. Len(stack) = 1 => semInited \/ ~ conf.ctor
      BY <1>1, <1>2 DEF StackInv, Oldest
    <3> QED BY <1>1, <1>2, <1>3, <1>5, <2>1, <2>2, <2>4, <3>3, ReplaceKeeps
  <2>6. DepthInv'
    BY <1>1, <1>2, <2>1, <2>2 DEF DepthInv, Holding, Replaced
  <2>7. TypeInv'
    BY <1>2, <2>1, SteadyTypes DEF TypeInv, Replaced
  <2> QED BY <1>1, <1>2, <2>1, <2>5, <2>6, <2>7, SteadyKeeps DEF StartInv
<1> QED BY <1>4, <1>5 DEF InitSemLibrary

LEMMA InitSemDoneKeeps ==
  ASSUME StartInv, InitSemDone
  PROVE  StartInv'
<1>1. /\ status = "run" /\ stack \in Seq(Frames) /\ stack # <<>> /\ Len(stack) > 0
      /\ stack[1].fn = "init_sem" /\ stack[1].at = "done" /\ stack[1] \in Frames
  BY AtTop DEF StartInv, InitSemDone
<1>2. /\ Steady /\ UNCHANGED semDepth /\ semInited' = TRUE /\ semInInit' = FALSE
      /\ TypeInv /\ StackInv /\ DepthInv
  BY <1>1 DEF InitSemDone, heap, Steady, StartInv
<1>3. Later /\ Unnoticed /\ Popped
  BY <1>1, <1>2, SteadyLater, ReturnMoves DEF Steady, InitSemDone
<1>4. StackInv'
  BY <1>1, <1>2, <1>3, PopKeeps DEF Steady
<1>5. DepthInv'
  BY <1>1, <1>2, <1>3, PopDepth DEF Holding
<1>6. TypeInv'
  BY <1>2, <1>3, SteadyTypes DEF TypeInv, Popped
<1> QED BY <1>1, <1>2, <1>4, <1>5, <1>6, SteadyKeeps DEF StartInv

LEMMA FunctionReturnKeeps ==
  ASSUME StartInv, FunctionReturn
  PROVE  StartInv'
<1>1. PICK fn \in {"_duma_init", "malloc", "free"} : At(fn, "return")
  BY DEF FunctionReturn
<1>2. /\ status = "run" /\ stack \in Seq(Frames) /\ stack # <<>> /\ Len(stack) > 0
      /\ stack[1].fn = fn /\ stack[1].at = "return" /\ stack[1] \in Frames
  BY <1>1, AtTop DEF StartInv
<1>3. /\ Steady /\ UNCHANGED <<semInited, semInInit, semDepth>>
      /\ TypeInv /\ StackInv /\ DepthInv
  BY <1>2 DEF FunctionReturn, heap, sem, Steady, StartInv
<1>4. Later /\ Unnoticed /\ Popped
  BY <1>2, <1>3, SteadyLater, ReturnMoves DEF Steady, FunctionReturn
<1>5. StackInv'
  BY <1>2, <1>3, <1>4, PopKeeps DEF Steady, Initialising
<1>6. DepthInv'
  BY <1>2, <1>3, <1>4, PopDepth DEF Holding
<1>7. TypeInv'
  BY <1>3, <1>4, SteadyTypes DEF TypeInv, Popped
<1> QED BY <1>2, <1>3, <1>5, <1>6, <1>7, SteadyKeeps DEF StartInv

-----------------------------------------------------------------------------
(* Steps that only move the stack and the semaphore.                        *)
LEMMA SteadyGoto ==
  ASSUME StartInv, Steady, Replaced, stack[1] \in Frames,
         semInited' \in BOOLEAN, UNCHANGED semInInit, semDepth' \in Nat,
         stack'[1].fn = stack[1].fn,
         Initialising(stack[1]) => Initialising(stack'[1]),
         FrameOK(stack[1])', TopOK(stack[1])', DepthInv', Early',
         stack[1].fn = "_duma_init" /\ stack[1].at \in {"enter", "get"} =>
           stack'[1].at = "get" \/ semInited' \/ Len(stack) > 1
  PROVE  StartInv'
<1>1. TypeInv /\ StackInv /\ (semInited => semInited')
  BY DEF StartInv, Steady
<1>2. Later /\ Unnoticed
  BY <1>1, SteadyLater DEF Steady
<1>3. conf.ctor /\ ~ semInited' /\ Len(stack) = 1 => stack'[1].at = "get"
  BY <1>1 DEF StackInv, Oldest
<1>4. semInInit' => \/ Initialising(stack'[1])
                    \/ semInInit /\ ~ Initialising(stack[1])
  OBVIOUS
<1>5. StackInv'
  BY <1>1, <1>2, <1>3, <1>4, ReplaceKeeps, Zenon
<1>6. TypeInv'
  BY <1>1, SteadyTypes DEF TypeInv, Replaced
<1> QED BY <1>5, <1>6, SteadyKeeps DEF StartInv

LEMMA SteadyCall ==
  ASSUME StartInv, Steady, UNCHANGED sem, stack[1] \in Frames,
         NEW g \in Frames, NEW at \in Labels, Calls(g, at),
         g.at \in {"enter", "test"}, ~ Holding(stack[1]),
         Waiting(stack'[2]), FrameOK(stack[2])', FrameOK(stack[1])',
         Called(stack[1], stack[2])', TopOK(stack[1])', Early',
         \/ g.fn \in {"malloc", "init_sem"}
         \/ \A k \in 1 .. Len(stack) : stack[k].fn # "free",
         Initialising(stack[1]) => Initialising(stack'[2]),
         stack[1].fn = "_duma_init" => at = "get" \/ stack[1].at \notin {"enter", "get"}
  PROVE  StartInv'
<1>1. TypeInv /\ StackInv /\ DepthInv /\ UNCHANGED <<semInited, semInInit, semDepth>>
  BY DEF StartInv, sem
<1>2. Later /\ Unnoticed
  BY <1>1, SteadyLater DEF Steady
<1>3. /\ Pushed /\ stack'[1] = g /\ stack'[2].fn = stack[1].fn
      /\ stack'[2].at = at
  BY DEF Calls, Moved
<1>4. conf.ctor /\ ~ semInited' /\ Len(stack) = 1 => stack'[2].at = "get"
  BY <1>1, <1>3 DEF StackInv, Oldest
<1>5. semInInit' =>
        semInInit /\ (Initialising(stack[1]) => Initialising(stack'[2]))
  BY <1>1
<1>6. \/ stack'[1].fn \in {"malloc", "init_sem"}
      \/ \A k \in 1 .. Len(stack) : stack[k].fn # "free"
  BY <1>3
<1>7. StackInv'
  BY <1>1, <1>2, <1>3, <1>4, <1>5, <1>6, PushKeeps, Zenon
<1>8. DepthInv'
  <2>1. semDepth' = 0
    BY <1>1 DEF DepthInv
  <2>2. ~ Holding(stack[1])'
    BY <1>3 DEF Holding
  <2> QED BY <2>1, <2>2 DEF DepthInv
<1>9. TypeInv'
  BY <1>1, <1>3, SteadyTypes DEF TypeInv, Pushed
<1> QED BY <1>7, <1>8, <1>9, SteadyKeeps DEF StartInv

(* Where DUMA_get_sem() and DUMA_rel_sem() are called.                      *)
Getting(next) ==
  /\ stack[1].at = "get"
  /\ \/ stack[1].fn = "_duma_init" /\ next = "build"
     \/ stack[1].fn \in {"malloc", "free"} /\ next = "slot"

Releasing(next) ==
  /\ stack[1].at = "release"
  /\ \/ stack[1].fn = "_duma_init" /\ next = "leave"
     \/ stack[1].fn \in {"malloc", "free"} /\ next = "return"

InHeap == stack[1].fn \in {"malloc", "free"} => InitDone

Running ==
  /\ UNCHANGED <<conf, init_state, constructed, SLACKFILL, blocks>>
  /\ status = "run" /\ stack # <<>>

(* The activation at its next statement satisfies its invariants.           *)
LEMMA GettingFrame ==
  ASSUME StartInv, Running, NEW next, Getting(next),
         Replaced, Moved(stack[1], stack'[1], next)
  PROVE  FrameOK(stack[1])' /\ TopOK(stack[1])' /\ next \in Labels
<1>1. FrameOK(stack[1]) /\ TopOK(stack[1])
  BY DEF StartInv, StackInv, Replaced
<1>2. /\ UNCHANGED <<conf, init_state, blocks>>
      /\ stack'[1].at = next /\ stack'[1].fn = stack[1].fn
      /\ stack'[1].inRec = stack[1].inRec /\ stack'[1].own = stack[1].own
      /\ stack'[1].line = stack[1].line /\ stack'[1].blk = stack[1].blk
  BY DEF Running, Moved
<1>3. FrameOK(stack[1])'
  BY <1>1, <1>2 DEF FrameOK, Getting
<1>4. TopOK(stack[1])'
  BY <1>1, <1>2 DEF TopOK, Getting
<1> QED BY <1>3, <1>4 DEF Getting, Labels

LEMMA GetSemKeeps ==
  ASSUME StartInv, Running, NEW next, Getting(next), InHeap, GetSem(next)
  PROVE  StartInv'
<1>1. /\ TypeInv /\ StackInv /\ DepthInv /\ Len(stack) > 0
      /\ stack \in Seq(Frames) /\ stack[1] \in Frames /\ top = stack[1]
      /\ next \in Labels
  BY TopFirst DEF StartInv, TypeInv, Running, Getting, Labels
<1>2. /\ ~ Initialising(stack[1]) /\ ~ Holding(stack[1]) /\ semDepth = 0
      /\ stack[1].at = "get"
  BY <1>1 DEF Getting, Initialising, Holding, DepthInv
<1>3. ASSUME Replaced, Moved(stack[1], stack'[1], next), UNCHANGED semInited,
             status' = status
      PROVE  Early' /\ Steady
  BY <1>2, <1>3, SteadyKeeps DEF Getting, Steady, Running
<1>4. CASE semInInit
  <2>1. Goto(next) /\ UNCHANGED <<semInited, semInInit, semDepth, status>>
    BY <1>4 DEF GetSem, sem
  <2>2. Replaced /\ Moved(stack[1], stack'[1], next)
    BY <1>1, <2>1, GotoMoves DEF Running
  <2>3. Len(stack) > 1
    <3>1. PICK k \in 1 .. Len(stack) : Initialising(stack[k])
      BY <1>1, <1>4 DEF StackInv
    <3>2. k # 1
      BY <1>2, <3>1
    <3> QED BY <3>2
  <2>4. DepthInv'
    BY <1>2, <1>4, <2>1 DEF DepthInv, Holding
  <2>5. stack'[1].fn = stack[1].fn
    BY <2>2 DEF Moved
  <2>6. semInited' \in BOOLEAN /\ semDepth' \in Nat
    BY <1>1, <2>1 DEF TypeInv
  <2> QED BY <1>1, <1>2, <1>3, <2>1, <2>2, <2>3, <2>4, <2>5, <2>6, GettingFrame,
             SteadyGoto
<1>5. CASE ~ semInInit /\ ~ semInited
  <2>1. Call(Frame("init_sem", "enter"), "get") /\ UNCHANGED sem
    BY <1>1, <1>2, <1>5 DEF GetSem
  <2>2. PICK g \in Frames : /\ g = Frame("init_sem", "enter")
                            /\ g.fn = "init_sem" /\ g.at = "enter" /\ g.own = "none"
    BY FrameTypes DEF Labels
  <2>3. Calls(g, "get") \/ Overflows
    BY <1>1, <2>1, <2>2, CallMoves DEF Labels, Running
  <2>4. CASE Overflows
    BY <2>1, <2>4, OverflowKeeps DEF Steady, Running, Overflows, sem
  <2>5. CASE Calls(g, "get")
    <3>1. /\ stack'[1].fn = "init_sem" /\ stack'[1].at = "enter"
          /\ stack'[1].own = "none"
      BY <2>2, <2>5 DEF Calls
    <3>2. /\ stack'[2].fn = stack[1].fn /\ stack'[2].at = "get"
          /\ stack'[2].own = stack[1].own /\ stack'[2].line = stack[1].line
          /\ stack'[2].inRec = stack[1].inRec /\ stack'[2].blk = stack[1].blk
      BY <2>5 DEF Calls, Moved
    <3>3. Steady /\ UNCHANGED <<semInited, conf, init_state, blocks>>
      BY <2>1, <2>5 DEF Calls, Steady, Running, sem
    <3>4. FrameOK(stack[1]) /\ TopOK(stack[1])
      BY <1>1 DEF StackInv
    <3>5. FrameOK(stack[2])'
      BY <1>2, <3>2, <3>3, <3>4 DEF FrameOK
    <3>6. FrameOK(stack[1])' /\ TopOK(stack[1])'
      BY <3>1 DEF FrameOK, TopOK
    <3>7. Waiting(stack'[2])
      BY <3>2 DEF Waiting, Getting
    <3>8. Called(stack[1], stack[2])'
      BY <1>2, <3>1, <3>2, <3>3, <3>4 DEF Called, TopOK
    <3>9. Early'
      BY <1>2, <3>3, SteadyKeeps
    <3>10. "get" \in Labels
      BY DEF Labels
    <3> QED BY <1>1, <1>2, <2>1, <2>2, <2>5, <3>3, <3>5, <3>6, <3>7, <3>8, <3>9,
               <3>10, SteadyCall
  <2> QED BY <2>3, <2>4, <2>5
<1>6. CASE ~ semInInit /\ semInited
  <2>1. /\ Goto(next) /\ semDepth' = semDepth + 1
        /\ UNCHANGED <<semInited, semInInit, status>>
    BY <1>6 DEF GetSem
  <2>2. Replaced /\ Moved(stack[1], stack'[1], next)
    BY <1>1, <2>1, GotoMoves DEF Running
  <2>3. /\ stack'[1].fn = stack[1].fn /\ stack'[1].at = next
        /\ stack'[1].inRec = stack[1].inRec
    BY <2>2 DEF Moved
  <2>4. FrameOK(stack[1])
    BY <1>1 DEF StackInv
  <2>5. Holding(stack[1])'
    BY <1>2, <1>6, <2>1, <2>3, <2>4
       DEF Holding, InHeap, InitDone, Running, Getting, FrameOK
  <2>6. DepthInv'
    BY <1>1, <1>2, <1>6, <2>1, <2>2, <2>5 DEF DepthInv, Replaced
  <2>7. semInited' \in BOOLEAN /\ semDepth' \in Nat
    BY <1>1, <1>2, <2>1 DEF TypeInv
  <2>8. semInited'
    BY <1>6, <2>1
  <2> QED BY <1>1, <1>2, <1>3, <2>1, <2>2, <2>3, <2>6, <2>7, <2>8, GettingFrame,
             SteadyGoto
<1> QED BY <1>4, <1>5, <1>6

(* "release" is followed by a statement that says no less.                  *)
LEMMA ReleasingFrame ==
  ASSUME StartInv, Running, NEW next, Releasing(next),
         Replaced, Moved(stack[1], stack'[1], next)
  PROVE  FrameOK(stack[1])' /\ TopOK(stack[1])' /\ next \in Labels
<1>1. FrameOK(stack[1]) /\ TopOK(stack[1])
  BY DEF StartInv, StackInv, Replaced
<1>2. /\ UNCHANGED <<conf, init_state, blocks>>
      /\ stack'[1].at = next /\ stack'[1].fn = stack[1].fn
      /\ stack'[1].inRec = stack[1].inRec /\ stack'[1].own = stack[1].own
      /\ stack'[1].line = stack[1].line /\ stack'[1].blk = stack[1].blk
  BY DEF Running, Moved
<1>3. FrameOK(stack[1])'
  BY <1>1, <1>2 DEF FrameOK, Releasing, IN_CONSTRUCTOR, OUT_CONSTRUCTOR
<1>4. TopOK(stack[1])'
  BY <1>1, <1>2 DEF TopOK, Releasing, LastUsed
<1> QED BY <1>3, <1>4 DEF Releasing, Labels

(* After it the constructor may still be on its way to duma_init().         *)
LEMMA ReleasingEarly ==
  ASSUME StartInv, Steady, NEW next, Releasing(next),
         Replaced, Moved(stack[1], stack'[1], next)
  PROVE  Early'
<1>1. CASE stack[1].fn = "_duma_init"
  <2>1. /\ Len(stack') > 0 /\ stack'[1].fn = "_duma_init" /\ stack'[1].at = "leave"
    BY <1>1 DEF Releasing, Moved, Replaced
  <2> QED BY <2>1 DEF Early, StartInv, Steady
<1>2. CASE stack[1].fn # "_duma_init"
  BY <1>2, SteadyKeeps DEF Releasing
<1> QED BY <1>1, <1>2

LEMMA RelSemKeeps ==
  ASSUME StartInv, Running, NEW next, Releasing(next), InHeap, RelSem(next)
  PROVE  StartInv'
<1>1. /\ TypeInv /\ StackInv /\ DepthInv /\ Len(stack) > 0
      /\ stack \in Seq(Frames) /\ stack[1] \in Frames /\ FrameOK(stack[1])
      /\ next \in Labels
  BY TopFirst DEF StartInv, TypeInv, StackInv, Running, Releasing, Labels
<1>2. ~ Initialising(stack[1]) /\ stack[1].at = "release"
  BY DEF Releasing, Initialising
<1>3. ~ semInInit => Holding(stack[1]) /\ semInited /\ semDepth = 1
  BY <1>1, <1>2 DEF Holding, Releasing, InHeap, FrameOK, DepthInv
<1>4. /\ Goto(next) /\ UNCHANGED <<semInited, semInInit, status>>
      /\ semDepth' = 0
  BY <1>1, <1>3 DEF RelSem, sem, DepthInv, Holding
<1>5. Replaced /\ Moved(stack[1], stack'[1], next) /\ Steady
  BY <1>1, <1>4, GotoMoves DEF Running, Steady
<1>6. stack'[1].fn = stack[1].fn /\ stack'[1].at = next
  BY <1>5 DEF Moved
<1>7. DepthInv'
  BY <1>4, <1>6 DEF DepthInv, Holding, Releasing
<1>8. semInited' \in BOOLEAN /\ semDepth' \in Nat
  BY <1>1, <1>4 DEF TypeInv
<1> QED BY <1>1, <1>2, <1>4, <1>5, <1>6, <1>7, <1>8, ReleasingFrame, ReleasingEarly,
           SteadyGoto

LEMMA ConstructorGetKeeps ==
  ASSUME StartInv, ConstructorGet
  PROVE  StartInv'
<1>1. /\ status = "run" /\ stack # <<>>
      /\ stack[1].fn = "_duma_init" /\ stack[1].at = "get"
  BY AtTop DEF StartInv, ConstructorGet
<1>2. Running /\ Getting("build") /\ InHeap /\ GetSem("build")
  BY <1>1 DEF Running, Getting, InHeap, ConstructorGet, heap
<1> QED BY <1>2, GetSemKeeps

LEMMA ConstructorReleaseKeeps ==
  ASSUME StartInv, ConstructorRelease
  PROVE  StartInv'
<1>1. /\ status = "run" /\ stack # <<>>
      /\ stack[1].fn = "_duma_init" /\ stack[1].at = "release"
  BY AtTop DEF StartInv, ConstructorRelease
<1>2. Running /\ Releasing("leave") /\ InHeap /\ RelSem("leave")
  BY <1>1 DEF Running, Releasing, InHeap, ConstructorRelease, heap
<1> QED BY <1>2, RelSemKeeps

LEMMA EnterHeapKeeps ==
  ASSUME StartInv, EnterHeap
  PROVE  StartInv'
<1>1. /\ status = "run" /\ stack # <<>> /\ Len(stack) > 0 /\ stack[1] \in Frames
      /\ stack[1].fn \in {"malloc", "free"} /\ stack[1].at = "get"
      /\ GuardedGet("slot") /\ stack \in Seq(Frames)
  BY AtTop DEF StartInv, EnterHeap
<1>2. Running /\ Getting("slot")
  BY <1>1 DEF Running, Getting, EnterHeap, heap
<1>3. CASE InitDone
  BY <1>1, <1>2, <1>3, GetSemKeeps DEF InHeap, GuardedGet
<1>4. CASE ~ InitDone
  <2>1. Goto("slot") /\ UNCHANGED <<semInited, semInInit, semDepth, status>>
    BY <1>1, <1>4 DEF GuardedGet, sem
  <2>2. Replaced /\ Moved(stack[1], stack'[1], "slot") /\ Steady
    BY <1>1, <1>2, <2>1, GotoMoves DEF Labels, Running, Steady
  <2>3. stack'[1].fn = stack[1].fn /\ stack'[1].at = "slot"
    BY <2>2 DEF Moved
  <2>4. ~ InitDone'
    BY <1>2, <1>4 DEF InitDone, Running
  <2>5. DepthInv'
    BY <1>1, <2>1, <2>3, <2>4 DEF DepthInv, Holding, StartInv
  <2>6. semInited' \in BOOLEAN /\ semDepth' \in Nat /\ ~ Initialising(stack[1])
    BY <1>1, <2>1 DEF TypeInv, StartInv, Initialising
  <2>7. Early'
    BY <1>1, <2>2, SteadyKeeps
  <2> QED BY <1>1, <1>2, <2>1, <2>2, <2>3, <2>5, <2>6, <2>7, GettingFrame, SteadyGoto
<1> QED BY <1>3, <1>4

LEMMA LeaveHeapKeeps ==
  ASSUME StartInv, LeaveHeap
  PROVE  StartInv'
<1>1. /\ status = "run" /\ stack # <<>> /\ Len(stack) > 0 /\ stack[1] \in Frames
      /\ stack[1].fn \in {"malloc", "free"} /\ stack[1].at = "release"
      /\ GuardedRel("return") /\ stack \in Seq(Frames)
  BY AtTop DEF StartInv, LeaveHeap
<1>2. Running /\ Releasing("return")
  BY <1>1 DEF Running, Releasing, LeaveHeap, heap
<1>3. CASE InitDone
  BY <1>1, <1>2, <1>3, RelSemKeeps DEF InHeap, GuardedRel
<1>4. CASE ~ InitDone
  <2>1. Goto("return") /\ UNCHANGED <<semInited, semInInit, semDepth, status>>
    BY <1>1, <1>4 DEF GuardedRel, sem
  <2>2. Replaced /\ Moved(stack[1], stack'[1], "return") /\ Steady
    BY <1>1, <1>2, <2>1, GotoMoves DEF Labels, Running, Steady
  <2>3. stack'[1].fn = stack[1].fn /\ stack'[1].at = "return"
    BY <2>2 DEF Moved
  <2>5. DepthInv'
    BY <1>1, <1>4, <2>1, <2>3 DEF DepthInv, Holding, StartInv
  <2>6. semInited' \in BOOLEAN /\ semDepth' \in Nat /\ ~ Initialising(stack[1])
    BY <1>1, <2>1 DEF TypeInv, StartInv, Initialising
  <2>7. Early'
    BY <1>2, <2>2, ReleasingEarly
  <2> QED BY <1>1, <1>2, <2>1, <2>2, <2>3, <2>5, <2>6, <2>7, ReleasingFrame, SteadyGoto
<1> QED BY <1>3, <1>4

-----------------------------------------------------------------------------
(* _duma_init()                                                             *)
LEMMA ConstructorLeaveKeeps ==
  ASSUME StartInv, ConstructorLeave
  PROVE  StartInv'
<1>1. /\ status = "run" /\ stack # <<>> /\ Len(stack) > 0 /\ stack[1] \in Frames
      /\ stack[1].fn = "_duma_init" /\ stack[1].at = "leave" /\ stack \in Seq(Frames)
  BY AtTop DEF StartInv, ConstructorLeave
<1>2. /\ Steady /\ UNCHANGED <<semInited, semInInit, semDepth, conf, init_state, blocks>>
      /\ status' = status
  BY <1>1 DEF ConstructorLeave, Steady, sem, heap
<1>3. PICK at \in Labels : at = IF conf.explicit THEN "return" ELSE "callinit"
  BY DEF Labels
<1>4. Replaced /\ Moved(stack[1], stack'[1], at)
  BY <1>1, <1>3, GotoMoves DEF ConstructorLeave
<1>5. /\ stack'[1].fn = "_duma_init" /\ stack'[1].at = at
      /\ stack'[1].inRec = stack[1].inRec /\ stack'[1].own = stack[1].own
      /\ stack'[1].line = stack[1].line /\ Len(stack') > 0
  BY <1>1, <1>4 DEF Moved, Replaced
<1>6. FrameOK(stack[1])
  BY <1>1 DEF StartInv, StackInv
<1>7. FrameOK(stack[1])'
  BY <1>1, <1>2, <1>3, <1>5, <1>6 DEF FrameOK
<1>8. TopOK(stack[1])'
  BY <1>5 DEF TopOK
<1>9. DepthInv'
  BY <1>1, <1>2, <1>3, <1>5 DEF StartInv, DepthInv, Holding
<1>10. Early'
  BY <1>2, <1>3, <1>5 DEF StartInv, Early
<1>11. semInited' \in BOOLEAN /\ semDepth' \in Nat /\ ~ Initialising(stack[1])
  BY <1>1, <1>2 DEF TypeInv, StartInv, Initialising
<1> QED BY <1>1, <1>2, <1>4, <1>5, <1>7, <1>8, <1>9, <1>10, <1>11, SteadyGoto

LEMMA ConstructorCallInitKeeps ==
  ASSUME StartInv, ConstructorCallInit
  PROVE  StartInv'
<1>1. /\ status = "run" /\ stack # <<>> /\ Len(stack) > 0 /\ stack[1] \in Frames
      /\ stack[1].fn = "_duma_init" /\ stack[1].at = "callinit" /\ stack \in Seq(Frames)
  BY AtTop DEF StartInv, ConstructorCallInit
<1>2. /\ UNCHANGED <<constructed, SLACKFILL, semInited, semInInit, semDepth, conf,
                     init_state, blocks>>
      /\ UNCHANGED sem
  BY DEF ConstructorCallInit, sem, heap
<1>3. /\ FrameOK(stack[1]) /\ ~ Initialising(stack[1]) /\ ~ Holding(stack[1])
      /\ StackInv /\ ~ conf.explicit /\ init_state >= OUT_CONSTRUCTOR
  BY <1>1 DEF StartInv, StackInv, Initialising, Holding, FrameOK
<1>4. CASE Call(Frame("duma_init", "enter"), "return")
  <2>1. PICK g \in Frames : /\ g = Frame("duma_init", "enter")
                            /\ g.fn = "duma_init" /\ g.at = "enter" /\ g.own = "none"
    BY FrameTypes DEF Labels
  <2>2. Calls(g, "return") \/ Overflows
    BY <1>1, <1>4, <2>1, CallMoves DEF Labels
  <2>3. CASE Overflows
    BY <1>1, <1>2, <2>3, OverflowKeeps DEF Steady, Overflows
  <2>4. CASE Calls(g, "return")
    <3>1. /\ stack'[1].fn = "duma_init" /\ stack'[1].at = "enter"
          /\ stack'[1].own = "none" /\ Len(stack') > 0
      BY <1>1, <2>1, <2>4 DEF Calls, Pushed
    <3>2. /\ stack'[2].fn = "_duma_init" /\ stack'[2].at = "return"
          /\ stack'[2].own = stack[1].own /\ stack'[2].line = stack[1].line
      BY <1>1, <2>4 DEF Calls, Moved
    <3>3. Steady
      BY <1>1, <1>2, <2>4 DEF Calls, Steady
    <3>4. FrameOK(stack[2])'
      BY <1>1, <1>2, <1>3, <3>2 DEF FrameOK
    <3>5. FrameOK(stack[1])' /\ TopOK(stack[1])'
      BY <1>2, <1>3, <3>1 DEF FrameOK, TopOK
    <3>6. Waiting(stack'[2]) /\ Called(stack[1], stack[2])'
      BY <1>2, <1>3, <3>2 DEF Waiting, Called
    <3>7. Early'
      BY <1>2, <1>3, <3>1 DEF StartInv, Early
    <3>8. \A k \in 1 .. Len(stack) : stack[k].fn # "free"
      BY <1>1, <1>3 DEF StackInv, FreesLast
    <3>9. "return" \in Labels
      BY DEF Labels
    <3> QED BY <1>1, <1>2, <1>3, <2>1, <2>4, <3>3, <3>4, <3>5, <3>6, <3>7, <3>8, <3>9,
               SteadyCall
  <2> QED BY <2>2, <2>3, <2>4
<1>5. CASE Goto("return") /\ UNCHANGED status /\ init_state >= OUT_INIT
  <2>1. Replaced /\ Moved(stack[1], stack'[1], "return") /\ Steady
    BY <1>1, <1>2, <1>5, GotoMoves DEF Labels, Steady
  <2>2. /\ stack'[1].fn = "_duma_init" /\ stack'[1].at = "return"
        /\ stack'[1].own = stack[1].own /\ stack'[1].line = stack[1].line
    BY <1>1, <2>1 DEF Moved
  <2>3. FrameOK(stack[1])' /\ TopOK(stack[1])'
    BY <1>1, <1>2, <1>3, <2>2 DEF FrameOK, TopOK
  <2>4. DepthInv'
    BY <1>1, <1>2, <1>3, <2>2 DEF StartInv, DepthInv, Holding
  <2>5. Early'
    BY <1>2, <1>5 DEF StartInv, TypeInv, Early, OUT_CONSTRUCTOR, OUT_INIT
  <2>6. semInited' \in BOOLEAN /\ semDepth' \in Nat
    BY <1>2 DEF TypeInv, StartInv
  <2> QED BY <1>1, <1>2, <1>3, <2>1, <2>2, <2>3, <2>4, <2>5, <2>6, SteadyGoto
<1>6. /\ init_state \in Nat
      /\ init_state < OUT_INIT \/ init_state >= OUT_INIT
  BY DEF StartInv, TypeInv, OUT_INIT
<1> QED BY <1>4, <1>5, <1>6 DEF ConstructorCallInit

-----------------------------------------------------------------------------
(* The steps that bring the initialisation on.                              *)
LEMMA ForwardFrames ==
  ASSUME TypeInv, UNCHANGED <<conf, blocks, semInited>>,
         init_state' \in 0 .. 4, init_state' >= init_state,
         conf.explicit => init_state' <= OUT_CONSTRUCTOR,
         NEW f, FrameOK(f)
  PROVE  FrameOK(f)'
BY DEF FrameOK, TypeInv, IN_CONSTRUCTOR, OUT_CONSTRUCTOR, IN_INIT

LEMMA ForwardLater ==
  ASSUME TypeInv, StackInv, UNCHANGED <<conf, blocks, semInited>>,
         init_state' \in 0 .. 4, init_state' >= init_state,
         \/ Len(stack) = 1
         \/ conf.explicit => init_state' <= OUT_CONSTRUCTOR
  PROVE  Later /\ Unnoticed
<1>1. Later
  BY DEF Later
<1>2. Unnoticed
  <2> SUFFICES ASSUME NEW k \in 2 .. Len(stack), NEW f \in Frames, f = stack[k]
               PROVE  FrameOK(f)'
    BY DEF Unnoticed
  <2>1. FrameOK(f) /\ Len(stack) # 1
    BY DEF StackInv, TypeInv
  <2> QED BY <2>1, ForwardFrames
<1> QED BY <1>1, <1>2

LEMMA ConstructorKeeps ==
  ASSUME StartInv, Constructor
  PROVE  StartInv'
<1>1. /\ status = "run" /\ stack # <<>> /\ Len(stack) > 0 /\ stack[1] \in Frames
      /\ stack[1].fn = "_duma_init" /\ stack[1].at = "enter" /\ stack \in Seq(Frames)
      /\ top = stack[1]
  BY AtTop DEF StartInv, Constructor
<1>2. /\ UNCHANGED <<constructed, SLACKFILL, semInited, semInInit, semDepth, conf,
                     blocks, status, atexit, report>>
      /\ TypeInv /\ StackInv /\ DepthInv /\ FrameOK(stack[1])
      /\ ~ Initialising(stack[1]) /\ ~ Holding(stack[1])
  BY <1>1 DEF Constructor, sem, heap, StartInv, StackInv, Initialising, Holding
<1>3. CASE init_state >= OUT_CONSTRUCTOR
  <2>0. UNCHANGED init_state
    BY <1>3 DEF Constructor
  <2>1. PICK at \in Labels : at = IF conf.explicit THEN "return" ELSE "callinit"
    BY DEF Labels
  <2>2. Replaced /\ Moved(stack[1], stack'[1], at) /\ Steady
    BY <1>1, <1>2, <1>3, <2>0, <2>1, GotoMoves DEF Constructor, Steady
  <2>3. /\ stack'[1].fn = "_duma_init" /\ stack'[1].at = at
        /\ stack'[1].inRec = stack[1].inRec /\ stack'[1].own = stack[1].own
        /\ stack'[1].line = stack[1].line /\ Len(stack') > 0
    BY <1>1, <2>2 DEF Moved, Replaced
  <2>4. FrameOK(stack[1])' /\ TopOK(stack[1])'
    BY <1>1, <1>2, <1>3, <2>0, <2>1, <2>3
       DEF FrameOK, TopOK, OUT_CONSTRUCTOR, IN_CONSTRUCTOR, TypeInv
  <2>5. DepthInv'
    BY <1>1, <1>2, <2>0, <2>1, <2>3 DEF DepthInv, Holding
  <2>6. Early'
    BY <1>1, <2>2, SteadyKeeps
  <2>7. semInited' \in BOOLEAN /\ semDepth' \in Nat
    BY <1>2 DEF TypeInv
  <2>8. conf.ctor /\ ~ semInited' /\ Len(stack) = 1 => stack'[1].at = "get"
    BY <1>2, <1>1, <1>3
       DEF StackInv, Oldest, OUT_CONSTRUCTOR, UNINITIALIZED
  <2>9. Later /\ Unnoticed
    BY <1>2, <2>0, SteadyLater
  <2>10. StackInv'
    BY <1>1, <1>2, <2>2, <2>3, <2>4, <2>8, <2>9, ReplaceKeeps
  <2>11. TypeInv'
    BY <1>2, <2>2, <2>7, SteadyTypes DEF TypeInv, Replaced
  <2> QED BY <2>2, <2>5, <2>6, <2>10, <2>11, SteadyKeeps DEF StartInv
<1>4. CASE ~ (init_state >= OUT_CONSTRUCTOR)
  <2>1. PICK rec \in BOOLEAN : rec = (init_state >= IN_CONSTRUCTOR)
    <3>1. (init_state >= IN_CONSTRUCTOR) \in BOOLEAN
      OBVIOUS
    <3> QED BY <3>1, Zenon
  <2>a. PICK at \in Labels : at = IF rec THEN "build" ELSE "get"
    BY DEF Labels
  <2>2. PICK g \in Frames :
          /\ g = [stack[1] EXCEPT !.inRec = rec, !.at = at]
          /\ g.fn = "_duma_init" /\ g.inRec = rec /\ g.at = at
          /\ g.own = stack[1].own /\ g.line = stack[1].line
    <3>1. PICK f \in Frames : f = stack[1]
      BY <1>1
    <3>2. /\ [f EXCEPT !.inRec = rec, !.at = at] \in Frames
          /\ [f EXCEPT !.inRec = rec, !.at = at].fn = f.fn
          /\ [f EXCEPT !.inRec = rec, !.at = at].inRec = rec
          /\ [f EXCEPT !.inRec = rec, !.at = at].at = at
          /\ [f EXCEPT !.inRec = rec, !.at = at].own = f.own
          /\ [f EXCEPT !.inRec = rec, !.at = at].line = f.line
      BY DEF Frames
    <3>3. PICK g \in Frames : g = [f EXCEPT !.inRec = rec, !.at = at]
      BY <3>2
    <3> QED BY <1>1, <3>1, <3>2, <3>3
  <2>3. stack' = <<g>> \o Tail(stack) /\ init_state' = IN_CONSTRUCTOR
    <3>1. /\ stack' = <<[top EXCEPT !.inRec = init_state >= IN_CONSTRUCTOR,
                           !.at = IF init_state >= IN_CONSTRUCTOR THEN "build" ELSE "get"]>>
                        \o Tail(stack)
          /\ init_state' = IN_CONSTRUCTOR
      BY <1>4, Zenon DEF Constructor
    <3> QED BY <1>1, <2>1, <2>a, <2>2, <3>1
  <2>4. Replaced /\ stack'[1] = g
    BY <1>1, <2>3, ReplaceMoves
  <2>5. /\ init_state \in 0 .. 1 /\ init_state' = 1
        /\ conf.explicit => init_state' <= OUT_CONSTRUCTOR
    BY <1>2, <1>4, <2>3 DEF TypeInv, OUT_CONSTRUCTOR, IN_CONSTRUCTOR
  <2>6. Later /\ Unnoticed
    BY <1>2, <2>5, ForwardLater
  <2>7. FrameOK(stack[1])' /\ TopOK(stack[1])'
    BY <1>1, <1>2, <2>a, <2>2, <2>4, <2>5
       DEF FrameOK, TopOK, OUT_CONSTRUCTOR, IN_CONSTRUCTOR
  <2>8. conf.ctor /\ ~ semInited' /\ Len(stack) = 1 => stack'[1].at = "get"
    <3>1. conf.ctor /\ ~ semInited /\ Len(stack) = 1 => init_state = UNINITIALIZED
      BY <1>1, <1>2 DEF StackInv, Oldest
    <3>2. init_state = UNINITIALIZED => ~ (init_state >= IN_CONSTRUCTOR)
      BY DEF UNINITIALIZED, IN_CONSTRUCTOR
    <3>3. init_state = UNINITIALIZED => ~ rec
      BY <2>1, <3>2
    <3>4. stack'[1].at = at
      BY <2>2, <2>4
    <3> QED BY <1>2, <2>a, <3>1, <3>3, <3>4
  <2>9. StackInv'
    BY <1>1, <1>2, <2>2, <2>4, <2>6, <2>7, <2>8, ReplaceKeeps
  <2>10. DepthInv'
    BY <1>1, <1>2, <2>a, <2>2, <2>4 DEF DepthInv, Holding
  <2>11. TypeInv'
    BY <1>2, <2>4, <2>5 DEF TypeInv, Replaced, OUT_CONSTRUCTOR
  <2>12. Early'
    BY <1>2, <2>5 DEF StartInv, Early, OUT_CONSTRUCTOR
  <2>13. BlocksInv' /\ SlackKnown'
    BY <1>2, <2>5 DEF StartInv, BlocksInv, SlackKnown, ExpectedFill, OUT_CONSTRUCTOR
  <2>14. ReportInv' /\ status' # "aborted"
    BY <1>1, <1>2 DEF ReportInv
  <2> QED BY <2>9, <2>10, <2>11, <2>12, <2>13, <2>14 DEF StartInv
<1> QED BY <1>3, <1>4

LEMMA ConstructorBuildKeeps ==
  ASSUME StartInv, ConstructorBuild
  PROVE  StartInv'
<1>1. /\ status = "run" /\ stack # <<>> /\ Len(stack) > 0 /\ stack[1] \in Frames
      /\ stack[1].fn = "_duma_init" /\ stack[1].at = "build" /\ stack \in Seq(Frames)
      /\ top = stack[1]
  BY AtTop DEF StartInv, ConstructorBuild
<1>2. /\ UNCHANGED <<SLACKFILL, semInited, semInInit, semDepth, conf,
                     blocks, status, atexit, report>>
      /\ TypeInv /\ StackInv /\ DepthInv /\ FrameOK(stack[1]) /\ init_state \in 0 .. 4
      /\ ~ Initialising(stack[1])
  BY <1>1 DEF ConstructorBuild, sem, StartInv, StackInv, Initialising, TypeInv
<1>3. /\ init_state' \in 2 .. 4 /\ init_state' >= init_state
      /\ constructed' = 1
      /\ conf.explicit => \/ init_state' <= OUT_CONSTRUCTOR
                          \/ init_state' = init_state
  BY <1>2 DEF ConstructorBuild, TypeInv, OUT_CONSTRUCTOR
<1>4. PICK at \in Labels : at = IF top.inRec THEN "leave" ELSE "release"
  BY DEF Labels
<1>5. Replaced /\ Moved(stack[1], stack'[1], at)
  BY <1>1, <1>4, GotoMoves DEF ConstructorBuild
<1>6. /\ stack'[1].fn = "_duma_init" /\ stack'[1].at = at
      /\ stack'[1].inRec = stack[1].inRec /\ stack'[1].own = stack[1].own
      /\ stack'[1].line = stack[1].line /\ Len(stack') > 0
  BY <1>1, <1>5 DEF Moved, Replaced
<1>7. Later /\ Unnoticed
  <2>1. CASE init_state' = init_state
    BY <1>2, <2>1, SteadyLater
  <2>2. CASE conf.explicit => init_state' <= OUT_CONSTRUCTOR
    <3>1. init_state' \in 0 .. 4
      BY <1>3
    <3> QED BY <1>2, <1>3, <2>2, <3>1, ForwardLater
  <2> QED BY <1>3, <2>1, <2>2
<1>8. FrameOK(stack[1])' /\ TopOK(stack[1])'
  BY <1>1, <1>2, <1>3, <1>4, <1>6
     DEF FrameOK, TopOK, OUT_CONSTRUCTOR, IN_CONSTRUCTOR
<1>9. conf.ctor /\ ~ semInited' /\ Len(stack) = 1 => stack'[1].at = "get"
  BY <1>1, <1>2 DEF StackInv, Oldest
<1>10. StackInv'
  BY <1>1, <1>2, <1>5, <1>6, <1>7, <1>8, <1>9, ReplaceKeeps
<1>11. DepthInv'
  BY <1>1, <1>2, <1>4, <1>6 DEF DepthInv, Holding
<1>12. TypeInv'
  BY <1>2, <1>3, <1>5 DEF TypeInv, Replaced, OUT_CONSTRUCTOR
<1>13. Early'
  <2>1. CASE init_state >= OUT_CONSTRUCTOR
    <3>1. UNCHANGED init_state
      BY <2>1 DEF ConstructorBuild
    <3> QED BY <1>1, <1>2, <2>1, <3>1 DEF StartInv, Early, OUT_CONSTRUCTOR
  <2>2. CASE ~ (init_state >= OUT_CONSTRUCTOR)
    <3>1. init_state' = OUT_CONSTRUCTOR
      BY <2>2 DEF ConstructorBuild
    <3>2. stack'[1].at \in {"leave", "release"}
      BY <1>4, <1>6
    <3> QED BY <1>2, <1>6, <2>2, <3>1, <3>2 DEF StartInv, Early, OUT_CONSTRUCTOR
  <2> QED BY <2>1, <2>2
<1>14. BlocksInv' /\ SlackKnown'
  BY <1>2, <1>3 DEF StartInv, BlocksInv, SlackKnown, ExpectedFill, OUT_CONSTRUCTOR
<1>15. ReportInv' /\ status' # "aborted"
  BY <1>1, <1>2 DEF ReportInv
<1> QED BY <1>10, <1>11, <1>12, <1>13, <1>14, <1>15 DEF StartInv

-----------------------------------------------------------------------------
(* duma_init()                                                              *)

(* With DUMA_EXPLICIT_INIT duma_init() is called by the program only.       *)
LEMMA ExplicitAlone ==
  ASSUME StartInv, conf.explicit, Len(stack) > 0, stack[1].fn = "duma_init"
  PROVE  Len(stack) = 1
<1>1. Len(stack) \in Nat
  BY DEF StartInv, TypeInv
<1>2. Len(stack) > 1 => Called(stack[2 - 1], stack[2])
  BY <1>1 DEF StartInv, StackInv
<1>3. Len(stack) > 1 => Called(stack[1], stack[2])
  BY <1>2
<1>4. ~ (Len(stack) > 1)
  BY <1>3 DEF Called
<1> QED BY <1>1, <1>4, OneOrMore

(* Nothing is allocated by a library then, so nothing of it is in the way.  *)
LEMMA DumaInitForward ==
  ASSUME StartInv, Len(stack) > 0, stack[1].fn = "duma_init",
         UNCHANGED <<conf, blocks, semInited>>,
         init_state' \in 0 .. 4, init_state' >= init_state
  PROVE  Later /\ Unnoticed
<1>1. Len(stack) = 1 \/ ~ conf.explicit
  BY ExplicitAlone
<1> QED BY <1>1, ForwardLater DEF StartInv

LEMMA DumaInitEnterKeeps ==
  ASSUME StartInv, DumaInitEnter
  PROVE  StartInv'
<1>1. /\ status = "run" /\ stack # <<>> /\ Len(stack) > 0 /\ stack[1] \in Frames
      /\ stack[1].fn = "duma_init" /\ stack[1].at = "enter" /\ stack \in Seq(Frames)
  BY AtTop DEF StartInv, DumaInitEnter
<1>2. /\ UNCHANGED <<constructed, SLACKFILL, semInited, semInInit, semDepth, conf,
                     blocks, status, atexit, report>>
      /\ TypeInv /\ StackInv /\ DepthInv /\ FrameOK(stack[1])
      /\ ~ Initialising(stack[1]) /\ ~ Holding(stack[1])
  BY <1>1 DEF DumaInitEnter, sem, heap, StartInv, StackInv, Initialising, Holding
<1>3. CASE init_state >= IN_INIT
  <2>1. Return /\ UNCHANGED init_state
    BY <1>3 DEF DumaInitEnter
  <2>2. Steady /\ Popped
    BY <1>1, <1>2, <2>1, ReturnMoves DEF Steady
  <2>3. Later /\ Unnoticed
    BY <1>2, <2>1, SteadyLater
  <2>4. StackInv'
    BY <1>1, <1>2, <2>2, <2>3, PopKeeps
  <2>5. DepthInv'
    BY <1>2, <2>2, PopDepth
  <2>6. TypeInv'
    BY <1>2, <2>2, SteadyTypes DEF TypeInv, Popped
  <2>7. Early'
    BY <1>2, <1>3, <2>1 DEF StartInv, Early, TypeInv, IN_INIT, OUT_CONSTRUCTOR
  <2> QED BY <2>2, <2>4, <2>5, <2>6, <2>7, SteadyKeeps DEF StartInv
<1>4. CASE ~ (init_state >= IN_INIT)
  <2>1. Goto("getenv") /\ init_state = 2 /\ init_state' = 3
    BY <1>1, <1>2, <1>4
       DEF DumaInitEnter, FrameOK, TypeInv, IN_INIT, OUT_CONSTRUCTOR
  <2>2. Replaced /\ Moved(stack[1], stack'[1], "getenv")
    BY <1>1, <2>1, GotoMoves DEF Labels
  <2>3. /\ stack'[1].fn = "duma_init" /\ stack'[1].at = "getenv"
        /\ stack'[1].own = stack[1].own
    BY <1>1, <2>2 DEF Moved
  <2>4. Later /\ Unnoticed
    BY <1>1, <1>2, <2>1, DumaInitForward
  <2>5. FrameOK(stack[1])'
    BY <1>1, <1>2, <2>1, <2>3 DEF FrameOK, OUT_CONSTRUCTOR, IN_INIT
  <2>6. TopOK(stack[1])'
    BY <1>2, <2>1, <2>3 DEF TopOK, StartInv, Early, OUT_CONSTRUCTOR
  <2>7. conf.ctor /\ ~ semInited' /\ Len(stack) = 1 => stack'[1].at = "get"
    BY <1>1, <1>2 DEF StackInv, Oldest
  <2>8. StackInv'
    BY <1>1, <1>2, <2>2, <2>3, <2>4, <2>5, <2>6, <2>7, ReplaceKeeps
  <2>9. DepthInv'
    BY <1>2, <2>3 DEF DepthInv, Holding
  <2>10. TypeInv'
    BY <1>2, <2>1, <2>2 DEF TypeInv, Replaced, OUT_CONSTRUCTOR
  <2>11. Early'
    BY <1>1, <1>2, <2>1 DEF Early, FrameOK, OUT_CONSTRUCTOR
  <2>12. BlocksInv' /\ SlackKnown'
    BY <1>2, <2>1 DEF StartInv, BlocksInv, SlackKnown, ExpectedFill, OUT_CONSTRUCTOR
  <2>13. ReportInv' /\ status' # "aborted"
    BY <1>1, <1>2 DEF ReportInv
  <2> QED BY <2>8, <2>9, <2>10, <2>11, <2>12, <2>13 DEF StartInv
<1> QED BY <1>3, <1>4

LEMMA DumaInitDoneKeeps ==
  ASSUME StartInv, DumaInitDone
  PROVE  StartInv'
<1>1. /\ status = "run" /\ stack # <<>> /\ Len(stack) > 0 /\ stack[1] \in Frames
      /\ stack[1].fn = "duma_init" /\ stack[1].at = "done" /\ stack \in Seq(Frames)
  BY AtTop DEF StartInv, DumaInitDone
<1>2. /\ UNCHANGED <<constructed, SLACKFILL, semInited, semInInit, semDepth, conf,
                     blocks, status, atexit, report>>
      /\ TypeInv /\ StackInv /\ DepthInv /\ FrameOK(stack[1])
      /\ ~ Initialising(stack[1]) /\ ~ Holding(stack[1])
  BY <1>1 DEF DumaInitDone, sem, heap, StartInv, StackInv, Initialising, Holding
<1>3. /\ init_state \in 3 .. 4 /\ init_state' = 4 /\ Popped
  BY <1>1, <1>2, ReturnMoves DEF DumaInitDone, FrameOK, TypeInv, IN_INIT, OUT_INIT
<1>4. Later /\ Unnoticed
  BY <1>1, <1>2, <1>3, DumaInitForward
<1>5. StackInv'
  BY <1>1, <1>2, <1>3, <1>4, PopKeeps
<1>6. DepthInv'
  BY <1>2, <1>3, PopDepth
<1>7. TypeInv'
  BY <1>2, <1>3 DEF TypeInv, Popped, OUT_CONSTRUCTOR
<1>8. Early'
  BY <1>1, <1>2, <1>3 DEF Early, FrameOK, OUT_CONSTRUCTOR
<1>9. BlocksInv' /\ SlackKnown'
  BY <1>2, <1>3 DEF StartInv, BlocksInv, SlackKnown, ExpectedFill, OUT_CONSTRUCTOR
<1>10. ReportInv' /\ status' # "aborted"
  BY <1>1, <1>2 DEF ReportInv
<1> QED BY <1>5, <1>6, <1>7, <1>8, <1>9, <1>10 DEF StartInv

(* duma_init() goes on to its next statement or calls a function first.     *)
InDumaInit(from, to) ==
  \/ from = "getenv" /\ to \in {"copy", "atexit"}
  \/ from = "copy" /\ to = "atexit"
  \/ from = "atexit" /\ to = "semaphore"
  \/ from = "semaphore" /\ to = "malloc"
  \/ from = "malloc" /\ to = "free"
  \/ from = "free" /\ to = "done"

LEMMA DumaInitGoes ==
  ASSUME StartInv, Steady, UNCHANGED sem, UNCHANGED status, stack # <<>>,
         stack[1].fn = "duma_init",
         NEW to, InDumaInit(stack[1].at, to), to # "free", Goto(to)
  PROVE  StartInv'
<1>1. /\ TypeInv /\ StackInv /\ Len(stack) > 0 /\ stack[1] \in Frames
      /\ stack \in Seq(Frames) /\ FrameOK(stack[1])
      /\ UNCHANGED <<semInited, semInInit, semDepth>>
  BY TopFirst DEF StartInv, TypeInv, StackInv, sem
<1>2. to \in {"copy", "atexit", "semaphore", "malloc", "done"} /\ to \in Labels
  BY DEF InDumaInit, Labels
<1>3. Replaced /\ Moved(stack[1], stack'[1], to)
  BY <1>1, <1>2, GotoMoves
<1>4. /\ stack'[1].fn = "duma_init" /\ stack'[1].at = to
      /\ stack'[1].own = stack[1].own
  BY <1>3 DEF Moved
<1>5. FrameOK(stack[1])' /\ TopOK(stack[1])'
  BY <1>1, <1>2, <1>4 DEF FrameOK, TopOK, Steady, InDumaInit
<1>6. DepthInv'
  BY <1>1, <1>4 DEF StartInv, DepthInv, Holding
<1>7. Early'
  BY SteadyKeeps DEF InDumaInit
<1>8. semInited' \in BOOLEAN /\ semDepth' \in Nat /\ ~ Initialising(stack[1])
  BY <1>1 DEF TypeInv, Initialising
<1> QED BY <1>1, <1>3, <1>4, <1>5, <1>6, <1>7, <1>8, SteadyGoto

LEMMA DumaInitCalls ==
  ASSUME StartInv, Steady, UNCHANGED sem, stack # <<>>,
         stack[1].fn = "duma_init",
         NEW to, InDumaInit(stack[1].at, to),
         NEW g \in Frames, g.at \in {"enter", "test"},
         g.fn \in {"malloc", "init_sem", "free"},
         g.fn = "free" =>
           /\ g.blk \in 1 .. Len(blocks) /\ blocks[g.blk].used
           /\ init_state >= OUT_CONSTRUCTOR,
         g.fn = "init_sem" => g.at = "enter",
         g.fn = "malloc" => g.at = "test",
         g.own = "library" => g.fn = "malloc" /\ g.line = 0 /\ ~ conf.explicit,
         to = "free" => g.fn = "malloc",
         Call(g, to)
  PROVE  StartInv'
<1>1. /\ TypeInv /\ StackInv /\ Len(stack) > 0 /\ stack[1] \in Frames
      /\ stack \in Seq(Frames) /\ FrameOK(stack[1])
      /\ UNCHANGED <<semInited, semInInit, semDepth, conf, init_state, blocks>>
  BY TopFirst DEF StartInv, TypeInv, StackInv, sem, Steady
<1>2. to \in {"copy", "atexit", "semaphore", "malloc", "free", "done"} /\ to \in Labels
  BY DEF InDumaInit, Labels
<1>3. Calls(g, to) \/ Overflows
  BY <1>1, <1>2, CallMoves
<1>4. CASE Overflows
  BY <1>4, OverflowKeeps
<1>5. CASE Calls(g, to)
  <2>1. /\ stack'[1] = g
        /\ stack'[2].fn = "duma_init" /\ stack'[2].at = to
        /\ stack'[2].own = stack[1].own
    BY <1>5 DEF Calls, Moved
  <2>2. FrameOK(stack[2])'
    BY <1>1, <1>2, <2>1 DEF FrameOK, InDumaInit
  <2>3. FrameOK(stack[1])' /\ TopOK(stack[1])'
    BY <1>1, <2>1 DEF FrameOK, TopOK
  <2>4. Waiting(stack'[2]) /\ Called(stack[1], stack[2])'
    BY <1>2, <2>1 DEF Waiting, Called
  <2>5. Early'
    BY SteadyKeeps DEF InDumaInit
  <2>6. \A k \in 1 .. Len(stack) : stack[k].fn # "free"
    BY <1>1 DEF StackInv, FreesLast
  <2>7. ~ Initialising(stack[1]) /\ ~ Holding(stack[1])
    BY DEF Initialising, Holding
  <2> QED BY <1>1, <1>2, <1>5, <2>2, <2>3, <2>4, <2>5, <2>6, <2>7, SteadyCall
<1> QED BY <1>3, <1>4, <1>5

LEMMA GetEnvVarsKeeps ==
  ASSUME StartInv, GetEnvVars
  PROVE  StartInv'
<1>1. /\ status = "run" /\ stack # <<>> /\ Len(stack) > 0
      /\ stack[1].fn = "duma_init" /\ stack[1].at \in {"getenv", "copy"}
  BY AtTop DEF StartInv, GetEnvVars
<1>2. /\ UNCHANGED <<constructed, conf, init_state, blocks, atexit, semInited>>
      /\ UNCHANGED sem
      /\ SLACKFILL' \in {"default", "env"} /\ InDumaInit(stack[1].at, "atexit")
      /\ stack[1].at = "getenv" => InDumaInit(stack[1].at, "copy")
  BY <1>1 DEF GetEnvVars, sem, StartInv, TypeInv, InDumaInit
<1>3. \/ UNCHANGED SLACKFILL
      \/ stack[1].at = "getenv" /\ (conf.explicit \/ blocks = <<>>)
  <2>1. stack[1].at = "copy" => UNCHANGED SLACKFILL
    BY AtTop DEF StartInv, GetEnvVars
  <2> QED BY <1>1, <2>1 DEF StartInv, StackInv, TopOK
<1>4. CASE Goto("atexit") /\ UNCHANGED status
  <2>1. Steady
    BY <1>1, <1>2, <1>3, <1>4 DEF Steady
  <2> QED BY <1>1, <1>2, <1>4, <2>1, DumaInitGoes
<1>5. ASSUME NEW to, InDumaInit(stack[1].at, to), to # "free",
             Call(MallocFrame("duma", 1), to)
      PROVE  StartInv'
  <2>1. PICK g \in Frames : /\ g = MallocFrame("duma", 1)
                            /\ g.fn = "malloc" /\ g.at = "test" /\ g.own = "duma"
    BY MallocFrameTypes
  <2>2. Steady
    BY <1>1, <1>2, <1>3, <1>5 DEF Steady, Call
  <2>3. Call(g, to)
    BY <1>5, <2>1
  <2> QED BY <1>1, <1>2, <1>5, <2>1, <2>2, <2>3, DumaInitCalls
<1>6. CASE Call(MallocFrame("duma", 1), "atexit")
  BY <1>2, <1>5, <1>6
<1>7. CASE stack[1].at = "getenv" /\ Call(MallocFrame("duma", 1), "copy")
  BY <1>2, <1>5, <1>7
<1>8. \/ Goto("atexit") /\ UNCHANGED status
      \/ Call(MallocFrame("duma", 1), "atexit")
      \/ stack[1].at = "getenv" /\ Call(MallocFrame("duma", 1), "copy")
  BY AtTop DEF StartInv, GetEnvVars
<1> QED BY <1>4, <1>6, <1>7, <1>8

LEMMA RegisterExitKeeps ==
  ASSUME StartInv, RegisterExit, ConstructorRuns
  PROVE  StartInv'
<1>1. /\ status = "run" /\ stack # <<>> /\ Len(stack) > 0
      /\ stack[1].fn = "duma_init" /\ stack[1].at = "atexit"
  BY AtTop DEF StartInv, RegisterExit
<1>2. /\ UNCHANGED <<constructed, SLACKFILL, conf, init_state, blocks, semInited>>
      /\ UNCHANGED sem /\ InDumaInit(stack[1].at, "semaphore")
  BY <1>1 DEF RegisterExit, sem, heap, InDumaInit
<1>3. CASE Goto("semaphore") /\ UNCHANGED status
  <2>1. Steady
    BY <1>1, <1>2, <1>3 DEF Steady
  <2> QED BY <1>1, <1>2, <1>3, <2>1, DumaInitGoes
<1>4. CASE ~ conf.ctor /\ Call(MallocFrame("library", 0), "semaphore")
  <2>1. PICK g \in Frames : /\ g = MallocFrame("library", 0)
                            /\ g.fn = "malloc" /\ g.at = "test" /\ g.own = "library"
                            /\ g.line = 0
    BY MallocFrameTypes
  <2>2. Steady
    BY <1>1, <1>2, <1>4 DEF Steady, Call
  <2>3. Call(g, "semaphore") /\ ~ conf.explicit
    BY <1>4, <2>1 DEF ConstructorRuns, StartInv, TypeInv
  <2> QED BY <1>1, <1>2, <2>1, <2>2, <2>3, DumaInitCalls
<1>5. CASE status' = "unregistered" /\ stack' = stack
  <2>1. Steady /\ Overflows
    BY <1>1, <1>2, <1>5 DEF Steady, Overflows
  <2> QED BY <1>1, <1>2, <2>1, OverflowKeeps
<1> QED BY <1>3, <1>4, <1>5 DEF RegisterExit

LEMMA DumaInitTestKeeps ==
  ASSUME StartInv, DumaInitTest
  PROVE  StartInv'
<1>1. /\ UNCHANGED <<constructed, SLACKFILL, conf, init_state, blocks, semInited>>
      /\ UNCHANGED sem
  BY DEF DumaInitTest, sem, heap
<1>2. CASE At("duma_init", "semaphore") /\ Call(Frame("init_sem", "enter"), "malloc")
  <2>1. /\ status = "run" /\ stack # <<>>
        /\ stack[1].fn = "duma_init" /\ stack[1].at = "semaphore"
    BY <1>2, AtTop DEF StartInv
  <2>2. PICK g \in Frames : /\ g = Frame("init_sem", "enter")
                            /\ g.fn = "init_sem" /\ g.at = "enter" /\ g.own = "none"
    BY FrameTypes DEF Labels
  <2>3. Steady /\ Call(g, "malloc") /\ InDumaInit(stack[1].at, "malloc")
    BY <1>1, <1>2, <2>1, <2>2 DEF Steady, Call, InDumaInit
  <2> QED BY <1>1, <2>1, <2>2, <2>3, DumaInitCalls
<1>3. CASE At("duma_init", "malloc") /\ Call(MallocFrame("duma", 0), "free")
  <2>1. /\ status = "run" /\ stack # <<>>
        /\ stack[1].fn = "duma_init" /\ stack[1].at = "malloc"
    BY <1>3, AtTop DEF StartInv
  <2>2. PICK g \in Frames : /\ g = MallocFrame("duma", 0)
                            /\ g.fn = "malloc" /\ g.at = "test" /\ g.own = "duma"
    BY MallocFrameTypes
  <2>3. Steady /\ Call(g, "free") /\ InDumaInit(stack[1].at, "free")
    BY <1>1, <1>3, <2>1, <2>2 DEF Steady, Call, InDumaInit
  <2> QED BY <1>1, <2>1, <2>2, <2>3, DumaInitCalls
<1>4. CASE At("duma_init", "free") /\ Call(FreeFrame(Len(blocks)), "done")
  <2>1. /\ status = "run" /\ stack # <<>> /\ Len(stack) > 0
        /\ stack[1].fn = "duma_init" /\ stack[1].at = "free"
    BY <1>4, AtTop DEF StartInv
  <2>2. Len(blocks) \in Nat /\ LastUsed /\ init_state >= OUT_CONSTRUCTOR
    BY <2>1 DEF StartInv, StackInv, TopOK, TypeInv, FrameOK
  <2>3. PICK g \in Frames : /\ g = FreeFrame(Len(blocks))
                            /\ g.fn = "free" /\ g.at = "test" /\ g.own = "none"
                            /\ g.blk = Len(blocks)
    BY <2>2, FreeFrameTypes
  <2>4. Steady /\ Call(g, "done") /\ InDumaInit(stack[1].at, "done")
    BY <1>1, <1>4, <2>1, <2>3 DEF Steady, Call, InDumaInit
  <2>5. g.blk \in 1 .. Len(blocks) /\ blocks[g.blk].used
    BY <2>2, <2>3 DEF LastUsed
  <2> QED BY <1>1, <2>1, <2>2, <2>3, <2>4, <2>5, DumaInitCalls
<1> QED BY <1>2, <1>3, <1>4 DEF DumaInitTest

-----------------------------------------------------------------------------
(* malloc() and free()                                                      *)
LEMMA MallocTestKeeps ==
  ASSUME StartInv, MallocTest
  PROVE  StartInv'
<1>1. /\ status = "run" /\ stack # <<>> /\ Len(stack) > 0 /\ stack[1] \in Frames
      /\ stack[1].fn = "malloc" /\ stack[1].at = "test" /\ stack \in Seq(Frames)
  BY AtTop DEF StartInv, MallocTest
<1>2. /\ UNCHANGED <<constructed, SLACKFILL, semInited, semInInit, semDepth, conf,
                     init_state, blocks>>
      /\ UNCHANGED sem
      /\ TypeInv /\ StackInv /\ DepthInv /\ FrameOK(stack[1])
      /\ ~ Initialising(stack[1]) /\ ~ Holding(stack[1])
  BY <1>1 DEF MallocTest, sem, heap, StartInv, StackInv, Initialising, Holding
<1>3. CASE constructed = 0 /\ Call(Frame("_duma_init", "enter"), "get")
  <2>1. PICK g \in Frames : /\ g = Frame("_duma_init", "enter")
                            /\ g.fn = "_duma_init" /\ g.at = "enter" /\ g.own = "none"
    BY FrameTypes DEF Labels
  <2>2. Calls(g, "get") \/ Overflows
    BY <1>1, <1>3, <2>1, CallMoves DEF Labels
  <2>3. CASE Overflows
    BY <1>1, <1>2, <2>3, OverflowKeeps DEF Steady, Overflows
  <2>4. CASE Calls(g, "get")
    <3>1. /\ stack'[1].fn = "_duma_init" /\ stack'[1].at = "enter"
          /\ stack'[1].own = "none"
      BY <2>1, <2>4 DEF Calls
    <3>2. /\ stack'[2].fn = "malloc" /\ stack'[2].at = "get"
          /\ stack'[2].own = stack[1].own /\ stack'[2].line = stack[1].line
      BY <1>1, <2>4 DEF Calls, Moved
    <3>3. Steady
      BY <1>1, <1>2, <2>4 DEF Calls, Steady
    <3>4. FrameOK(stack[2])'
      BY <1>1, <1>2, <3>2 DEF FrameOK
    <3>5. FrameOK(stack[1])' /\ TopOK(stack[1])'
      BY <3>1 DEF FrameOK, TopOK
    <3>6. Waiting(stack'[2]) /\ Called(stack[1], stack[2])'
      BY <3>1, <3>2 DEF Waiting, Called
    <3>7. Early'
      BY <1>1, <3>3, SteadyKeeps
    <3>8. \A k \in 1 .. Len(stack) : stack[k].fn # "free"
      BY <1>2, <1>3 DEF StackInv, TypeInv, FrameOK
    <3>9. "get" \in Labels
      BY DEF Labels
    <3> QED BY <1>1, <1>2, <2>1, <2>4, <3>3, <3>4, <3>5, <3>6, <3>7, <3>8, <3>9,
               SteadyCall
  <2> QED BY <2>2, <2>3, <2>4
<1>4. CASE constructed # 0 /\ Goto("get") /\ UNCHANGED status
  <2>1. Replaced /\ Moved(stack[1], stack'[1], "get") /\ Steady
    BY <1>1, <1>2, <1>4, GotoMoves DEF Labels, Steady
  <2>2. /\ stack'[1].fn = "malloc" /\ stack'[1].at = "get"
        /\ stack'[1].own = stack[1].own /\ stack'[1].line = stack[1].line
    BY <1>1, <2>1 DEF Moved
  <2>3. init_state >= OUT_CONSTRUCTOR
    BY <1>2, <1>4 DEF TypeInv
  <2>4. FrameOK(stack[1])' /\ TopOK(stack[1])'
    BY <1>1, <1>2, <2>2, <2>3 DEF FrameOK, TopOK
  <2>5. DepthInv'
    BY <1>2, <2>2 DEF DepthInv, Holding
  <2>6. Early'
    BY <1>1, <2>1, SteadyKeeps
  <2>7. semInited' \in BOOLEAN /\ semDepth' \in Nat
    BY <1>2 DEF TypeInv
  <2> QED BY <1>1, <1>2, <2>1, <2>2, <2>4, <2>5, <2>6, <2>7, SteadyGoto
<1> QED BY <1>3, <1>4 DEF MallocTest

LEMMA FreeTestKeeps ==
  ASSUME StartInv, FreeTest
  PROVE  StartInv'
<1>1. /\ status = "run" /\ stack # <<>> /\ Len(stack) > 0 /\ stack[1] \in Frames
      /\ stack[1].fn = "free" /\ stack[1].at = "test" /\ stack \in Seq(Frames)
  BY AtTop DEF StartInv, FreeTest
<1>2. /\ UNCHANGED <<constructed, SLACKFILL, semInited, semInInit, semDepth, conf,
                     init_state, blocks>>
      /\ TypeInv /\ StackInv /\ DepthInv /\ FrameOK(stack[1])
      /\ ~ Initialising(stack[1]) /\ ~ Holding(stack[1])
  BY <1>1 DEF FreeTest, sem, heap, StartInv, StackInv, Initialising, Holding
<1>3. constructed # 0
  BY <1>1, <1>2 DEF FrameOK, TypeInv
<1>4. Goto("get") /\ UNCHANGED status
  BY <1>3 DEF FreeTest
<1>5. Replaced /\ Moved(stack[1], stack'[1], "get") /\ Steady
  BY <1>1, <1>2, <1>4, GotoMoves DEF Labels, Steady
<1>6. /\ stack'[1].fn = "free" /\ stack'[1].at = "get"
      /\ stack'[1].own = stack[1].own /\ stack'[1].line = stack[1].line
      /\ stack'[1].blk = stack[1].blk
  BY <1>1, <1>5 DEF Moved
<1>7. FrameOK(stack[1])' /\ TopOK(stack[1])'
  BY <1>1, <1>2, <1>6 DEF FrameOK, TopOK
<1>8. DepthInv'
  BY <1>2, <1>6 DEF DepthInv, Holding
<1>9. Early'
  BY <1>1, <1>5, SteadyKeeps
<1>10. semInited' \in BOOLEAN /\ semDepth' \in Nat
  BY <1>2 DEF TypeInv
<1> QED BY <1>1, <1>2, <1>5, <1>6, <1>7, <1>8, <1>9, <1>10, SteadyGoto

(* The slot of a new block.                                                 *)
LEMMA NewSlot ==
  ASSUME StartInv, Len(stack) > 0, stack[1].fn = "malloc", stack[1].at = "slot",
         status = "run", stack[1] \in Frames
  PROVE  LET b == [own |-> stack[1].own, used |-> TRUE, line |-> stack[1].line,
                   lineno |-> StoredLine(stack[1].line),
                   slack |-> SLACKFILL, slackfill |-> SLACKFILL,
                   started |-> init_state = OUT_INIT]
         IN  /\ b \in SlotRecords
             /\ b.used /\ b.slack = SLACKFILL /\ b.slackfill = SLACKFILL
             /\ b.started => b.lineno = b.line
             /\ b.own = "library" =>
                  b.lineno <= 0 /\ (conf.explicit => b.lineno = -1)
<1>1. TypeInv /\ FrameOK(stack[1])
  BY DEF StartInv, StackInv
<1>2. PICK started \in BOOLEAN : started = (init_state = OUT_INIT)
  OBVIOUS
<1>3. PICK line \in {-1, 0, 1} : line = StoredLine(stack[1].line)
  BY DEF StoredLine, Frames
<1>4. stack[1].own \in {"none", "program", "library", "duma"} /\ stack[1].line \in {0, 1}
  BY DEF Frames
<1>5. started => line = stack[1].line
  BY <1>2, <1>3 DEF StoredLine, InitDone
<1>6. stack[1].own = "library" => line <= 0 /\ (conf.explicit => line = -1)
  BY <1>1, <1>3, <1>4
     DEF FrameOK, StoredLine, InitDone, OUT_INIT, OUT_CONSTRUCTOR, TypeInv
<1> QED BY <1>1, <1>2, <1>3, <1>4, <1>5, <1>6 DEF SlotRecords, TypeInv

LEMMA MallocSlotKeeps ==
  ASSUME StartInv, MallocSlot
  PROVE  StartInv'
<1>1. /\ status = "run" /\ stack # <<>> /\ Len(stack) > 0 /\ stack[1] \in Frames
      /\ stack[1].fn = "malloc" /\ stack[1].at = "slot" /\ stack \in Seq(Frames)
      /\ top = stack[1]
  BY AtTop DEF StartInv, MallocSlot
<1>2. /\ UNCHANGED <<constructed, SLACKFILL, semInited, semInInit, semDepth, conf,
                     init_state, atexit, report>>
      /\ TypeInv /\ StackInv /\ DepthInv /\ FrameOK(stack[1]) /\ TopOK(stack[1])
      /\ ~ Initialising(stack[1])
  BY <1>1 DEF MallocSlot, sem, StartInv, StackInv, Initialising
<1>3. init_state >= OUT_CONSTRUCTOR /\ constructed # 0
  BY <1>1, <1>2 DEF TopOK, TypeInv
<1>4. PICK b \in SlotRecords :
        /\ b = [own |-> top.own, used |-> TRUE, line |-> top.line,
                lineno |-> StoredLine(top.line),
                slack |-> SLACKFILL, slackfill |-> SLACKFILL,
                started |-> init_state = OUT_INIT]
        /\ b.used /\ b.slack = SLACKFILL /\ b.slackfill = SLACKFILL
        /\ b.started => b.lineno = b.line
        /\ b.own = "library" =>
             b.lineno <= 0 /\ (conf.explicit => b.lineno = -1)
  BY <1>1, NewSlot
<1>5. blocks' = Append(blocks, b) /\ Goto("release") /\ UNCHANGED status
  BY <1>3, <1>4 DEF MallocSlot
<1>6. Replaced /\ Moved(stack[1], stack'[1], "release")
  BY <1>1, <1>5, GotoMoves DEF Labels
<1>7. /\ stack'[1].fn = "malloc" /\ stack'[1].at = "release"
      /\ stack'[1].own = stack[1].own /\ stack'[1].line = stack[1].line
  BY <1>1, <1>6 DEF Moved
<1>8. /\ blocks \in Seq(SlotRecords) /\ blocks' \in Seq(SlotRecords)
      /\ Len(blocks) \in Nat /\ Len(blocks') = Len(blocks) + 1
      /\ \A k \in 1 .. Len(blocks) : blocks'[k] = blocks[k]
      /\ blocks'[Len(blocks) + 1] = b
  BY <1>2, <1>5 DEF TypeInv
<1>9. Later /\ Unnoticed
  <2>1. ASSUME NEW f \in Frames, FrameOK(f) PROVE FrameOK(f)'
    BY <1>2, <1>8, <2>1 DEF FrameOK
  <2>2. Unnoticed
    <3> SUFFICES ASSUME NEW k \in 2 .. Len(stack), NEW f \in Frames, f = stack[k]
                 PROVE  FrameOK(f)'
      BY DEF Unnoticed
    <3>1. FrameOK(f)
      BY <1>2 DEF StackInv, TypeInv
    <3> QED BY <2>1, <3>1
  <2> QED BY <1>2, <2>2 DEF Later, TypeInv
<1>10. FrameOK(stack[1])' /\ TopOK(stack[1])'
  <2>1. LastUsed'
    BY <1>4, <1>8 DEF LastUsed
  <2> QED BY <1>1, <1>2, <1>3, <1>7, <2>1 DEF FrameOK, TopOK
<1>11. conf.ctor /\ ~ semInited' /\ Len(stack) = 1 => stack'[1].at = "get"
  BY <1>1, <1>2 DEF StackInv, Oldest
<1>12. StackInv'
  BY <1>1, <1>2, <1>6, <1>7, <1>9, <1>10, <1>11, ReplaceKeeps
<1>13. DepthInv'
  BY <1>1, <1>2, <1>6, <1>7 DEF DepthInv, Holding, InitDone, Replaced
<1>14. TypeInv'
  BY <1>2, <1>6, <1>8 DEF TypeInv, Replaced
<1>15. Early'
  BY <1>1, <1>2, <1>3 DEF StartInv, Early, TypeInv, OUT_CONSTRUCTOR
<1>16. \A k \in 1 .. Len(blocks') : k \in 1 .. Len(blocks) \/ k = Len(blocks) + 1
  BY <1>8
<1>17. BlocksInv'
  <2>1. \A k \in 1 .. Len(blocks') :
          /\ blocks'[k].started => blocks'[k].lineno = blocks'[k].line
          /\ blocks'[k].own = "library" =>
               blocks'[k].lineno <= 0 /\ (conf'.explicit => blocks'[k].lineno = -1)
          /\ blocks'[k].slackfill = blocks'[k].slack
    <3> TAKE k \in 1 .. Len(blocks')
    <3>1. CASE k \in 1 .. Len(blocks)
      BY <1>2, <1>8, <3>1 DEF StartInv, BlocksInv
    <3>2. CASE k = Len(blocks) + 1
      BY <1>2, <1>4, <1>8, <3>2
    <3> QED BY <1>16, <3>1, <3>2
  <2> QED BY <1>2, <1>3, <2>1 DEF BlocksInv
<1>18. SlackKnown'
  <2> SUFFICES ASSUME NEW k \in 1 .. Len(blocks'), blocks'[k].used
               PROVE  ExpectedFill(k)' = blocks'[k].slack
    BY DEF SlackKnown
  <2>1. CASE k \in 1 .. Len(blocks)
    BY <1>2, <1>8, <2>1 DEF StartInv, SlackKnown, ExpectedFill
  <2>2. CASE k = Len(blocks) + 1
    BY <1>2, <1>4, <1>8, <2>2 DEF ExpectedFill
  <2> QED BY <1>16, <2>1, <2>2
<1>19. ReportInv' /\ status' # "aborted"
  BY <1>1, <1>5 DEF ReportInv
<1> QED BY <1>12, <1>13, <1>14, <1>15, <1>17, <1>18, <1>19 DEF StartInv

LEMMA FreeSlotKeeps ==
  ASSUME StartInv, FreeSlot
  PROVE  StartInv'
<1>1. /\ status = "run" /\ stack # <<>> /\ Len(stack) > 0 /\ stack[1] \in Frames
      /\ stack[1].fn = "free" /\ stack[1].at = "slot" /\ stack \in Seq(Frames)
      /\ top = stack[1]
  BY AtTop DEF StartInv, FreeSlot
<1>2. /\ UNCHANGED <<constructed, SLACKFILL, semInited, semInInit, semDepth, conf,
                     init_state, atexit, report>>
      /\ TypeInv /\ StackInv /\ DepthInv /\ FrameOK(stack[1])
      /\ ~ Initialising(stack[1])
  BY <1>1 DEF FreeSlot, sem, StartInv, StackInv, Initialising
<1>3. /\ stack[1].blk \in 1 .. Len(blocks) /\ blocks[stack[1].blk].used
      /\ init_state >= OUT_CONSTRUCTOR
  BY <1>1, <1>2 DEF FrameOK
<1>4. ExpectedFill(stack[1].blk) = blocks[stack[1].blk].slack
  BY <1>3 DEF StartInv, SlackKnown
<1>5. /\ blocks' = [blocks EXCEPT ![stack[1].blk].used = FALSE]
      /\ Goto("release") /\ UNCHANGED status
  BY <1>1, <1>4 DEF FreeSlot
<1>6. Replaced /\ Moved(stack[1], stack'[1], "release")
  BY <1>1, <1>5, GotoMoves DEF Labels
<1>7. /\ stack'[1].fn = "free" /\ stack'[1].at = "release"
      /\ stack'[1].own = stack[1].own /\ stack'[1].line = stack[1].line
      /\ stack'[1].blk = stack[1].blk
  BY <1>1, <1>6 DEF Moved
<1>8. /\ blocks' \in Seq(SlotRecords) /\ Len(blocks') = Len(blocks)
      /\ \A k \in 1 .. Len(blocks) :
           /\ blocks'[k].used => blocks[k].used
           /\ blocks'[k].own = blocks[k].own /\ blocks'[k].line = blocks[k].line
           /\ blocks'[k].lineno = blocks[k].lineno
           /\ blocks'[k].slack = blocks[k].slack
           /\ blocks'[k].slackfill = blocks[k].slackfill
           /\ blocks'[k].started = blocks[k].started
  <2>1. PICK i \in 1 .. Len(blocks) : i = stack[1].blk
    BY <1>3
  <2>2. PICK b \in SlotRecords : b = blocks[i]
    BY <1>2, <2>1 DEF TypeInv
  <2>3. PICK c \in SlotRecords : c = [b EXCEPT !.used = FALSE]
    BY DEF SlotRecords
  <2>4. /\ ~ c.used /\ c.own = b.own /\ c.line = b.line /\ c.lineno = b.lineno
        /\ c.slack = b.slack /\ c.slackfill = b.slackfill /\ c.started = b.started
    BY <2>3 DEF SlotRecords
  <2>5. blocks' = [blocks EXCEPT ![i] = c] /\ blocks \in Seq(SlotRecords)
    BY <1>2, <1>5, <2>1, <2>2, <2>3 DEF TypeInv
  <2>6. blocks' \in Seq(SlotRecords) /\ Len(blocks') = Len(blocks)
    BY <2>1, <2>5
  <2>7. \A k \in 1 .. Len(blocks) : blocks'[k] = IF k = i THEN c ELSE blocks[k]
    BY <2>1, <2>5
  <2> QED BY <2>2, <2>4, <2>6, <2>7
<1>9. Later /\ Unnoticed
  <2>1. ASSUME NEW f \in Frames, FrameOK(f), f.fn # "free" PROVE FrameOK(f)'
    BY <1>2, <2>1 DEF FrameOK
  <2>2. Unnoticed
    <3> SUFFICES ASSUME NEW k \in 2 .. Len(stack), NEW f \in Frames, f = stack[k]
                 PROVE  FrameOK(f)'
      BY DEF Unnoticed
    <3>1. FrameOK(f) /\ f.fn # "free"
      BY <1>1, <1>2 DEF StackInv, TypeInv, FreesLast
    <3> QED BY <2>1, <3>1
  <2> QED BY <1>2, <2>2 DEF Later, TypeInv
<1>10. FrameOK(stack[1])' /\ TopOK(stack[1])'
  BY <1>1, <1>2, <1>3, <1>7, <1>8 DEF FrameOK, TopOK
<1>11. conf.ctor /\ ~ semInited' /\ Len(stack) = 1 => stack'[1].at = "get"
  BY <1>1, <1>2 DEF StackInv, Oldest
<1>12. StackInv'
  BY <1>1, <1>2, <1>6, <1>7, <1>9, <1>10, <1>11, ReplaceKeeps
<1>13. DepthInv'
  BY <1>1, <1>2, <1>6, <1>7 DEF DepthInv, Holding, InitDone, Replaced
<1>14. TypeInv'
  BY <1>2, <1>6, <1>8 DEF TypeInv, Replaced
<1>15. Early'
  BY <1>1, <1>2, <1>3 DEF StartInv, Early, TypeInv, OUT_CONSTRUCTOR
<1>16. BlocksInv' /\ SlackKnown'
  BY <1>2, <1>8 DEF StartInv, BlocksInv, SlackKnown, ExpectedFill
<1>17. ReportInv' /\ status' # "aborted"
  BY <1>1, <1>5 DEF ReportInv
<1> QED BY <1>12, <1>13, <1>14, <1>15, <1>16, <1>17 DEF StartInv

-----------------------------------------------------------------------------
(* The program                                                              *)
LEMMA ProgramCalls ==
  ASSUME StartInv, Idle, NEW g \in Frames, stack' = <<g>>,
         UNCHANGED <<conf, init_state, constructed, SLACKFILL, blocks, semInited,
                     semInInit, semDepth, status>>,
         g.at \in {"enter", "test"}, g.fn \in {"malloc", "free", "duma_init"},
         g.own # "library", g.fn = "malloc" => g.at = "test",
         g.fn = "free" =>
           g.blk \in 1 .. Len(blocks) /\ blocks[g.blk].used,
         g.fn = "duma_init" => conf.explicit /\ conf.ctor /\ g.at = "enter"
  PROVE  StartInv'
<1>1. /\ TypeInv /\ StackInv /\ DepthInv /\ Early /\ BlocksInv
      /\ Len(stack) = 0 /\ status = "run" /\ ~ semInInit /\ semDepth = 0
  BY DEF StartInv, Idle, StackInv, DepthInv
<1>2. /\ Len(stack') = 1 /\ stack'[1] = g /\ stack' \in Seq(Frames)
  OBVIOUS
<1>3. conf.ctor => init_state >= OUT_CONSTRUCTOR /\ semInited
  BY <1>1 DEF StackInv, Oldest, TypeInv, OUT_CONSTRUCTOR
<1>4. Len(blocks) > 0 => init_state >= OUT_CONSTRUCTOR
  BY <1>1 DEF BlocksInv
<1>5. FrameOK(g)' /\ TopOK(g)'
  BY <1>3, <1>4 DEF FrameOK, TopOK
<1>6. StackInv'
  <2>1. FrameOK(stack[1])' /\ TopOK(stack[1])'
    BY <1>2, <1>5 DEF FrameOK, TopOK, LastUsed
  <2>2. FreesLast'
    BY <1>2 DEF FreesLast
  <2>3. Oldest'
    BY <1>1, <1>3 DEF Oldest, OUT_CONSTRUCTOR, TypeInv
  <2> QED BY <1>1, <1>2, <2>1, <2>2, <2>3 DEF StackInv
<1>7. Steady
  BY <1>1 DEF Steady
<1>8. DepthInv'
  BY <1>1, <1>2 DEF DepthInv, Holding
<1>9. TypeInv'
  BY <1>1, <1>2, <1>7, SteadyTypes DEF TypeInv
<1>10. Early'
  BY <1>1, <1>2 DEF Early
<1> QED BY <1>6, <1>7, <1>8, <1>9, <1>10, SteadyKeeps DEF StartInv

LEMMA ProgramKeeps ==
  ASSUME StartInv, Program, ConstructorRuns
  PROVE  StartInv'
<1>1. CASE ProgramMalloc
  <2>1. PICK line \in {0, 1} : stack' = <<MallocFrame("program", line)>>
    BY <1>1 DEF ProgramMalloc
  <2>2. PICK g \in Frames : /\ g = MallocFrame("program", line)
                            /\ g.fn = "malloc" /\ g.at = "test" /\ g.own = "program"
    BY MallocFrameTypes
  <2> QED BY <1>1, <2>1, <2>2, ProgramCalls DEF ProgramMalloc, sem, heap
<1>2. CASE ProgramFree
  <2>1. PICK b \in 1 .. Len(blocks) : blocks[b].used /\ stack' = <<FreeFrame(b)>>
    BY <1>2 DEF ProgramFree
  <2>2. b \in Nat
    BY DEF StartInv, TypeInv
  <2>3. PICK g \in Frames : /\ g = FreeFrame(b) /\ g.blk = b
                            /\ g.fn = "free" /\ g.at = "test" /\ g.own = "none"
    BY <2>2, FreeFrameTypes
  <2> QED BY <1>2, <2>1, <2>3, ProgramCalls DEF ProgramFree, sem, heap
<1>3. CASE ProgramInit
  <2>1. PICK g \in Frames : /\ g = Frame("duma_init", "enter")
                            /\ g.fn = "duma_init" /\ g.at = "enter" /\ g.own = "none"
    BY FrameTypes DEF Labels
  <2>2. conf.explicit /\ conf.ctor
    BY <1>3 DEF ProgramInit, ConstructorRuns, StartInv, TypeInv
  <2> QED BY <1>3, <2>1, <2>2, ProgramCalls DEF ProgramInit, sem, heap
<1>4. CASE ProgramExit
  <2>1. /\ UNCHANGED <<conf, init_state, constructed, SLACKFILL, blocks, semInited,
                       semInInit, semDepth, stack, atexit>>
        /\ status' = "exited" /\ report' = IF atexit THEN Reported ELSE {}
    BY <1>4 DEF ProgramExit, sem, heap
  <2>2. TypeInv' /\ StackInv'
    BY <2>1 DEF StartInv, TypeInv, StackInv, FrameOK, TopOK, LastUsed, Called,
                FreesLast, Oldest
  <2>3. DepthInv' /\ Early' /\ BlocksInv' /\ SlackKnown'
    BY <2>1 DEF StartInv, DepthInv, Holding, InitDone, Early, BlocksInv, SlackKnown,
                ExpectedFill
  <2>4. ReportInv'
    BY <2>1 DEF ReportInv, Reported, Leaks
  <2> QED BY <2>1, <2>2, <2>3, <2>4 DEF StartInv
<1> QED BY <1>1, <1>2, <1>3, <1>4 DEF Program

-----------------------------------------------------------------------------
(* The invariant                                                            *)
LEMMA InitStart == Init => StartInv
<1> SUFFICES ASSUME Init PROVE StartInv
  OBVIOUS
<1>1. PICK g \in Frames : /\ g = Frame("_duma_init", "enter")
                          /\ g.fn = "_duma_init" /\ g.at = "enter" /\ g.own = "none"
  BY FrameTypes DEF Labels
<1>2. TypeInv
  <2>1. stack \in Seq(Frames)
    BY <1>1 DEF Init
  <2>2. semInited \in BOOLEAN /\ semInInit \in BOOLEAN
    BY Zenon DEF Init
  <2>3. blocks \in Seq(SlotRecords)
    BY DEF Init
  <2> QED BY <2>1, <2>2, <2>3 DEF Init, TypeInv, UNINITIALIZED, OUT_CONSTRUCTOR
<1>3. CASE conf.ctor
  <2>1. Len(stack) = 1 /\ stack[1] = g
    BY <1>1, <1>3 DEF Init
  <2>2. StackInv
    BY <1>1, <2>1 DEF Init, StackInv, FrameOK, TopOK, FreesLast, Oldest, UNINITIALIZED,
       OUT_CONSTRUCTOR
  <2>3. DepthInv
    BY <1>1, <2>1 DEF Init, DepthInv, Holding
  <2> QED BY <1>2, <2>2, <2>3 DEF StartInv, Init, Early, BlocksInv, SlackKnown,
             ReportInv, UNINITIALIZED, OUT_CONSTRUCTOR
<1>4. CASE ~ conf.ctor
  <2>1. Len(stack) = 0
    BY <1>4 DEF Init
  <2>2. StackInv
    BY <1>4, <2>1 DEF Init, StackInv, FreesLast, Oldest
  <2>3. DepthInv
    BY <2>1 DEF Init, DepthInv
  <2> QED BY <1>2, <2>2, <2>3 DEF StartInv, Init, Early, BlocksInv, SlackKnown,
             ReportInv, UNINITIALIZED, OUT_CONSTRUCTOR
<1> QED BY <1>3, <1>4

LEMMA StutterStart == StartInv /\ UNCHANGED vars => StartInv'
<1> SUFFICES ASSUME StartInv, UNCHANGED vars PROVE StartInv'
  OBVIOUS
<1>1. UNCHANGED <<conf, init_state, constructed, SLACKFILL, blocks, semInited,
                  semInInit, semDepth, stack, status, atexit, report>>
  BY DEF vars, sem, heap
<1>2. TypeInv' /\ StackInv'
  BY <1>1 DEF StartInv, TypeInv, StackInv, FrameOK, TopOK, LastUsed, Called,
              FreesLast, Oldest
<1>3. DepthInv' /\ Early' /\ BlocksInv' /\ SlackKnown'
  BY <1>1 DEF StartInv, DepthInv, Holding, InitDone, Early, BlocksInv, SlackKnown,
              ExpectedFill
<1>4. ReportInv'
  BY <1>1 DEF StartInv, ReportInv, Reported, Leaks
<1> QED BY <1>1, <1>2, <1>3, <1>4 DEF StartInv

LEMMA NextStart ==
  ASSUME ConstructorRuns
  PROVE  StartInv /\ [Next]_vars => StartInv'
<1>1. ASSUME StartInv, Step PROVE StartInv'
  BY <1>1, InitSemKeeps, InitSemLibraryKeeps, InitSemDoneKeeps, ConstructorKeeps,
     ConstructorGetKeeps, ConstructorBuildKeeps, ConstructorReleaseKeeps,
     ConstructorLeaveKeeps, ConstructorCallInitKeeps, DumaInitEnterKeeps,
     GetEnvVarsKeeps, RegisterExitKeeps, DumaInitTestKeeps, DumaInitDoneKeeps,
     MallocTestKeeps, EnterHeapKeeps, MallocSlotKeeps, LeaveHeapKeeps, FreeTestKeeps,
     FreeSlotKeeps, FunctionReturnKeeps DEF Step
<1>2. ASSUME StartInv, Program PROVE StartInv'
  BY <1>2, ProgramKeeps
<1> QED BY <1>1, <1>2, StutterStart DEF Next

(* However deep the functions call one another, the stack of activations    *)
(* keeps its shape.                                                         *)
THEOREM StartInvariant ==
  ASSUME ConstructorRuns
  PROVE  Spec => []StartInv
BY InitStart, NextStart, PTL DEF Spec

(* _duma_init() creates the slot table once, no call aborts, and the        *)
(* semaphore is free whenever the program runs.                             *)
THEOREM Built ==
  ASSUME ConstructorRuns
  PROVE  Spec => []BuiltOnce
<1>1. StartInv => BuiltOnce
  BY DEF StartInv, TypeInv, StackInv, DepthInv, BuiltOnce
<1> QED BY <1>1, StartInvariant, PTL

(* _duma_check_slack() expects what _duma_init_slack() has written.         *)
THEOREM SlackRemembered ==
  ASSUME ConstructorRuns
  PROVE  Spec => []SlackKnown
<1>1. StartInv => SlackKnown
  BY DEF StartInv
<1> QED BY <1>1, StartInvariant, PTL

(* DUMA_delFrame() reports what the program has left, and nothing of the    *)
(* libraries.                                                               *)
THEOREM Leaked ==
  ASSUME ConstructorRuns
  PROVE  Spec => []LeaksReported
<1>1. StartInv => LeaksReported
  <2> SUFFICES ASSUME StartInv, status = "exited", atexit PROVE LeaksReported
    BY DEF LeaksReported
  <2>1. report = Reported /\ BlocksInv /\ blocks \in Seq(SlotRecords)
    BY DEF StartInv, ReportInv, TypeInv
  <2>2. \A b \in 1 .. Len(blocks) :
          /\ blocks[b].line \in {0, 1} /\ blocks[b].lineno \in {-1, 0, 1}
          /\ blocks[b].started => blocks[b].lineno = blocks[b].line
    <3> TAKE b \in 1 .. Len(blocks)
    <3>1. blocks[b] \in SlotRecords
      BY <2>1
    <3>2. blocks[b].line \in {0, 1} /\ blocks[b].lineno \in {-1, 0, 1}
      BY <3>1 DEF SlotRecords
    <3> QED BY <2>1, <3>2 DEF BlocksInv
  <2>3. \A b \in 1 .. Len(blocks) :
          blocks[b].used /\ blocks[b].line > 0 /\ blocks[b].started => b \in Reported
    BY <2>2 DEF Reported, Leaks
  <2>4. ASSUME NEW b \in Reported, ~ conf.all \/ conf.explicit
        PROVE  blocks[b].own # "library"
    BY <2>1, <2>2, <2>4 DEF Reported, Leaks, BlocksInv
  <2> QED BY <2>1, <2>3, <2>4 DEF LeaksReported
<1> QED BY <1>1, StartInvariant, PTL

=============================================================================
