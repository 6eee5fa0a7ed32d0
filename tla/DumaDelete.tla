----------------------------- MODULE DumaDelete -----------------------------
(***************************************************************************)
(* The delete macro of dumapp.h and the operators delete of dumapp.cpp: how *)
(* the file and line of a delete expression reach _duma_deallocate().       *)
(*                                                                          *)
(* "delete p" becomes a for loop around the real delete expression.  Its    *)
(* head takes the semaphore twice and pushes the position onto the arrays   *)
(* DelFile and DelLine; its condition releases the semaphore once and tests *)
(* Magic.  The destructor in the body may contain further delete            *)
(* expressions, and so may other threads; DelPtr, Magic and the arrays are  *)
(* globals, shared by all threads.                                          *)
(*                                                                          *)
(* A delete expression is identified by its position, a member of Sites.    *)
(* expr[t] is the stack of the delete expressions thread t is in, with the  *)
(* statement at that is next and how often the body ran.                    *)
(***************************************************************************)
EXTENDS Naturals, Sequences

CONSTANTS
  Threads,
  Sites,              \* the positions of delete expressions
  Unknown,            \* no position
  DUMA_MAX_DEL_DEPTH,
  MaxNesting,         \* bound on the nesting of destructors in a thread
  MaxDeletes          \* bound on the delete expressions of a thread

VARIABLES
  depth,              \* the semaphore
  DelPtr, Magic,
  DelFile,            \* DelFile and DelLine
  expr, deletes,
  freed,              \* pairs: the position of a release, the recorded one
  aborted             \* DUMA_ASSERT() failed

globals == <<DelPtr, Magic, DelFile>>

vars == <<depth, globals, expr, deletes, freed, aborted>>

Lock == INSTANCE ReentrantLock

Init ==
  /\ Lock!Init
  /\ DelPtr = 0 /\ Magic = 0
  /\ DelFile = [i \in 0 .. DUMA_MAX_DEL_DEPTH - 1 |-> Unknown]
  /\ expr = [t \in Threads |-> <<>>]
  /\ deletes = [t \in Threads |-> 0]
  /\ freed = {}
  /\ aborted = FALSE

At(t, at) == expr[t] # <<>> /\ Head(expr[t]).at = at

Goto(t, at) ==
  expr' = [expr EXCEPT ![t] = <<[Head(@) EXCEPT !.at = at]>> \o Tail(@)]

(* A delete expression begins, in the program or in a destructor.           *)
Begin(t) ==
  /\ expr[t] = <<>> \/ At(t, "destroy")
  /\ Len(expr[t]) < MaxNesting /\ deletes[t] < MaxDeletes
  /\ deletes' = [deletes EXCEPT ![t] = @ + 1]
  /\ \E s \in Sites :
       expr' = [expr EXCEPT ![t] =
                  <<[site |-> s, at |-> "get", ran |-> 0]>> \o @]
  /\ UNCHANGED <<depth, globals, freed, aborted>>

(* Mutant: the semaphore is taken once.                                     *)
MacroGet_Once(t) ==
  /\ At(t, "get")
  /\ Lock!Enter(t)
  /\ Goto(t, "push")
  /\ UNCHANGED <<globals, deletes, freed, aborted>>

(* DUMA_GET_SEMAPHORE(), DUMA_GET_SEMAPHORE()                               *)
MacroGet(t) ==
  /\ \/ At(t, "get") /\ Goto(t, "again")
     \/ At(t, "again") /\ Goto(t, "push")
  /\ Lock!Enter(t)
  /\ UNCHANGED <<globals, deletes, freed, aborted>>

(* ++DelPtr, DUMA_ASSERT(DelPtr < DUMA_MAX_DEL_DEPTH), Magic = 1, ...       *)
MacroPush(t) ==
  /\ At(t, "push")
  /\ DelPtr' = DelPtr + 1
  /\ IF DelPtr + 1 < DUMA_MAX_DEL_DEPTH
       THEN /\ Magic' = 1
            /\ DelFile' = [DelFile EXCEPT ![DelPtr + 1] = Head(expr[t]).site]
            /\ Goto(t, "condition")
            /\ UNCHANGED aborted
       ELSE aborted' = TRUE /\ UNCHANGED <<Magic, DelFile, expr>>
  /\ UNCHANGED <<depth, deletes, freed>>

(* DUMA_RELEASE_SEMAPHORE(Magic): the argument is read, the semaphore is    *)
(* released, and the argument decides whether the body runs.                *)
MacroCondition(t) ==
  /\ At(t, "condition")
  /\ Lock!Exit(t)
  /\ IF Magic = 1
       THEN Goto(t, "destroy")
       ELSE expr' = [expr EXCEPT ![t] = Tail(@)]
  /\ UNCHANGED <<globals, deletes, freed, aborted>>

(* operator delete without position, called in a destructor by code that    *)
(* does not use the macro: it takes DelFile[DelPtr].                        *)
PlainDelete(t) ==
  /\ At(t, "destroy") /\ deletes[t] < MaxDeletes
  /\ deletes' = [deletes EXCEPT ![t] = @ + 1]
  /\ freed' = freed \cup {<<Head(expr[t]).site, DelFile[DelPtr]>>}
  /\ UNCHANGED <<depth, globals, expr, aborted>>

(* The destructor is through; operator delete passes DelFile[DelPtr] to     *)
(* _duma_deallocate(), which takes and releases the semaphore itself.       *)
OperatorDelete(t) ==
  /\ At(t, "destroy")
  /\ \A u \in Threads \ {t} : depth[u] = 0
  /\ freed' = freed \cup {<<Head(expr[t]).site, DelFile[DelPtr]>>}
  /\ LET f == Head(expr[t])
     IN  expr' = [expr EXCEPT ![t] =
                    <<[f EXCEPT !.at = "pop", !.ran = f.ran + 1]>> \o Tail(@)]
  /\ UNCHANGED <<depth, globals, deletes, aborted>>

(* Mutant: Magic is left as it is.                                          *)
MacroPop_KeepsMagic(t) ==
  /\ At(t, "pop")
  /\ DelPtr' = DelPtr - 1
  /\ Goto(t, "condition")
  /\ UNCHANGED <<Magic, DelFile, depth, deletes, freed, aborted>>

(* Magic = 0, --DelPtr                                                      *)
MacroPop(t) ==
  /\ At(t, "pop")
  /\ Magic' = 0
  /\ DelPtr' = DelPtr - 1
  /\ Goto(t, "condition")
  /\ UNCHANGED <<DelFile, depth, deletes, freed, aborted>>

Step(t) ==
  \/ MacroGet(t) \/ MacroPush(t) \/ MacroCondition(t)
  \/ OperatorDelete(t) \/ MacroPop(t)

Next ==
  /\ ~ aborted
  /\ \E t \in Threads : Begin(t) \/ PlainDelete(t) \/ Step(t)

Spec == Init /\ [][Next]_vars

-----------------------------------------------------------------------------

(* Every release inside a delete expression is recorded with the position   *)
(* of that expression, whatever its destructor and the other threads        *)
(* delete in the meantime; and when no delete expression is in progress the *)
(* stack of positions is empty and the semaphore, which each one takes      *)
(* twice and releases twice, is free.                                       *)
DeleteLocated ==
  /\ \A f \in freed : f[1] = f[2]
  /\ (\A t \in Threads : expr[t] = <<>>) =>
       DelPtr = 0 /\ \A t \in Threads : depth[t] = 0

(* The body of the macro's loop, and with it the destructor, runs exactly   *)
(* once: a nested delete expression, which clears Magic, neither repeats    *)
(* nor suppresses the one around it.                                        *)
RunsOnce ==
  [][\A t \in Threads :
       /\ \A i \in 1 .. Len(expr'[t]) : expr'[t][i].ran <= 1
       /\ Len(expr'[t]) < Len(expr[t]) => Head(expr[t]).ran = 1]_vars

=============================================================================
