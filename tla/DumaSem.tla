------------------------------- MODULE DumaSem -------------------------------
(***************************************************************************)
(* The semaphore that lets one thread at a time into the allocator          *)
(* (src/src/sem_inc.c, the pthread build without DUMA_SEMAPHORES): a plain  *)
(* pthread mutex made re-entrant with the variables mutextid and locknr,    *)
(* and semDepth on top of it.                                               *)
(*                                                                          *)
(* Every access to a shared variable is a step of its own.  mutextid is     *)
(* read without the mutex; it is one aligned word, and the read returns a   *)
(* value that was written to it.  semInited is 1 from the start in this     *)
(* build and semInInit stays 0, so that the checks of both are left out.    *)
(*                                                                          *)
(* pc[t] names the statement thread t runs next:                            *)
(*    out      the thread is in neither function                            *)
(*    try      pthread_mutex_trylock()                                      *)
(*    compare  if (mutextid == pthread_self())                              *)
(*    again    ++locknr                                                     *)
(*    block    pthread_mutex_lock()                                         *)
(*    own      mutextid = pthread_self()                                    *)
(*    one      locknr = 1                                                   *)
(*    deeper   ++semDepth                                                   *)
(*    check    if (semDepth <= 0)                                           *)
(*    pop      --semDepth                                                   *)
(*    dec      --locknr                                                     *)
(*    clear    mutextid = 0                                                 *)
(*    free     pthread_mutex_unlock()                                       *)
(*    aborted  DUMA_Abort()                                                 *)
(***************************************************************************)
EXTENDS Naturals

CONSTANTS
  Threads,
  Nobody,     \* the thread id 0
  MaxDepth,   \* how often a thread takes the semaphore before it releases it
  MaxGets     \* bound on the calls of DUMA_get_sem() by a thread

ASSUME SemAssumption ==
  /\ Nobody \notin Threads
  /\ MaxDepth \in Nat
  /\ MaxGets \in Nat

VARIABLES
  mutex,     \* who has locked the pthread mutex
  mutextid,
  locknr,
  semDepth,
  pc,
  held,      \* calls of DUMA_get_sem() a thread has not yet released
  gets       \* calls of DUMA_get_sem() a thread has made

vars == <<mutex, mutextid, locknr, semDepth, pc, held, gets>>

Init ==
  /\ mutex = Nobody
  /\ mutextid = Nobody
  /\ locknr = 0
  /\ semDepth = 0
  /\ pc = [t \in Threads |-> "out"]
  /\ held = [t \in Threads |-> 0]
  /\ gets = [t \in Threads |-> 0]

Goto(t, label) == pc' = [pc EXCEPT ![t] = label]

-----------------------------------------------------------------------------
(* DUMA_get_sem() and lock()                                                *)

Get(t) ==
  /\ pc[t] = "out"
  /\ held[t] < MaxDepth /\ gets[t] < MaxGets
  /\ gets' = [gets EXCEPT ![t] = @ + 1]
  /\ Goto(t, "try")
  /\ UNCHANGED <<mutex, mutextid, locknr, semDepth, held>>

TryLock(t) ==
  /\ pc[t] = "try"
  /\ IF mutex = Nobody
       THEN mutex' = t /\ Goto(t, "own")
       ELSE mutex' = mutex /\ Goto(t, "compare")
  /\ UNCHANGED <<mutextid, locknr, semDepth, held, gets>>

(* Mutant: the owner is not recognised.                                     *)
Compare_Never(t) ==
  /\ pc[t] = "compare"
  /\ Goto(t, "block")
  /\ UNCHANGED <<mutex, mutextid, locknr, semDepth, held, gets>>

Compare(t) ==
  /\ pc[t] = "compare"
  /\ Goto(t, IF mutextid = t THEN "again" ELSE "block")
  /\ UNCHANGED <<mutex, mutextid, locknr, semDepth, held, gets>>

(* Mutant: the nested call is not counted.                                  *)
Again(t) ==
  /\ pc[t] = "again"
  /\ locknr' = locknr + 1
  /\ Goto(t, "deeper")
  /\ UNCHANGED <<mutex, mutextid, semDepth, held, gets>>

(* A thread that locks the plain mutex twice waits forever.                 *)
Block(t) ==
  /\ pc[t] = "block"
  /\ mutex = Nobody
  /\ mutex' = t
  /\ Goto(t, "own")
  /\ UNCHANGED <<mutextid, locknr, semDepth, held, gets>>

(* Mutant: the owner is not recorded.                                       *)
Own_Unrecorded(t) ==
  /\ pc[t] = "own"
  /\ Goto(t, "one")
  /\ UNCHANGED <<mutex, mutextid, locknr, semDepth, held, gets>>

Own(t) ==
  /\ pc[t] = "own"
  /\ mutextid' = t
  /\ Goto(t, "one")
  /\ UNCHANGED <<mutex, locknr, semDepth, held, gets>>

(* Mutant: the depth is not reset.                                          *)
One_NoReset(t) ==
  /\ pc[t] = "one"
  /\ Goto(t, "deeper")
  /\ UNCHANGED <<mutex, mutextid, locknr, semDepth, held, gets>>

One(t) ==
  /\ pc[t] = "one"
  /\ locknr' = 1
  /\ Goto(t, "deeper")
  /\ UNCHANGED <<mutex, mutextid, semDepth, held, gets>>

(* Mutant: semDepth = 1.                                                    *)
Deeper_Flag(t) ==
  /\ pc[t] = "deeper"
  /\ semDepth' = 1
  /\ held' = [held EXCEPT ![t] = @ + 1]
  /\ Goto(t, "out")
  /\ UNCHANGED <<mutex, mutextid, locknr, gets>>

(* The last statement of DUMA_get_sem().                                    *)
Deeper(t) ==
  /\ pc[t] = "deeper"
  /\ semDepth' = semDepth + 1
  /\ held' = [held EXCEPT ![t] = @ + 1]
  /\ Goto(t, "out")
  /\ UNCHANGED <<mutex, mutextid, locknr, gets>>

-----------------------------------------------------------------------------
(* DUMA_rel_sem() and unlock()                                              *)

Rel(t) ==
  /\ pc[t] = "out"
  /\ held[t] > 0
  /\ held' = [held EXCEPT ![t] = @ - 1]
  /\ Goto(t, "check")
  /\ UNCHANGED <<mutex, mutextid, locknr, semDepth, gets>>

Check(t) ==
  /\ pc[t] = "check"
  /\ Goto(t, IF semDepth = 0 THEN "aborted" ELSE "pop")
  /\ UNCHANGED <<mutex, mutextid, locknr, semDepth, held, gets>>

Pop(t) ==
  /\ pc[t] = "pop"
  /\ semDepth' = semDepth - 1
  /\ Goto(t, "dec")
  /\ UNCHANGED <<mutex, mutextid, locknr, held, gets>>

Dec(t) ==
  /\ pc[t] = "dec"
  /\ locknr' = locknr - 1
  /\ Goto(t, IF locknr = 1 THEN "clear" ELSE "out")
  /\ UNCHANGED <<mutex, mutextid, semDepth, held, gets>>

(* Mutant: mutextid still names the thread that has left.                   *)
Clear_Forgotten(t) ==
  /\ pc[t] = "clear"
  /\ Goto(t, "free")
  /\ UNCHANGED <<mutex, mutextid, locknr, semDepth, held, gets>>

Clear(t) ==
  /\ pc[t] = "clear"
  /\ mutextid' = Nobody
  /\ Goto(t, "free")
  /\ UNCHANGED <<mutex, locknr, semDepth, held, gets>>

Unlock(t) ==
  /\ pc[t] = "free"
  /\ mutex' = Nobody
  /\ Goto(t, "out")
  /\ UNCHANGED <<mutextid, locknr, semDepth, held, gets>>

-----------------------------------------------------------------------------

(* What the library does without waiting for the program.                   *)
Step(t) == \/ TryLock(t) \/ Compare(t) \/ Again(t) \/ Block(t) \/ Own(t)
           \/ One(t) \/ Deeper(t)
           \/ Check(t) \/ Pop(t) \/ Dec(t) \/ Clear(t) \/ Unlock(t)

(* The program is done with the library.                                    *)
Finished ==
  /\ \A t \in Threads : pc[t] = "out" /\ held[t] = 0 /\ gets[t] = MaxGets
  /\ UNCHANGED vars

Next == (\E t \in Threads : Get(t) \/ Rel(t) \/ Step(t)) \/ Finished

Spec == Init /\ [][Next]_vars

(* Threads keep running, and the code between DUMA_GET_SEMAPHORE() and      *)
(* DUMA_RELEASE_SEMAPHORE() ends.  Nothing is assumed of the order in which *)
(* pthread_mutex_lock() serves waiting threads.                             *)
FairSpec ==
  Spec /\ \A t \in Threads : WF_vars(Step(t)) /\ WF_vars(Rel(t))

-----------------------------------------------------------------------------
(* Properties                                                               *)

Labels == {"out", "try", "compare", "again", "block", "own", "one", "deeper",
           "check", "pop", "dec", "clear", "free", "aborted"}

(* Every variable of the semaphore stays within its type.                   *)
TypeOK ==
  /\ mutex \in Threads \cup {Nobody}
  /\ mutextid \in Threads \cup {Nobody}
  /\ locknr \in Nat /\ semDepth \in Nat
  /\ pc \in [Threads -> Labels]
  /\ held \in [Threads -> Nat] /\ gets \in [Threads -> Nat]

(* Between DUMA_get_sem() and DUMA_rel_sem(), or in a part of either that   *)
(* writes the shared variables.                                             *)
Inside(t) ==
  \/ held[t] > 0
  \/ pc[t] \in {"again", "own", "one", "deeper", "check", "pop", "dec",
                "clear", "free"}

(* One thread at a time is in the routines the semaphore protects.          *)
MutualExclusion == \A s, t \in Threads : Inside(s) /\ Inside(t) => s = t

(* A thread outside the two functions that still has releases to make owns  *)
(* the mutex, and both counters agree with its number of open calls.        *)
DepthAgrees ==
  \A t \in Threads : pc[t] = "out" /\ held[t] > 0 =>
    mutex = t /\ mutextid = t /\ locknr = held[t] /\ semDepth = held[t]

(* A paired DUMA_rel_sem() never stops with "Semaphore isn't locked".       *)
NeverAborts == \A t \in Threads : pc[t] # "aborted"

(* The counters a thread must find when it has the mutex and is at pc[t].   *)
CountersAt(t) ==
  LET n == held[t] IN
  /\ pc[t] \in {"own", "one", "clear", "free"} =>
       locknr = 0 /\ semDepth = 0 /\ n = 0
  /\ pc[t] \in {"out", "try", "compare", "again"} =>
       locknr = n /\ semDepth = n /\ n > 0
  /\ pc[t] \in {"deeper", "dec"} => locknr = n + 1 /\ semDepth = n
  /\ pc[t] \in {"check", "pop"} => locknr = n + 1 /\ semDepth = n + 1
  /\ pc[t] # "block"

(* The inductive invariant: who is inside has locked the mutex, mutextid is *)
(* the owner's id from "own" to "clear", and the counters count the open    *)
(* calls of the owner at every statement.                                   *)
SemInv ==
  /\ \A t \in Threads :
       /\ mutex = t <=> Inside(t)
       /\ mutextid = t <=> mutex = t /\ pc[t] \notin {"own", "free"}
       /\ mutex = t => CountersAt(t)
       /\ pc[t] # "aborted"
  /\ mutex = Nobody => locknr = 0 /\ semDepth = 0

(* How often a thread has the lock: its open calls, and the one with which  *)
(* it is inside DUMA_get_sem() or DUMA_rel_sem().                           *)
Taken ==
  [t \in Threads |->
     held[t] + (IF pc[t] \in {"own", "one", "deeper", "check", "pop", "dec",
                              "clear", "free"} THEN 1 ELSE 0)]

Lock == INSTANCE ReentrantLock WITH depth <- Taken

(* The mutex, mutextid and locknr together are a re-entrant lock: a thread  *)
(* enters only while no other has it, and it is free for others only when   *)
(* all calls of its owner are released.                                     *)
ImplementsLock == Lock!Spec

(* No thread waits forever in DUMA_get_sem() or DUMA_rel_sem(), in          *)
(* particular not for a mutex it has locked itself.                         *)
CallsReturn == \A t \in Threads : pc[t] # "out" ~> pc[t] = "out"

=============================================================================
