--------------------------- MODULE DumaSem_proofs ---------------------------
(***************************************************************************)
(* Proofs about the semaphore of sem_inc.c, for any set of threads and any  *)
(* nesting depth.                                                           *)
(***************************************************************************)
EXTENDS DumaSem, TLAPS

(* Every variable of the semaphore keeps its type; with the natural number  *)
(* types of the counters this needs the counters to be positive where the   *)
(* code decrements them, hence the inductive invariant.                     *)
IInv == TypeOK /\ SemInv

LEMMA InitIInv == Init => IInv
  BY SemAssumption
  DEF Init, IInv, TypeOK, SemInv, Inside, CountersAt, Labels

(* DUMA_get_sem() and lock() keep the invariant, statement by statement.    *)
LEMMA GetIInv ==
  ASSUME IInv, NEW t \in Threads,
         \/ Get(t) \/ TryLock(t) \/ Compare(t) \/ Again(t) \/ Block(t)
         \/ Own(t) \/ One(t) \/ Deeper(t)
  PROVE  IInv'
<1> USE SemAssumption DEF IInv, TypeOK, SemInv, Inside, CountersAt, Labels, Goto
<1>1. CASE Get(t)     BY <1>1 DEF Get
<1>2. CASE TryLock(t) BY <1>2 DEF TryLock
<1>3. CASE Compare(t) BY <1>3 DEF Compare
<1>4. CASE Again(t)   BY <1>4 DEF Again
<1>5. CASE Block(t)   BY <1>5 DEF Block
<1>6. CASE Own(t)     BY <1>6 DEF Own
<1>7. CASE One(t)     BY <1>7 DEF One
<1>8. CASE Deeper(t)  BY <1>8 DEF Deeper
<1> QED BY <1>1, <1>2, <1>3, <1>4, <1>5, <1>6, <1>7, <1>8

(* DUMA_rel_sem() and unlock() keep the invariant, statement by statement.  *)
LEMMA RelIInv ==
  ASSUME IInv, NEW t \in Threads,
         Rel(t) \/ Check(t) \/ Pop(t) \/ Dec(t) \/ Clear(t) \/ Unlock(t)
  PROVE  IInv'
<1> USE SemAssumption DEF IInv, TypeOK, SemInv, Inside, CountersAt, Labels, Goto
<1>1. CASE Rel(t)    BY <1>1 DEF Rel
<1>2. CASE Check(t)  BY <1>2 DEF Check
<1>3. CASE Pop(t)    BY <1>3 DEF Pop
<1>4. CASE Dec(t)    BY <1>4 DEF Dec
<1>5. CASE Clear(t)  BY <1>5 DEF Clear
<1>6. CASE Unlock(t) BY <1>6 DEF Unlock
<1> QED BY <1>1, <1>2, <1>3, <1>4, <1>5, <1>6

(* A step that changes nothing keeps the invariant.                         *)
LEMMA StutterIInv == IInv /\ UNCHANGED vars => IInv'
  BY DEF IInv, TypeOK, SemInv, Inside, CountersAt, vars

(* The inductive invariant holds in every reachable state.                  *)
THEOREM SemInvariant == Spec => []IInv
<1>1. IInv /\ [Next]_vars => IInv'
  BY GetIInv, RelIInv, StutterIInv DEF Next, Step, Finished
<1> QED BY InitIInv, <1>1, PTL DEF Spec

(* Where each thread is in DUMA_get_sem() and DUMA_rel_sem() determines the *)
(* mutex, the owner and both counters.                                      *)
THEOREM Counters == Spec => []SemInv
  BY SemInvariant, PTL DEF IInv

(* The semaphore's variables keep their types: no counter goes below zero.  *)
THEOREM TypeCorrect == Spec => []TypeOK
  BY SemInvariant, PTL DEF IInv

(* At any time at most one thread is in the routines DUMA_get_sem()         *)
(* protects, however many threads there are and however deep they nest.     *)
THEOREM Exclusion == Spec => []MutualExclusion
<1>1. IInv => MutualExclusion
  BY DEF IInv, SemInv, MutualExclusion
<1> QED BY SemInvariant, <1>1, PTL

(* Both counters of the semaphore agree with the open calls of its owner.   *)
THEOREM Depths == Spec => []DepthAgrees
<1>1. IInv => DepthAgrees
  BY DEF IInv, TypeOK, SemInv, DepthAgrees, Inside, CountersAt
<1> QED BY SemInvariant, <1>1, PTL

(* No release that is paired with a get ends in DUMA_Abort().               *)
THEOREM NoAbort == Spec => []NeverAborts
<1>1. IInv => NeverAborts
  BY DEF IInv, SemInv, NeverAborts
<1> QED BY SemInvariant, <1>1, PTL

(* A thread that returns from unlock() leaves the abstract lock once.       *)
LEMMA ReturnIsExit ==
  ASSUME TypeOK, NEW t \in Threads, pc[t] \in {"dec", "free"},
         held' = held, pc' = [pc EXCEPT ![t] = "out"]
  PROVE  Lock!Exit(t)
<1>1. held \in [Threads -> Nat] /\ pc \in [Threads -> Labels]
  BY DEF TypeOK
<1>2. Taken[t] = held[t] + 1 /\ Taken'[t] = held[t]
  BY <1>1 DEF Taken
<1>3. \A u \in Threads \ {t} : Taken'[u] = Taken[u]
  BY <1>1 DEF Taken
<1>4. Taken' = [Taken EXCEPT ![t] = Taken[t] - 1]
  <2> DEFINE T1 == Taken'
  <2>1. /\ Taken = [u \in Threads |-> Taken[u]]
        /\ T1 = [u \in Threads |-> T1[u]]
    BY DEF Taken
  <2> HIDE DEF T1
  <2> QED BY <1>1, <1>2, <1>3, <2>1 DEF T1
<1> QED BY <1>1, <1>2, <1>4 DEF Lock!Exit

(* The --locknr of unlock() leaves the abstract lock unless it is the last  *)
(* one; then the lock is left with the mutex.                               *)
LEMMA DecImplementsLock ==
  ASSUME TypeOK, NEW t \in Threads, Dec(t)
  PROVE  Lock!Exit(t) \/ UNCHANGED Taken
<1>1. CASE locknr = 1
  <2>1. /\ pc[t] = "dec" /\ held' = held /\ pc' = [pc EXCEPT ![t] = "clear"]
        /\ pc \in [Threads -> Labels]
    BY <1>1 DEF Dec, Goto, TypeOK
  <2> QED BY <2>1 DEF Taken
<1>2. CASE locknr # 1
  BY <1>2, ReturnIsExit DEF Dec, Goto
<1> QED BY <1>1, <1>2

(* Every statement of lock() and unlock() enters or leaves the abstract     *)
(* lock, or does nothing to it.                                             *)
LEMMA StepsImplementLock ==
  ASSUME IInv, [Next]_vars
  PROVE  [Lock!Next]_Taken
<1> USE SemAssumption
    DEF IInv, TypeOK, SemInv, Inside, CountersAt, Labels, Goto, Taken
<1>1. CASE UNCHANGED vars \/ Finished
  BY <1>1 DEF vars, Finished
<1>2. ASSUME NEW t \in Threads,
             \/ Get(t) \/ Compare(t) \/ Own(t) \/ One(t) \/ Deeper(t)
             \/ Rel(t) \/ Check(t) \/ Pop(t) \/ Clear(t)
      PROVE  UNCHANGED Taken
  BY <1>2 DEF Get, Compare, Own, One, Deeper, Rel, Check, Pop, Clear
<1>3. ASSUME NEW t \in Threads, TryLock(t) \/ Block(t)
      PROVE  Lock!Enter(t) \/ UNCHANGED Taken
  BY <1>3 DEF TryLock, Block, Lock!Enter
<1>4. ASSUME NEW t \in Threads, Again(t)
      PROVE  Lock!Enter(t)
  BY <1>4 DEF Again, Lock!Enter
<1>5. ASSUME NEW t \in Threads, Dec(t)
      PROVE  Lock!Exit(t) \/ UNCHANGED Taken
  BY <1>5, DecImplementsLock
<1>6. ASSUME NEW t \in Threads, Unlock(t)
      PROVE  Lock!Exit(t)
  BY <1>6, ReturnIsExit DEF Unlock
<1> QED
  BY <1>1, <1>2, <1>3, <1>4, <1>5, <1>6 DEF Next, Step, Lock!Next

(* sem_inc.c implements a re-entrant lock on top of a plain mutex.          *)
THEOREM Refinement == Spec => ImplementsLock
<1>1. Init => Lock!Init
  BY DEF Init, Lock!Init, Taken
<1>2. IInv /\ [Next]_vars => [Lock!Next]_Taken
  BY StepsImplementLock
<1> QED BY <1>1, <1>2, SemInvariant, PTL DEF Spec, Lock!Spec, ImplementsLock

=============================================================================
