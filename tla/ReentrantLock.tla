--------------------------- MODULE ReentrantLock ----------------------------
(***************************************************************************)
(* What DUMA_get_sem() and DUMA_rel_sem() promise: a lock that one thread   *)
(* at a time has, that it can take again, and that is free for others once  *)
(* the thread has released it as often as it has taken it.                  *)
(***************************************************************************)
EXTENDS Naturals

CONSTANT Threads

VARIABLE depth  \* how often each thread has taken the lock

Init == depth = [t \in Threads |-> 0]

Enter(t) ==
  /\ \A u \in Threads \ {t} : depth[u] = 0
  /\ depth' = [depth EXCEPT ![t] = @ + 1]

Exit(t) ==
  /\ depth[t] > 0
  /\ depth' = [depth EXCEPT ![t] = @ - 1]

Next == \E t \in Threads : Enter(t) \/ Exit(t)

Spec == Init /\ [][Next]_depth

=============================================================================
