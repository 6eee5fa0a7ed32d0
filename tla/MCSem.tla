-------------------------------- MODULE MCSem --------------------------------
(***************************************************************************)
(* Three threads, each of which takes the semaphore three times, nested in  *)
(* every possible way: the delete macro nests it twice around a release     *)
(* that takes it again.  The threads are not declared symmetric, since the  *)
(* run checks liveness.                                                     *)
(***************************************************************************)
EXTENDS DumaSem

=============================================================================
