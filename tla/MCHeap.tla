------------------------------- MODULE MCHeap -------------------------------
(***************************************************************************)
(* Model values for DumaHeap: pages of four bytes, nine slots to a page     *)
(* (the table grows at the second or third allocation), chunks of four      *)
(* pages.                                                                   *)
(***************************************************************************)
EXTENDS HeapClaims

(* The default of DUMA_PROTECT_FREE and of DUMA_MAX_ALLOC.                   *)
Unlimited == -1

=============================================================================
