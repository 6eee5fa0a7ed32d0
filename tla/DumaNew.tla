------------------------------- MODULE DumaNew -------------------------------
(***************************************************************************)
(* duma_new_operator() of src/src/dumapp.cpp, which all eight operators new *)
(* call: the loop around _duma_allocate() and the program's new handler.    *)
(*                                                                          *)
(* There was no function to read the current new handler: the code installs *)
(* the empty function duma_new_handler ("probe"), gets the handler that was *)
(* there, and installs that again.  Both are calls of their own, and the    *)
(* handler is one for all threads.                                          *)
(*                                                                          *)
(* The memory is a number of blocks that can still be had.  The program's   *)
(* handler does what the C++ standard asks of it: it makes more memory      *)
(* available, or throws bad_alloc, or removes itself.                       *)
(***************************************************************************)
EXTENDS Naturals

CONSTANTS
  Threads,
  Reserve,      \* blocks the program's handler can release
  MaxNews       \* bound on the new expressions of a thread

VARIABLES
  handler,      \* the new handler: "program", "probe" or "none"
  chosen,       \* ghost: the one the program wants
  avail,        \* blocks that can be allocated
  reserve,
  pc, h,        \* of each thread; h is the local variable
  dothrow, outcome, news

vars == <<handler, chosen, avail, reserve, pc, h, dothrow, outcome, news>>

Init ==
  /\ handler \in {"program", "none"}
  /\ chosen = handler
  /\ avail \in {0, 1}
  /\ reserve = Reserve
  /\ pc = [t \in Threads |-> "out"]
  /\ h = [t \in Threads |-> "none"]
  /\ dothrow = [t \in Threads |-> TRUE]
  /\ outcome = [t \in Threads |-> "none"]
  /\ news = [t \in Threads |-> 0]

Goto(t, label) == pc' = [pc EXCEPT ![t] = label] /\ UNCHANGED outcome

Ends(t, result) ==
  /\ pc' = [pc EXCEPT ![t] = "out"]
  /\ outcome' = [outcome EXCEPT ![t] = result]

(* "report error": by an exception or by a null pointer.                    *)
Fails(t) == Ends(t, IF dothrow[t] THEN "bad_alloc" ELSE "null")

(* operator new, new[] and their nothrow forms, with or without position    *)
OperatorNew(t) ==
  /\ pc[t] = "out" /\ news[t] < MaxNews
  /\ news' = [news EXCEPT ![t] = @ + 1]
  /\ \E throwing \in BOOLEAN : dothrow' = [dothrow EXCEPT ![t] = throwing]
  /\ Goto(t, "try")
  /\ UNCHANGED <<handler, chosen, avail, reserve, h>>

(* _duma_allocate(..., DUMA_FAIL_NULL, ...)                                 *)
Try(t) ==
  /\ pc[t] = "try"
  /\ IF avail > 0
       THEN avail' = avail - 1 /\ Ends(t, "block")
       ELSE Goto(t, "exchange") /\ UNCHANGED avail
  /\ UNCHANGED <<handler, chosen, reserve, h, dothrow, news>>

(* h = std::set_new_handler(duma_new_handler)                               *)
Exchange(t) ==
  /\ pc[t] = "exchange"
  /\ h' = [h EXCEPT ![t] = handler]
  /\ handler' = "probe"
  /\ Goto(t, "restore")
  /\ UNCHANGED <<chosen, avail, reserve, dothrow, news>>

(* Mutant: the handler is not installed again.                              *)
Restore_Forgotten(t) ==
  /\ pc[t] = "restore"
  /\ Goto(t, "call")
  /\ UNCHANGED <<handler, chosen, avail, reserve, h, dothrow, news>>

(* std::set_new_handler(h)                                                  *)
Restore(t) ==
  /\ pc[t] = "restore"
  /\ handler' = h[t]
  /\ Goto(t, "call")
  /\ UNCHANGED <<chosen, avail, reserve, h, dothrow, news>>

(* if (h) try { h(); } catch (std::bad_alloc &) ...                         *)
CallHandler(t) ==
  /\ pc[t] = "call"
  /\ CASE h[t] = "none" ->
            Fails(t) /\ UNCHANGED <<handler, chosen, avail, reserve>>
       [] h[t] = "probe" ->
            Goto(t, "try") /\ UNCHANGED <<handler, chosen, avail, reserve>>
       [] h[t] = "program" ->
            \/ /\ reserve > 0
               /\ reserve' = reserve - 1 /\ avail' = avail + 1
               /\ Goto(t, "try")
               /\ UNCHANGED <<handler, chosen>>
            \/ /\ handler' = "none" /\ chosen' = "none"
               /\ Goto(t, "try")
               /\ UNCHANGED <<avail, reserve>>
            \/ Fails(t) /\ UNCHANGED <<handler, chosen, avail, reserve>>
  /\ UNCHANGED <<h, dothrow, news>>

Step(t) ==
  Try(t) \/ Exchange(t) \/ Restore(t) \/ CallHandler(t)

Next == \E t \in Threads : OperatorNew(t) \/ Step(t)

Spec == Init /\ [][Next]_vars

(* A thread in operator new goes on running.                                *)
FairSpec == Spec /\ \A t \in Threads : WF_vars(Step(t))

-----------------------------------------------------------------------------

(* Nobody changes the handler between a thread's two calls, be it another   *)
(* thread's pair of calls or the program's handler that removes itself.     *)
Undisturbed ==
  \A t \in Threads :
    pc[t] = "restore" =>
      handler = "probe" /\ \A u \in Threads \ {t} : pc[u] # "restore"

(* A new expression ends, in the way its form allows: with memory, with     *)
(* bad_alloc for the throwing forms, with 0 for the others.  The loop has   *)
(* no other end than the handler's.                                         *)
EveryNewEnds ==
  \A t \in Threads :
    pc[t] = "try" ~>
      /\ pc[t] = "out"
      /\ outcome[t] \in {"block", IF dothrow[t] THEN "bad_alloc" ELSE "null"}

(* While no thread is between the two calls, the handler in effect is the   *)
(* one the program installed: duma_new_operator() only looks at it.         *)
HandlerKept ==
  (\A t \in Threads : pc[t] # "restore") => handler = chosen

(* Every new expression of every thread ends, and none takes the program's  *)
(* handler away, as long as the two calls of a thread are never disturbed.  *)
(* The code does nothing to ensure that: otherwise the probe stays, which   *)
(* makes no memory available, and the loop goes on for ever.                *)
NewEnds == []Undisturbed => EveryNewEnds /\ []HandlerKept

=============================================================================
