------------------------- MODULE DumaDelete_proofs --------------------------
(***************************************************************************)
(* Proofs about the delete macro, for any threads, any nesting of           *)
(* destructors and any DUMA_MAX_DEL_DEPTH.                                  *)
(***************************************************************************)
EXTENDS DumaDelete, TLAPS

(* A sequence with another element in front, without its first, and with    *)
(* another first: the stacks Begin, MacroCondition and Goto leave.          *)
LEMMA Pushed ==
  ASSUME NEW S, NEW s \in Seq(S), NEW x \in S
  PROVE  LET r == <<x>> \o s
         IN  /\ r \in Seq(S) /\ Len(r) = Len(s) + 1 /\ r[1] = x
             /\ \A i \in 2 .. Len(r) : r[i] = s[i - 1]
OBVIOUS

LEMMA Popped ==
  ASSUME NEW S, NEW s \in Seq(S), s # <<>>
  PROVE  /\ Head(s) = s[1] /\ s[1] \in S /\ Len(s) \in Nat \ {0}
         /\ Tail(s) \in Seq(S) /\ Len(Tail(s)) = Len(s) - 1
         /\ \A i \in 1 .. Len(s) - 1 : Tail(s)[i] = s[i + 1]
         /\ Len(s) = 1 <=> Tail(s) = <<>>
<1>1. /\ Head(s) = s[1] /\ s[1] \in S /\ Len(s) \in Nat \ {0}
      /\ Tail(s) \in Seq(S) /\ Len(Tail(s)) = Len(s) - 1
      /\ \A i \in 1 .. Len(s) - 1 : Tail(s)[i] = s[i + 1]
  OBVIOUS
<1> DEFINE q == Tail(s)
<1> HIDE DEF q
<1>2. q \in Seq(S) => (Len(q) = 0 <=> q = <<>>)
  OBVIOUS
<1> QED BY <1>1, <1>2 DEF q

LEMMA Replaced ==
  ASSUME NEW S, NEW s \in Seq(S), s # <<>>, NEW x \in S
  PROVE  LET r == <<x>> \o Tail(s)
         IN  /\ r \in Seq(S) /\ Len(r) = Len(s) /\ r[1] = x /\ r # <<>>
             /\ \A i \in 2 .. Len(s) : r[i] = s[i]
<1>1. /\ Tail(s) \in Seq(S) /\ Len(Tail(s)) = Len(s) - 1 /\ Len(s) \in Nat \ {0}
      /\ \A i \in 1 .. Len(s) - 1 : Tail(s)[i] = s[i + 1]
  BY Popped
<1> DEFINE q == Tail(s)
<1> HIDE DEF q
<1>2. LET r == <<x>> \o q
      IN  /\ r \in Seq(S) /\ Len(r) = Len(q) + 1 /\ r[1] = x
          /\ \A i \in 2 .. Len(r) : r[i] = q[i - 1]
  BY <1>1, Pushed DEF q
<1>3. \A i \in 2 .. Len(s) : i - 1 \in 1 .. Len(s) - 1 /\ (i - 1) + 1 = i
  BY <1>1
<1> QED BY <1>1, <1>2, <1>3 DEF q

-----------------------------------------------------------------------------

Labels == {"get", "again", "push", "condition", "destroy", "pop"}

Frames == [site : Sites, at : Labels, ran : {0, 1}]

(* How often a delete expression has the semaphore, and whether its         *)
(* position is on DelFile.                                                  *)
Held(f) ==
  CASE f.at = "get" -> 0
    [] f.at = "push" -> 2
    [] f.at = "condition" /\ f.ran = 0 -> 2
    [] OTHER -> 1

OnFile(f) == f.at \in {"destroy", "pop"} \/ (f.at = "condition" /\ f.ran = 0)

(* The stacks a thread can have: all delete expressions but the innermost   *)
(* are in their destructor.                                                 *)
StackOK(s) ==
  /\ \A i \in 2 .. Len(s) : s[i].at = "destroy" /\ s[i].ran = 0
  /\ s # <<>> =>
       /\ s[1].at \in {"get", "again", "push", "destroy"} => s[1].ran = 0
       /\ s[1].at = "pop" => s[1].ran = 1

DepthOf(s) == IF s = <<>> THEN 0 ELSE Len(s) - 1 + Held(s[1])

PtrOf(s) ==
  IF s = <<>> THEN 0 ELSE IF OnFile(s[1]) THEN Len(s) ELSE Len(s) - 1

(* The positions recorded for a stack, the outermost at 1.                  *)
Recorded(file, s) ==
  \A i \in 1 .. Len(s) : OnFile(s[i]) => file[Len(s) + 1 - i] = s[i].site

DeleteTypeOK ==
  /\ expr \in [Threads -> Seq(Frames)]
  /\ depth \in [Threads -> Nat]
  /\ DelPtr \in Nat
  /\ DelFile \in [0 .. DUMA_MAX_DEL_DEPTH - 1 -> Sites \cup {Unknown}]
  /\ aborted \in BOOLEAN

StacksMatch ==
  \A t \in Threads : StackOK(expr[t]) /\ depth[t] = DepthOf(expr[t])

OneOwner == \A t, u \in Threads : depth[t] > 0 /\ depth[u] > 0 => t = u

(* The globals belong to the owner of the semaphore.                        *)
OwnersGlobals ==
  ~ aborted =>
    /\ \A t \in Threads : depth[t] > 0 =>
         /\ DelPtr = PtrOf(expr[t])
         /\ Recorded(DelFile, expr[t])
         /\ At(t, "condition") => Magic = 1 - expr[t][1].ran
    /\ (\A t \in Threads : depth[t] = 0) => DelPtr = 0

FreedLocated == \A f \in freed : f[1] = f[2]

AbortedInside == aborted => \E t \in Threads : expr[t] # <<>>

IInv ==
  /\ DeleteTypeOK /\ StacksMatch /\ OneOwner /\ OwnersGlobals /\ FreedLocated
  /\ AbortedInside

LEMMA InitInv == DUMA_MAX_DEL_DEPTH \in Nat => (Init => IInv)
<1> SUFFICES ASSUME DUMA_MAX_DEL_DEPTH \in Nat, Init PROVE IInv
  OBVIOUS
<1>1. \A t \in Threads : expr[t] = <<>> /\ depth[t] = 0
  BY DEF Init, Lock!Init
<1>2. StackOK(<<>>) /\ DepthOf(<<>>) = 0
  BY DEF StackOK, DepthOf
<1>3. DeleteTypeOK
  <2>1. <<>> \in Seq(Frames)
    OBVIOUS
  <2> HIDE DEF Frames
  <2> QED BY <2>1 DEF Init, Lock!Init, DeleteTypeOK
<1> QED BY <1>1, <1>2, <1>3
    DEF IInv, StacksMatch, OneOwner, OwnersGlobals, FreedLocated, AbortedInside, Init

(* What the place of a thread's innermost delete expression says of it.     *)
LEMMA TopFacts ==
  ASSUME IInv, NEW t \in Threads, NEW at, At(t, at)
  PROVE  /\ expr[t] \in Seq(Frames) /\ expr[t] # <<>> /\ Len(expr[t]) \in Nat \ {0}
         /\ Head(expr[t]) = expr[t][1] /\ expr[t][1] \in Frames
         /\ expr[t][1].at = at
         /\ depth[t] = Len(expr[t]) - 1 + Held(expr[t][1])
<1>1. expr[t] \in Seq(Frames) /\ expr[t] # <<>>
  BY DEF IInv, DeleteTypeOK, At
<1>2. /\ Head(expr[t]) = expr[t][1] /\ expr[t][1] \in Frames
      /\ Len(expr[t]) \in Nat \ {0}
  BY <1>1, Popped
<1> QED BY <1>1, <1>2 DEF At, IInv, StacksMatch, DepthOf

(* A step of a thread that owns or takes the semaphore keeps the invariant  *)
(* if it does so for that thread's stack and the globals.                   *)
LEMMA OwnerStep ==
  ASSUME IInv, NEW t \in Threads, NEW s \in Seq(Frames),
         expr' = [expr EXCEPT ![t] = s],
         depth' = [depth EXCEPT ![t] = DepthOf(s)],
         StackOK(s), DepthOf(s) \in Nat,
         \A u \in Threads \ {t} : depth[u] = 0,
         aborted' = FALSE,
         DelPtr' \in Nat, DelPtr' = PtrOf(s),
         DelFile' \in [0 .. DUMA_MAX_DEL_DEPTH - 1 -> Sites \cup {Unknown}],
         DepthOf(s) > 0 =>
           /\ Recorded(DelFile', s)
           /\ s[1].at = "condition" => Magic' = 1 - s[1].ran,
         DepthOf(s) = 0 => DelPtr' = 0,
         FreedLocated'
  PROVE  IInv'
<1> USE DEF IInv, DeleteTypeOK
<1>1. /\ expr'[t] = s /\ depth'[t] = DepthOf(s)
      /\ \A u \in Threads \ {t} : expr'[u] = expr[u] /\ depth'[u] = 0
  OBVIOUS
<1>2. DeleteTypeOK'
  OBVIOUS
<1>3. StacksMatch'
  BY <1>1 DEF StacksMatch
<1>4. OneOwner'
  BY <1>1 DEF OneOwner
<1>5. s # <<>> => Head(s) = s[1]
  BY Popped
<1>6. OwnersGlobals'
  BY <1>1, <1>5 DEF OwnersGlobals, At, Recorded
<1> QED BY <1>2, <1>3, <1>4, <1>6 DEF AbortedInside

-----------------------------------------------------------------------------

(* A delete expression begins: the semaphore and the globals are untouched. *)
LEMMA BeginStep ==
  ASSUME IInv, ~ aborted, NEW t \in Threads, Begin(t)
  PROVE  IInv' /\ Len(expr'[t]) > Len(expr[t])
<1> USE DEF IInv, DeleteTypeOK
<1> DEFINE s == expr[t]
<1>1. PICK site \in Sites :
        expr' = [expr EXCEPT ![t] = <<[site |-> site, at |-> "get", ran |-> 0]>> \o @]
  BY DEF Begin
<1> DEFINE x == [site |-> site, at |-> "get", ran |-> 0]
           r == <<x>> \o s
<1>2. s \in Seq(Frames) /\ Len(s) \in Nat
  OBVIOUS
<1>3. x \in Frames /\ x.at = "get" /\ x.ran = 0
  BY DEF Frames, Labels
<1> HIDE DEF x, s
<1>4. /\ r \in Seq(Frames) /\ Len(r) = Len(s) + 1 /\ r[1] = x /\ r # <<>>
      /\ \A i \in 2 .. Len(r) : r[i] = s[i - 1]
  BY <1>2, <1>3, Pushed
<1> HIDE DEF r
<1>5. /\ expr' = [expr EXCEPT ![t] = r] /\ expr'[t] = r
      /\ \A u \in Threads \ {t} : expr'[u] = expr[u]
      /\ depth' = depth /\ DelPtr' = DelPtr /\ DelFile' = DelFile /\ Magic' = Magic
      /\ freed' = freed /\ aborted' = aborted
  BY <1>1 DEF Begin, globals, r, s, x
<1>6. s = <<>> => Len(s) = 0
  BY <1>2
<1>7. s # <<>> => /\ Head(s) = s[1] /\ s[1].at = "destroy" /\ Len(s) > 0
                  /\ s[1].ran = 0
  BY <1>2, Popped DEF Begin, At, StacksMatch, StackOK, s
<1>8. StackOK(r)
  <2>1. \A i \in 2 .. Len(s) : s[i].at = "destroy" /\ s[i].ran = 0
    BY DEF StacksMatch, StackOK, s
  <2>2. ASSUME NEW i \in 2 .. Len(r)
        PROVE  r[i].at = "destroy" /\ r[i].ran = 0
    <3>1. r[i] = s[i - 1] /\ i - 1 \in 1 .. Len(s)
      BY <1>2, <1>4
    <3>2. i - 1 = 1 \/ i - 1 \in 2 .. Len(s)
      BY <1>2, <3>1
    <3> QED BY <1>2, <1>6, <1>7, <2>1, <3>1, <3>2
  <2> QED BY <1>3, <1>4, <2>2 DEF StackOK
<1>9. DepthOf(r) = depth[t]
  <2>1. DepthOf(r) = Len(s)
    BY <1>2, <1>3, <1>4 DEF DepthOf, Held
  <2>2. depth[t] = Len(s)
    BY <1>2, <1>6, <1>7 DEF StacksMatch, DepthOf, Held, s
  <2> QED BY <2>1, <2>2
<1>10. PtrOf(r) = PtrOf(s)
  BY <1>2, <1>3, <1>4, <1>6, <1>7 DEF PtrOf, OnFile
<1>11. Recorded(DelFile, s) => Recorded(DelFile, r)
  <2> SUFFICES ASSUME Recorded(DelFile, s), NEW i \in 1 .. Len(r), OnFile(r[i])
               PROVE  DelFile[Len(r) + 1 - i] = r[i].site
    BY DEF Recorded
  <2>1. i # 1
    BY <1>3, <1>4 DEF OnFile
  <2>2. i \in 2 .. Len(r) /\ i - 1 \in 1 .. Len(s)
          /\ Len(r) + 1 - i = Len(s) + 1 - (i - 1)
    BY <1>2, <1>4, <2>1
  <2> QED BY <1>4, <2>2 DEF Recorded
<1>12. StacksMatch'
  BY <1>5, <1>8, <1>9 DEF StacksMatch
<1>13. ~ At(t, "condition")'
  BY <1>3, <1>4, <1>5, Popped DEF At
<1>14. OwnersGlobals'
  BY <1>5, <1>10, <1>11, <1>13 DEF OwnersGlobals, Recorded, At, s
<1>15. DeleteTypeOK' /\ OneOwner' /\ FreedLocated' /\ AbortedInside'
  BY <1>4, <1>5 DEF OneOwner, FreedLocated, AbortedInside
<1> QED BY <1>2, <1>4, <1>5, <1>12, <1>14, <1>15 DEF s

(* What the macro's heads and the owner know of the others.                 *)
LEMMA OwnerFacts ==
  ASSUME IInv, ~ aborted, NEW t \in Threads, depth[t] > 0
  PROVE  /\ \A u \in Threads \ {t} : depth[u] = 0
         /\ DelPtr = PtrOf(expr[t]) /\ Recorded(DelFile, expr[t])
         /\ At(t, "condition") => Magic = 1 - expr[t][1].ran
BY DEF IInv, DeleteTypeOK, OneOwner, OwnersGlobals

(* A step of the thread that owns the semaphore after it, which only moves  *)
(* its innermost delete expression on: to f.                                *)
LEMMA TopStep ==
  ASSUME IInv, NEW t \in Threads, expr[t] # <<>>, NEW f \in Frames,
         expr' = [expr EXCEPT ![t] = <<f>> \o Tail(@)],
         depth' = [depth EXCEPT ![t] = Len(expr[t]) - 1 + Held(f)],
         f.at # "get", aborted' = FALSE,
         \A u \in Threads \ {t} : depth[u] = 0,
         f.at \in {"again", "push", "destroy"} => f.ran = 0,
         f.at = "pop" => f.ran = 1,
         f.at = "condition" => Magic' = 1 - f.ran,
         DelPtr' = IF OnFile(f) THEN Len(expr[t]) ELSE Len(expr[t]) - 1,
         DelFile' \in [0 .. DUMA_MAX_DEL_DEPTH - 1 -> Sites \cup {Unknown}],
         Recorded(DelFile, expr[t]),
         \A i \in 1 .. Len(expr[t]) - 1 : DelFile'[i] = DelFile[i],
         OnFile(f) => DelFile'[Len(expr[t])] = f.site,
         FreedLocated'
  PROVE  IInv' /\ Len(expr'[t]) = Len(expr[t])
<1> DEFINE s == expr[t]
           r == <<f>> \o Tail(s)
           n == Len(s)
           h == Held(f)
<1>1. s \in Seq(Frames) /\ s # <<>> /\ n \in Nat \ {0} /\ expr \in [Threads -> Seq(Frames)]
  BY Popped DEF IInv, DeleteTypeOK
<1> HIDE DEF s
<1>2. /\ r \in Seq(Frames) /\ Len(r) = n /\ r[1] = f /\ r # <<>>
      /\ \A i \in 2 .. n : r[i] = s[i]
  BY <1>1, Replaced
<1>3. expr' = [expr EXCEPT ![t] = r]
  BY DEF s
<1> HIDE DEF r
<1>4. \A i \in 2 .. n : s[i].at = "destroy" /\ s[i].ran = 0
  BY DEF IInv, StacksMatch, StackOK, s
<1>5. StackOK(r)
  BY <1>2, <1>4 DEF StackOK
<1>6. Recorded(DelFile', r)
  <2> SUFFICES ASSUME NEW i \in 1 .. n, OnFile(r[i])
               PROVE  DelFile'[n + 1 - i] = r[i].site
    BY <1>2 DEF Recorded
  <2> HIDE DEF n
  <2>1. CASE i = 1
    BY <1>1, <1>2, <2>1 DEF s, n
  <2>2. CASE i # 1
    <3>1. i \in 2 .. n /\ i \in 1 .. n /\ n + 1 - i \in 1 .. n - 1
      BY <1>1, <2>2
    <3>2. OnFile(s[i]) /\ r[i] = s[i]
      BY <1>2, <3>1 DEF n
    <3> QED BY <3>1, <3>2 DEF Recorded, s, n
  <2> QED BY <2>1, <2>2
<1>7. h \in {1, 2}
  BY DEF Held
<1>8. DepthOf(r) = n - 1 + h
  BY <1>2 DEF DepthOf
<1>9. PtrOf(r) = IF OnFile(f) THEN n ELSE n - 1
  BY <1>2 DEF PtrOf
<1>10. depth' = [depth EXCEPT ![t] = DepthOf(r)]
  BY <1>8 DEF s
<1>11. DelPtr' = PtrOf(r)
  BY <1>9 DEF s
<1> HIDE DEF n, h
<1>12. DepthOf(r) \in Nat /\ DepthOf(r) # 0 /\ PtrOf(r) \in Nat
  BY <1>1, <1>7, <1>8, <1>9
<1>13. r[1].at = "condition" => Magic' = 1 - r[1].ran
  BY <1>2
<1>14. IInv'
  BY <1>2, <1>3, <1>5, <1>6, <1>10, <1>11, <1>12, <1>13, OwnerStep, Zenon
<1>15. expr'[t] = r
  BY <1>1, <1>3
<1> QED BY <1>2, <1>14, <1>15 DEF s, n

LEMMA GetStep ==
  ASSUME IInv, ~ aborted, NEW t \in Threads, MacroGet(t)
  PROVE  IInv' /\ Len(expr'[t]) = Len(expr[t])
<1>1. PICK at \in {"get", "again"} :
        At(t, at) /\ Goto(t, IF at = "get" THEN "again" ELSE "push")
  BY DEF MacroGet
<1> DEFINE s == expr[t]
           f == [s[1] EXCEPT !.at = IF at = "get" THEN "again" ELSE "push"]
           n == Len(s)
           h == Held(s[1])
<1>2. /\ s # <<>> /\ n \in Nat \ {0} /\ Head(s) = s[1]
      /\ s[1] \in Frames /\ s[1].at = at /\ depth[t] = n - 1 + h
      /\ s[1].ran = 0
  BY <1>1, TopFacts DEF IInv, StacksMatch, StackOK
<1>3. /\ f \in Frames /\ f.ran = 0 /\ Held(f) = h + 1 /\ ~ OnFile(f)
      /\ f.at \in {"again", "push"} /\ h \in Nat /\ ~ OnFile(s[1])
  BY <1>1, <1>2 DEF Frames, Labels, Held, OnFile
<1> HIDE DEF f, h
<1>4. expr' = [expr EXCEPT ![t] = <<f>> \o Tail(@)]
  BY <1>1, <1>2 DEF Goto, f
<1>5. /\ \A u \in Threads \ {t} : depth[u] = 0
      /\ depth' = [depth EXCEPT ![t] = depth[t] + 1] /\ UNCHANGED globals
      /\ freed' = freed /\ aborted' = FALSE /\ depth[t] \in Nat
  BY DEF MacroGet, Lock!Enter, IInv, DeleteTypeOK
<1>6. depth[t] + 1 = n - 1 + Held(f)
  <2> HIDE DEF n
  <2> QED BY <1>2, <1>3, <1>5
<1>7. DelPtr = n - 1 /\ Recorded(DelFile, s)
  <2>1. CASE depth[t] > 0
    BY <1>2, <1>3, <2>1, OwnerFacts DEF PtrOf
  <2>2. CASE depth[t] = 0
    <3>1. n = 1
      <4> HIDE DEF n
      <4> QED BY <1>2, <1>3, <2>2
    <3>2. DelPtr = 0
      BY <1>5, <2>2 DEF IInv, OwnersGlobals
    <3>3. Recorded(DelFile, s)
      BY <1>3, <3>1 DEF Recorded
    <3> QED BY <3>1, <3>2, <3>3
  <2> QED BY <1>5, <2>1, <2>2
<1>8. /\ DelPtr' = n - 1 /\ DelFile' = DelFile /\ FreedLocated'
      /\ DelFile \in [0 .. DUMA_MAX_DEL_DEPTH - 1 -> Sites \cup {Unknown}]
  BY <1>5, <1>7 DEF globals, FreedLocated, IInv, DeleteTypeOK
<1> QED BY <1>2, <1>3, <1>4, <1>5, <1>6, <1>7, <1>8, TopStep

(* The position is pushed: the owner alone reads and writes DelPtr.         *)
LEMMA PushStep ==
  ASSUME DUMA_MAX_DEL_DEPTH \in Nat, IInv, ~ aborted, NEW t \in Threads, MacroPush(t)
  PROVE  IInv' /\ Len(expr'[t]) = Len(expr[t])
<1> DEFINE s == expr[t]
           f == [s[1] EXCEPT !.at = "condition"]
           n == Len(s)
           h == Held(s[1])
<1>1. /\ s # <<>> /\ n \in Nat \ {0} /\ Head(s) = s[1]
      /\ s[1] \in Frames /\ s[1].at = "push" /\ depth[t] = n - 1 + h
      /\ s[1].ran = 0
  BY TopFacts DEF MacroPush, IInv, StacksMatch, StackOK
<1>2. /\ f \in Frames /\ f.ran = 0 /\ Held(f) = 2 /\ h = 2 /\ OnFile(f)
      /\ f.at = "condition" /\ ~ OnFile(s[1]) /\ f.site = s[1].site
     
  BY <1>1 DEF Frames, Labels, Held, OnFile
<1> HIDE DEF f, h
<1>3. depth[t] > 0 /\ depth[t] = n - 1 + 2 /\ depth \in [Threads -> Nat]
  <2> HIDE DEF n
  <2> QED BY <1>1, <1>2 DEF IInv, DeleteTypeOK
<1>4. /\ \A u \in Threads \ {t} : depth[u] = 0
      /\ DelPtr = n - 1 /\ Recorded(DelFile, s)
  BY <1>1, <1>2, <1>3, OwnerFacts DEF PtrOf
<1>5. CASE ~ (DelPtr + 1 < DUMA_MAX_DEL_DEPTH)
  <2>1. /\ expr' = expr /\ depth' = depth /\ aborted' = TRUE /\ freed' = freed
        /\ DelFile' = DelFile /\ DelPtr' = DelPtr + 1
    BY <1>5 DEF MacroPush
  <2> QED BY <1>1, <2>1 DEF IInv, DeleteTypeOK, StacksMatch, OneOwner, OwnersGlobals,
                           FreedLocated, AbortedInside
<1>6. CASE DelPtr + 1 < DUMA_MAX_DEL_DEPTH
  <2>1. /\ expr' = [expr EXCEPT ![t] = <<f>> \o Tail(@)]
        /\ depth' = depth /\ freed' = freed /\ aborted' = FALSE /\ Magic' = 1
        /\ DelPtr' = DelPtr + 1
        /\ DelFile' = [DelFile EXCEPT ![DelPtr + 1] = s[1].site]
    <3>1. /\ Goto(t, "condition")
          /\ depth' = depth /\ freed' = freed /\ aborted' = FALSE /\ Magic' = 1
          /\ DelPtr' = DelPtr + 1
          /\ DelFile' = [DelFile EXCEPT ![DelPtr + 1] = Head(s).site]
      BY <1>6, ~ aborted DEF MacroPush
    <3>2. f = [Head(expr[t]) EXCEPT !.at = "condition"]
      BY <1>1 DEF f
    <3>3. expr' = [expr EXCEPT ![t] = <<f>> \o Tail(@)]
      BY <3>1, <3>2, Zenon DEF Goto
    <3> QED BY <1>1, <3>1, <3>3
  <2>2. DelPtr + 1 = n /\ n \in 0 .. DUMA_MAX_DEL_DEPTH - 1
    <3> HIDE DEF n
    <3> QED BY <1>1, <1>4, <1>6
  <2>3. depth' = [depth EXCEPT ![t] = n - 1 + Held(f)]
    BY <1>2, <1>3, <2>1
  <2>4. s[1].site \in Sites
    BY <1>1 DEF Frames
  <2> HIDE DEF n
  <2>5. /\ DelFile' \in [0 .. DUMA_MAX_DEL_DEPTH - 1 -> Sites \cup {Unknown}]
        /\ DelFile'[n] = f.site
        /\ \A i \in 1 .. n - 1 : DelFile'[i] = DelFile[i]
    BY <1>1, <1>2, <2>1, <2>2, <2>4 DEF IInv, DeleteTypeOK
  <2>6. FreedLocated' /\ DelPtr' = n /\ Magic' = 1 - f.ran
    BY <1>2, <2>1, <2>2 DEF FreedLocated, IInv
  <2> QED BY <1>1, <1>2, <1>4, <2>1, <2>3, <2>5, <2>6, TopStep DEF n
<1> QED BY <1>5, <1>6

(* The condition of the loop: the semaphore is released once; a delete      *)
(* expression whose destructor has run ends, the others go on.              *)
LEMMA ConditionStep ==
  ASSUME DUMA_MAX_DEL_DEPTH \in Nat, IInv, ~ aborted, NEW t \in Threads,
         MacroCondition(t)
  PROVE  IInv' /\ (Len(expr'[t]) < Len(expr[t]) => Head(expr[t]).ran = 1)
<1> DEFINE s == expr[t]
           n == Len(s)
           h == Held(s[1])
           q == Tail(s)
<1>1. /\ s \in Seq(Frames) /\ s # <<>> /\ n \in Nat \ {0} /\ Head(s) = s[1]
      /\ s[1] \in Frames /\ s[1].at = "condition" /\ depth[t] = n - 1 + h
      /\ s[1].ran \in {0, 1}
  BY TopFacts DEF MacroCondition, Frames
<1>2. h = 2 - s[1].ran /\ (OnFile(s[1]) <=> s[1].ran = 0)
  BY <1>1 DEF Held, OnFile
<1> HIDE DEF h
<1>3. depth[t] > 0 /\ depth \in [Threads -> Nat]
  <2> HIDE DEF n
  <2> QED BY <1>1, <1>2 DEF IInv, DeleteTypeOK
<1>4. /\ \A u \in Threads \ {t} : depth[u] = 0
      /\ DelPtr = (IF s[1].ran = 0 THEN n ELSE n - 1) /\ Recorded(DelFile, s)
      /\ Magic = 1 - s[1].ran
  BY <1>1, <1>2, <1>3, OwnerFacts DEF PtrOf, MacroCondition
<1>5. /\ depth' = [depth EXCEPT ![t] = depth[t] - 1] /\ UNCHANGED globals
      /\ freed' = freed /\ aborted' = FALSE /\ FreedLocated'
      /\ DelFile \in [0 .. DUMA_MAX_DEL_DEPTH - 1 -> Sites \cup {Unknown}]
  BY DEF MacroCondition, Lock!Exit, IInv, DeleteTypeOK, FreedLocated
<1>6. CASE s[1].ran = 0
  <2> DEFINE f == [s[1] EXCEPT !.at = "destroy"]
  <2>1. /\ f \in Frames /\ f.ran = 0 /\ Held(f) = 1 /\ OnFile(f)
        /\ f.at = "destroy" /\ f.site = s[1].site
    BY <1>1, <1>6 DEF Frames, Labels, Held, OnFile
  <2>2. expr' = [expr EXCEPT ![t] = <<f>> \o Tail(@)]
    <3>1. Magic = 1
      BY <1>4, <1>6
    <3>2. Goto(t, "destroy")
      BY <3>1, Zenon DEF MacroCondition
    <3>3. f = [Head(expr[t]) EXCEPT !.at = "destroy"]
      BY <1>1
    <3> QED BY <3>2, <3>3, Zenon DEF Goto
  <2> HIDE DEF f
  <2>3. depth[t] - 1 = n - 1 + Held(f)
    <3> HIDE DEF n
    <3> QED BY <1>1, <1>2, <1>6, <2>1
  <2>4. DelFile[n] = f.site
    <3>1. 1 \in 1 .. n /\ n + 1 - 1 = n
      <4> HIDE DEF n
      <4> QED BY <1>1
    <3> QED BY <1>2, <1>4, <1>6, <2>1, <3>1 DEF Recorded
  <2>5. /\ depth' = [depth EXCEPT ![t] = n - 1 + Held(f)]
        /\ DelPtr' = n /\ DelFile' = DelFile
    BY <1>4, <1>5, <1>6, <2>3 DEF globals
  <2>6. /\ expr[t] # <<>> /\ f.at # "get" /\ f.at # "condition" /\ f.at # "pop"
        /\ DelPtr' = IF OnFile(f) THEN n ELSE n - 1
        /\ \A i \in 1 .. n - 1 : DelFile'[i] = DelFile[i]
        /\ DelFile'[n] = f.site
        /\ DelFile' \in [0 .. DUMA_MAX_DEL_DEPTH - 1 -> Sites \cup {Unknown}]
    BY <1>1, <1>5, <2>1, <2>4, <2>5
  <2>7. IInv' /\ Len(expr'[t]) = Len(expr[t])
    BY <1>1, <1>4, <1>5, <2>1, <2>2, <2>5, <2>6, TopStep, Zenon
  <2> QED BY <1>1, <2>7
<1>7. CASE s[1].ran = 1
  <2>1. expr' = [expr EXCEPT ![t] = q] /\ expr'[t] = q
    BY <1>4, <1>7 DEF MacroCondition, IInv, DeleteTypeOK
  <2>2. /\ q \in Seq(Frames) /\ Len(q) = n - 1
        /\ \A i \in 1 .. n - 1 : q[i] = s[i + 1]
        /\ n = 1 <=> q = <<>>
    BY <1>1, Popped
  <2> HIDE DEF q
  <2>3. \A i \in 2 .. n : s[i].at = "destroy" /\ s[i].ran = 0
    BY DEF IInv, StacksMatch, StackOK
  <2>4. \A i \in 1 .. n - 1 : q[i].at = "destroy" /\ q[i].ran = 0
    <3>1. \A i \in 1 .. n - 1 : i + 1 \in 2 .. n
      <4> HIDE DEF n
      <4> QED BY <1>1
    <3> QED BY <2>2, <2>3, <3>1
  <2>5. q # <<>> => 1 \in 1 .. n - 1
    <3> HIDE DEF n
    <3> QED BY <1>1, <2>2
  <2>6. StackOK(q)
    <3>1. \A i \in 2 .. Len(q) : i \in 1 .. n - 1
      <4> HIDE DEF n
      <4> QED BY <1>1, <2>2
    <3> QED BY <2>4, <2>5, <3>1 DEF StackOK
  <2>7. DepthOf(q) = n - 1
    <3>1. CASE q = <<>>
      BY <2>2, <3>1 DEF DepthOf
    <3>2. CASE q # <<>>
      <4>1. Held(q[1]) = 1
        BY <2>4, <2>5, <3>2 DEF Held
      <4>2. DepthOf(q) = Len(q) - 1 + 1
        BY <3>2, <4>1 DEF DepthOf
      <4> HIDE DEF n
      <4> QED BY <1>1, <2>2, <4>2
    <3> QED BY <3>1, <3>2
  <2>8. PtrOf(q) = n - 1
    BY <2>2, <2>4, <2>5 DEF PtrOf, OnFile
  <2>9. Recorded(DelFile, q)
    <3> SUFFICES ASSUME NEW i \in 1 .. n - 1
                 PROVE  DelFile[n - 1 + 1 - i] = q[i].site
      BY <2>2 DEF Recorded
    <3>1. i + 1 \in 1 .. n /\ i + 1 \in 2 .. n /\ n + 1 - (i + 1) = n - 1 + 1 - i
      <4> HIDE DEF n
      <4> QED BY <1>1
    <3>2. OnFile(s[i + 1])
      BY <2>3, <3>1 DEF OnFile
    <3>3. DelFile[n + 1 - (i + 1)] = s[i + 1].site
      BY <1>4, <3>1, <3>2 DEF Recorded
    <3> QED BY <2>2, <3>1, <3>3
  <2>10. /\ DelPtr' = n - 1 /\ n - 1 \in Nat /\ DelFile' = DelFile
         /\ depth' = [depth EXCEPT ![t] = n - 1]
    <3> HIDE DEF n
    <3> QED BY <1>1, <1>2, <1>4, <1>5, <1>7 DEF globals
  <2>11. q[1].at # "condition" \/ DepthOf(q) = 0
    BY <2>2, <2>4, <2>5, <2>7
  <2>12. DepthOf(q) > 0 => q[1].at # "condition"
    BY <2>11
  <2>13. DepthOf(q) \in Nat /\ PtrOf(q) \in Nat /\ DelPtr' = PtrOf(q)
           /\ depth' = [depth EXCEPT ![t] = DepthOf(q)]
           /\ (DepthOf(q) = 0 => DelPtr' = 0)
           /\ DelFile' \in [0 .. DUMA_MAX_DEL_DEPTH - 1 -> Sites \cup {Unknown}]
           /\ Recorded(DelFile', q)
    BY <1>5, <2>7, <2>8, <2>9, <2>10
  <2>14. IInv'
    BY <1>4, <1>5, <2>1, <2>2, <2>6, <2>12, <2>13, OwnerStep, Zenon
  <2> QED BY <1>1, <1>7, <2>14
<1> QED BY <1>1, <1>6, <1>7

(* operator delete finds the position of the innermost delete expression.   *)
LEMMA DestroyFacts ==
  ASSUME IInv, ~ aborted, NEW t \in Threads, At(t, "destroy")
  PROVE  /\ \A u \in Threads \ {t} : depth[u] = 0
         /\ depth[t] = Len(expr[t]) - 1 + 1
         /\ DelPtr = Len(expr[t]) /\ Recorded(DelFile, expr[t])
         /\ DelFile[DelPtr] = Head(expr[t]).site
<1> DEFINE s == expr[t]
           n == Len(s)
<1>1. /\ s # <<>> /\ n \in Nat \ {0} /\ Head(s) = s[1]
      /\ s[1].at = "destroy" /\ depth[t] = n - 1 + Held(s[1])
  BY TopFacts
<1>2. Held(s[1]) = 1 /\ OnFile(s[1])
  BY <1>1 DEF Held, OnFile
<1>3. depth[t] > 0 /\ n + 1 - 1 = n /\ 1 \in 1 .. n
  <2> HIDE DEF n
  <2> QED BY <1>1, <1>2
<1>4. /\ \A u \in Threads \ {t} : depth[u] = 0
      /\ DelPtr = n /\ Recorded(DelFile, s)
  BY <1>1, <1>2, <1>3, OwnerFacts DEF PtrOf
<1> QED BY <1>1, <1>2, <1>3, <1>4 DEF Recorded

LEMMA PlainStep ==
  ASSUME IInv, ~ aborted, NEW t \in Threads, PlainDelete(t)
  PROVE  IInv' /\ expr' = expr
<1>1. /\ expr' = expr /\ depth' = depth /\ aborted' = aborted /\ UNCHANGED globals
      /\ freed' = freed \cup {<<Head(expr[t]).site, DelFile[DelPtr]>>}
      /\ DelFile[DelPtr] = Head(expr[t]).site
  BY DestroyFacts DEF PlainDelete
<1>2. FreedLocated'
  BY <1>1 DEF IInv, FreedLocated
<1> QED BY <1>1, <1>2 DEF IInv, DeleteTypeOK, StacksMatch, OneOwner, OwnersGlobals,
                         AbortedInside, globals, At

(* The destructor has run, and the object's memory is released.             *)
LEMMA OperatorStep ==
  ASSUME IInv, ~ aborted, NEW t \in Threads, OperatorDelete(t)
  PROVE  IInv' /\ Len(expr'[t]) = Len(expr[t])
<1> DEFINE s == expr[t]
           n == Len(s)
           f == [s[1] EXCEPT !.at = "pop", !.ran = 1]
<1>1. /\ s # <<>> /\ n \in Nat \ {0} /\ Head(s) = s[1]
      /\ s[1] \in Frames /\ s[1].at = "destroy" /\ s[1].ran = 0
  <2>1. /\ s # <<>> /\ n \in Nat \ {0} /\ Head(s) = s[1]
        /\ s[1] \in Frames /\ s[1].at = "destroy"
    BY TopFacts DEF OperatorDelete
  <2>2. s[1].ran = 0
    BY <2>1 DEF IInv, StacksMatch, StackOK
  <2> QED BY <2>1, <2>2
<1>2. /\ f \in Frames /\ f.ran = 1 /\ Held(f) = 1 /\ OnFile(f)
      /\ f.at = "pop" /\ f.site = s[1].site
  BY <1>1 DEF Frames, Labels, Held, OnFile
<1>3. expr' = [expr EXCEPT ![t] = <<f>> \o Tail(@)]
  <2>1. expr' = [expr EXCEPT ![t] =
                   <<[s[1] EXCEPT !.at = "pop", !.ran = s[1].ran + 1]>> \o Tail(@)]
    BY <1>1 DEF OperatorDelete
  <2>2. s[1].ran + 1 = 1
    BY <1>1
  <2>3. [s[1] EXCEPT !.at = "pop", !.ran = s[1].ran + 1] = f
    BY <2>2
  <2> QED BY <2>1, <2>3
<1> HIDE DEF f
<1>4. /\ \A u \in Threads \ {t} : depth[u] = 0
      /\ depth[t] = n - 1 + Held(f) /\ DelPtr = n /\ Recorded(DelFile, s)
      /\ DelFile[n] = s[1].site
  BY <1>1, <1>2, DestroyFacts DEF OperatorDelete
<1>5. /\ depth' = depth /\ UNCHANGED globals /\ aborted' = FALSE
      /\ depth \in [Threads -> Nat]
      /\ DelFile \in [0 .. DUMA_MAX_DEL_DEPTH - 1 -> Sites \cup {Unknown}]
      /\ freed' = freed \cup {<<s[1].site, DelFile[DelPtr]>>}
  BY <1>1 DEF OperatorDelete, IInv, DeleteTypeOK
<1>6. FreedLocated'
  BY <1>4, <1>5 DEF IInv, FreedLocated
<1>7. depth' = [depth EXCEPT ![t] = n - 1 + Held(f)]
  BY <1>4, <1>5
<1> QED BY <1>1, <1>2, <1>3, <1>4, <1>5, <1>6, <1>7, TopStep DEF globals

(* The position is popped, and Magic cleared.                               *)
LEMMA PopStep ==
  ASSUME IInv, ~ aborted, NEW t \in Threads, MacroPop(t)
  PROVE  IInv' /\ Len(expr'[t]) = Len(expr[t])
<1> DEFINE s == expr[t]
           n == Len(s)
           f == [s[1] EXCEPT !.at = "condition"]
<1>1. /\ s # <<>> /\ n \in Nat \ {0} /\ Head(s) = s[1]
      /\ s[1] \in Frames /\ s[1].at = "pop" /\ s[1].ran = 1
      /\ depth[t] = n - 1 + Held(s[1])
  BY TopFacts DEF MacroPop, IInv, StacksMatch, StackOK
<1>2. /\ f \in Frames /\ f.ran = 1 /\ Held(f) = 1 /\ ~ OnFile(f)
      /\ f.at = "condition" /\ Held(s[1]) = 1 /\ OnFile(s[1])
  BY <1>1 DEF Frames, Labels, Held, OnFile
<1>3. expr' = [expr EXCEPT ![t] = <<f>> \o Tail(@)]
  BY <1>1 DEF MacroPop, Goto
<1> HIDE DEF f
<1>4. depth[t] > 0
  <2> HIDE DEF n
  <2> QED BY <1>1, <1>2
<1>5. /\ \A u \in Threads \ {t} : depth[u] = 0
      /\ DelPtr = n /\ Recorded(DelFile, s)
  BY <1>1, <1>2, <1>4, OwnerFacts DEF PtrOf
<1>6. /\ depth' = depth /\ DelPtr' = DelPtr - 1 /\ Magic' = 0 /\ aborted' = FALSE
      /\ DelFile' = DelFile /\ FreedLocated' /\ depth \in [Threads -> Nat]
      /\ DelFile \in [0 .. DUMA_MAX_DEL_DEPTH - 1 -> Sites \cup {Unknown}]
  BY DEF MacroPop, IInv, DeleteTypeOK, FreedLocated
<1>7. depth' = [depth EXCEPT ![t] = n - 1 + Held(f)] /\ DelPtr' = n - 1
  BY <1>1, <1>2, <1>5, <1>6
<1>8. Magic' = 1 - f.ran
  BY <1>2, <1>6
<1> QED BY <1>1, <1>2, <1>3, <1>5, <1>6, <1>7, <1>8, TopStep

-----------------------------------------------------------------------------

(* A thread's stack loses a delete expression only once its destructor has  *)
(* run.                                                                     *)
Completed ==
  \A t \in Threads : Len(expr'[t]) < Len(expr[t]) => Head(expr[t]).ran = 1

LEMMA NextInv ==
  DUMA_MAX_DEL_DEPTH \in Nat => (IInv /\ [Next]_vars => IInv' /\ Completed)
<1> SUFFICES ASSUME DUMA_MAX_DEL_DEPTH \in Nat, IInv, [Next]_vars
             PROVE  IInv' /\ Completed
  OBVIOUS
<1>1. \A t \in Threads : Len(expr[t]) \in Nat
  BY DEF IInv, DeleteTypeOK
<1>2. CASE UNCHANGED vars
  BY <1>1, <1>2 DEF vars, globals, IInv, DeleteTypeOK, StacksMatch, OneOwner, OwnersGlobals,
              FreedLocated, AbortedInside, At, Completed
<1>3. ASSUME ~ aborted, NEW t \in Threads, Begin(t) \/ PlainDelete(t) \/ Step(t)
      PROVE  IInv' /\ Completed
  <2>1. IInv' /\ (Len(expr'[t]) < Len(expr[t]) => Head(expr[t]).ran = 1)
    <3>1. CASE Begin(t)          BY <1>1, <1>3, <3>1, BeginStep
    <3>2. CASE PlainDelete(t)    BY <1>1, <1>3, <3>2, PlainStep
    <3>3. CASE MacroGet(t)       BY <1>1, <1>3, <3>3, GetStep
    <3>4. CASE MacroPush(t)      BY <1>1, <1>3, <3>4, PushStep
    <3>5. CASE MacroCondition(t) BY <1>3, <3>5, ConditionStep
    <3>6. CASE OperatorDelete(t) BY <1>1, <1>3, <3>6, OperatorStep
    <3>7. CASE MacroPop(t)       BY <1>1, <1>3, <3>7, PopStep
    <3> QED BY <1>3, <3>1, <3>2, <3>3, <3>4, <3>5, <3>6, <3>7 DEF Step
  <2>2. \A u \in Threads \ {t} : expr'[u] = expr[u]
    BY <1>3 DEF Begin, PlainDelete, Step, MacroGet, MacroPush, MacroCondition,
                OperatorDelete, MacroPop, Goto, IInv, DeleteTypeOK
  <2> QED BY <1>1, <2>1, <2>2 DEF Completed
<1> QED BY <1>2, <1>3 DEF Next

(* The inductive invariant holds in every reachable state.                  *)
THEOREM DeleteInvariant ==
  ASSUME DUMA_MAX_DEL_DEPTH \in Nat
  PROVE  Spec => []IInv
<1>1. Init => IInv
  BY InitInv
<1>2. IInv /\ [Next]_vars => IInv'
  BY NextInv
<1> QED BY <1>1, <1>2, PTL DEF Spec

(* Every release in a delete expression is recorded with its position, and  *)
(* with no delete expression in progress DelPtr and the semaphore are back. *)
THEOREM Located ==
  ASSUME DUMA_MAX_DEL_DEPTH \in Nat
  PROVE  Spec => []DeleteLocated
<1>1. IInv => DeleteLocated
  BY DEF IInv, DeleteLocated, FreedLocated, StacksMatch, DepthOf, OwnersGlobals,
         AbortedInside, DeleteTypeOK
<1> QED BY <1>1, DeleteInvariant, PTL

(* The macro's loop runs its body exactly once.                             *)
THEOREM Once ==
  ASSUME DUMA_MAX_DEL_DEPTH \in Nat
  PROVE  Spec => RunsOnce
<1> DEFINE OnceStep == \A t \in Threads :
             /\ \A i \in 1 .. Len(expr'[t]) : expr'[t][i].ran <= 1
             /\ Len(expr'[t]) < Len(expr[t]) => Head(expr[t]).ran = 1
<1>1. IInv' => \A t \in Threads :
                 \A i \in 1 .. Len(expr'[t]) : expr'[t][i].ran <= 1
  <2> SUFFICES ASSUME IInv', NEW t \in Threads, NEW i \in 1 .. Len(expr'[t])
               PROVE  expr'[t][i].ran <= 1
    OBVIOUS
  <2>1. expr'[t] \in Seq(Frames)
    BY DEF IInv, DeleteTypeOK
  <2>2. expr'[t][i] \in Frames
    BY <2>1
  <2> QED BY <2>2 DEF Frames
<1>2. IInv /\ [Next]_vars => [OnceStep]_vars
  BY <1>1, NextInv DEF Completed
<1> QED BY <1>2, DeleteInvariant, PTL DEF Spec, RunsOnce

=============================================================================
