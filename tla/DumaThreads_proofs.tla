------------------------- MODULE DumaThreads_proofs -------------------------
(***************************************************************************)
(* Proofs about the threads that share the slot table, for any threads, any *)
(* number of calls and of tables, and any table size.  The program keeps    *)
(* the two functions that read allocList without the semaphore apart from   *)
(* all others: without that the slot table is closed or deleted under them. *)
(***************************************************************************)
EXTENDS DumaThreads, TLAPS

Unlocked == {"usable_size", "delFrame"}

ProgramKeepsApart == Unlocked \cap Ops \subseteq Alone

Holding == {"allow", "grow", "exchange", "drop", "use", "deny", "release"}

Growing == {"grow", "exchange", "drop"}

Looking == {"read", "open", "search", "close"}

(* Where the table has to be open.                                          *)
Opened == {"grow", "exchange", "drop", "use", "deny", "search", "close"}

Tables == 1 .. MaxTables

ThreadsTypeOK ==
  /\ allocList \in Tables
  /\ access \in [Tables -> {"rw", "none", "gone"}]
  /\ table \in [Tables -> SUBSET (Threads \X Nat)]
  /\ depth \in [Threads -> Nat]
  /\ pc \in [Threads -> {"out", "get"} \cup Holding \cup Looking]
  /\ op \in [Threads -> Ops \cup {"none"}]
  /\ arg \in [Threads -> (Threads \X Nat) \cup {Nothing}]
  /\ slot \in [Threads -> Nat]
  /\ calls \in [Threads -> Nat]
  /\ live \subseteq Threads \X Nat

(* One thread holds the semaphore, and a function called alone is alone.    *)
OneHolder ==
  /\ \A t \in Threads : depth[t] = IF pc[t] \in Holding THEN 1 ELSE 0
  /\ \A t, u \in Threads : pc[t] \in Holding /\ pc[u] \in Holding => t = u

KeptApart ==
  \A t, u \in Threads :
    t # u /\ pc[t] # "out" /\ pc[u] # "out" => op[t] \notin Alone

(* What a thread's place says of its call and of what it has read.          *)
Places ==
  \A t \in Threads :
    /\ pc[t] # "out" => op[t] # "none"
    /\ pc[t] \in Looking <=> op[t] = "usable_size" /\ pc[t] # "out"
    /\ pc[t] \in Growing => op[t] = "malloc"
    /\ pc[t] \in {"grow", "exchange"} => allocList + 1 \in Tables
    /\ pc[t] = "drop" => allocList - 1 \in Tables
    /\ op[t] = "delFrame" /\ pc[t] # "out" => slot[t] = allocList
    /\ pc[t] = "open" => slot[t] = allocList

TableAccess ==
  /\ access[allocList] # "gone"
  /\ \A t \in Threads :
       /\ pc[t] \in Opened => access[allocList] = "rw"
       /\ pc[t] = "exchange" =>
            access[allocList + 1] = "rw" /\ table[allocList + 1] = table[allocList]

(* The blocks some malloc() has returned.                                   *)
Allocating(u) == op[u] = "malloc" /\ pc[u] # "out"

Returned ==
  {b \in Threads \X Nat :
     /\ b[2] <= calls[b[1]]
     /\ Allocating(b[1]) => b[2] < calls[b[1]]}

(* The threads whose free() has not changed the table yet, and those whose  *)
(* malloc() has changed it and not returned.                                *)
Removing == {t \in Threads : op[t] = "free" /\ pc[t] \in {"get", "allow", "use"}}

Adding == {t \in Threads : op[t] = "malloc" /\ pc[t] \in {"deny", "release"}}

Contents ==
  /\ live \subseteq Returned
  /\ \A t \in Threads : Allocating(t) => arg[t] = <<t, calls[t]>>
  /\ \A t \in Removing : arg[t] \in Returned /\ arg[t] \notin live
  /\ \A t, u \in Removing : arg[t] = arg[u] => t = u
  /\ table[allocList] =
       live \cup {arg[t] : t \in Removing} \cup {arg[t] : t \in Adding}

(* DUMA_delFrame() is the last call.                                        *)
Reported ==
  /\ \A t \in Threads : op[t] = "delFrame" => ended
  /\ \A t, u \in Threads : op[t] = "delFrame" /\ pc[u] # "out" => t = u
  /\ \A t \in Threads :
       op[t] = "delFrame" /\ pc[t] \in {"deny", "release", "out"} => report = live

IInv ==
  /\ ThreadsTypeOK /\ OneHolder /\ KeptApart /\ Places /\ TableAccess
  /\ Contents /\ Reported /\ ~ fault

(* One step of thread t.                                                    *)
Step(t) ==
  \/ CallMalloc(t) \/ CallFree(t) \/ CallCheck(t) \/ CallUsableSize(t)
  \/ CallDelFrame(t)
  \/ GetSemaphore(t) \/ AllowTable(t) \/ GrowTable(t) \/ ExchangeTable(t)
  \/ DropTable(t) \/ UseTable(t) \/ DenyTable(t) \/ ReleaseSemaphore(t)
  \/ UsableRead(t) \/ UsableOpen(t) \/ UsableSearch(t) \/ UsableClose(t)

-----------------------------------------------------------------------------

(* The block malloc() is about to return.                                   *)
LEMMA FreshBlock ==
  ASSUME IInv, NEW t \in Threads, op[t] = "malloc", pc[t] # "out"
  PROVE  arg[t] \in Threads \X Nat
<1>1. arg[t] = <<t, calls[t]>>
  BY DEF IInv, Contents, Allocating
<1>2. calls[t] \in Nat
  BY DEF IInv, ThreadsTypeOK
<1> QED BY <1>1, <1>2

(* Every variable keeps its type.                                           *)
LEMMA TypeKept ==
  ASSUME ProgramKeepsApart, IInv, NEW t \in Threads, Step(t)
  PROVE  ThreadsTypeOK'
<1> USE DEF IInv, Goto, local,
            ThreadsTypeOK, Tables, Holding, Looking, Places, Growing, TableAccess
<1>1. CASE CallMalloc(t)           BY <1>1 DEF CallMalloc, Start, Apart
<1>2. CASE CallFree(t)             BY <1>2 DEF CallFree, Start, Apart
<1>3. CASE CallCheck(t)            BY <1>3 DEF CallCheck, Start, Apart
<1>4. CASE CallUsableSize(t)       BY <1>4 DEF CallUsableSize, Start, Apart
<1>5. CASE CallDelFrame(t)         BY <1>5 DEF CallDelFrame, Apart
<1>6. CASE GetSemaphore(t)         BY <1>6 DEF GetSemaphore, Lock!Enter
<1>7. CASE AllowTable(t)           BY <1>7 DEF AllowTable
<1>8. CASE GrowTable(t)            BY <1>8 DEF GrowTable
<1>9. CASE ExchangeTable(t)        BY <1>9 DEF ExchangeTable
<1>10. CASE DropTable(t)           BY <1>10 DEF DropTable
<1>11. CASE UseTable(t)
  <2>1. op[t] = "malloc" => arg[t] \in Threads \X Nat
    BY <1>11, FreshBlock DEF UseTable
  <2>2. NewTable(t) \subseteq Threads \X Nat
    BY <2>1 DEF NewTable
  <2>3. table' \in [Tables -> SUBSET (Threads \X Nat)]
    <3> HIDE DEF Tables
    <3> QED BY <1>11, <2>2 DEF UseTable
  <2> QED BY <1>11, <2>3 DEF UseTable
<1>12. CASE DenyTable(t)           BY <1>12 DEF DenyTable
<1>13. CASE ReleaseSemaphore(t)
  <2>1. op[t] = "malloc" => arg[t] \in Threads \X Nat
    BY <1>13, FreshBlock DEF ReleaseSemaphore
  <2>2. live' \subseteq Threads \X Nat
    BY <1>13, <2>1 DEF ReleaseSemaphore
  <2>3. depth' \in [Threads -> Nat]
    BY <1>13 DEF ReleaseSemaphore, Lock!Exit
  <2> QED BY <1>13, <2>2, <2>3 DEF ReleaseSemaphore
<1>14. CASE UsableRead(t)          BY <1>14 DEF UsableRead
<1>15. CASE UsableOpen(t)          BY <1>15 DEF UsableOpen
<1>16. CASE UsableSearch(t)        BY <1>16 DEF UsableSearch
<1>17. CASE UsableClose(t)         BY <1>17 DEF UsableClose
<1> QED BY <1>1, <1>2, <1>3, <1>4, <1>5, <1>6, <1>7, <1>8, <1>9, <1>10, <1>11,
          <1>12, <1>13, <1>14, <1>15, <1>16, <1>17 DEF Step

(* One thread at a time is between the get and the release of the semaphore.*)
LEMMA HolderKept ==
  ASSUME ProgramKeepsApart, IInv, NEW t \in Threads, Step(t)
  PROVE  OneHolder'
<1> USE DEF IInv, Goto, local,
            OneHolder, ThreadsTypeOK, Holding, Looking
<1>1. CASE CallMalloc(t)           BY <1>1 DEF CallMalloc, Start, Apart
<1>2. CASE CallFree(t)             BY <1>2 DEF CallFree, Start, Apart
<1>3. CASE CallCheck(t)            BY <1>3 DEF CallCheck, Start, Apart
<1>4. CASE CallUsableSize(t)       BY <1>4 DEF CallUsableSize, Start, Apart
<1>5. CASE CallDelFrame(t)         BY <1>5 DEF CallDelFrame, Apart
<1>6. CASE GetSemaphore(t)         BY <1>6 DEF GetSemaphore, Lock!Enter
<1>7. CASE AllowTable(t)           BY <1>7 DEF AllowTable
<1>8. CASE GrowTable(t)            BY <1>8 DEF GrowTable
<1>9. CASE ExchangeTable(t)        BY <1>9 DEF ExchangeTable
<1>10. CASE DropTable(t)           BY <1>10 DEF DropTable
<1>11. CASE UseTable(t)            BY <1>11 DEF UseTable, NewTable, Touched
<1>12. CASE DenyTable(t)           BY <1>12 DEF DenyTable
<1>13. CASE ReleaseSemaphore(t)    BY <1>13 DEF ReleaseSemaphore, Lock!Exit
<1>14. CASE UsableRead(t)          BY <1>14 DEF UsableRead
<1>15. CASE UsableOpen(t)          BY <1>15 DEF UsableOpen
<1>16. CASE UsableSearch(t)        BY <1>16 DEF UsableSearch
<1>17. CASE UsableClose(t)         BY <1>17 DEF UsableClose
<1> QED BY <1>1, <1>2, <1>3, <1>4, <1>5, <1>6, <1>7, <1>8, <1>9, <1>10, <1>11,
          <1>12, <1>13, <1>14, <1>15, <1>16, <1>17 DEF Step

(* A function that is called alone stays alone until it returns.            *)
LEMMA ApartKept ==
  ASSUME ProgramKeepsApart, IInv, NEW t \in Threads, Step(t)
  PROVE  KeptApart'
<1> USE DEF IInv, Goto, local,
            KeptApart, ThreadsTypeOK, ProgramKeepsApart, Unlocked, Holding, Looking
<1>1. CASE CallMalloc(t)           BY <1>1 DEF CallMalloc, Start, Apart
<1>2. CASE CallFree(t)             BY <1>2 DEF CallFree, Start, Apart
<1>3. CASE CallCheck(t)            BY <1>3 DEF CallCheck, Start, Apart
<1>4. CASE CallUsableSize(t)       BY <1>4 DEF CallUsableSize, Start, Apart
<1>5. CASE CallDelFrame(t)         BY <1>5 DEF CallDelFrame, Apart
<1>6. CASE GetSemaphore(t)         BY <1>6 DEF GetSemaphore, Lock!Enter
<1>7. CASE AllowTable(t)           BY <1>7 DEF AllowTable
<1>8. CASE GrowTable(t)            BY <1>8 DEF GrowTable
<1>9. CASE ExchangeTable(t)        BY <1>9 DEF ExchangeTable
<1>10. CASE DropTable(t)           BY <1>10 DEF DropTable
<1>11. CASE UseTable(t)            BY <1>11 DEF UseTable, NewTable, Touched
<1>12. CASE DenyTable(t)           BY <1>12 DEF DenyTable
<1>13. CASE ReleaseSemaphore(t)    BY <1>13 DEF ReleaseSemaphore, Lock!Exit
<1>14. CASE UsableRead(t)          BY <1>14 DEF UsableRead
<1>15. CASE UsableOpen(t)          BY <1>15 DEF UsableOpen
<1>16. CASE UsableSearch(t)        BY <1>16 DEF UsableSearch
<1>17. CASE UsableClose(t)         BY <1>17 DEF UsableClose
<1> QED BY <1>1, <1>2, <1>3, <1>4, <1>5, <1>6, <1>7, <1>8, <1>9, <1>10, <1>11,
          <1>12, <1>13, <1>14, <1>15, <1>16, <1>17 DEF Step

(* The table a thread has read is still the current one where it uses it.   *)
LEMMA PlacesKept ==
  ASSUME MaxTables \in Nat, ProgramKeepsApart, IInv, NEW t \in Threads, Step(t)
  PROVE  Places'
<1> USE DEF IInv, Goto, local,
            Places, ThreadsTypeOK, KeptApart, OneHolder, Looking, Growing, Holding, Tables,
            ProgramKeepsApart, Unlocked
<1>1. CASE CallMalloc(t)           BY <1>1 DEF CallMalloc, Start, Apart
<1>2. CASE CallFree(t)             BY <1>2 DEF CallFree, Start, Apart
<1>3. CASE CallCheck(t)            BY <1>3 DEF CallCheck, Start, Apart
<1>4. CASE CallUsableSize(t)       BY <1>4 DEF CallUsableSize, Start, Apart
<1>5. CASE CallDelFrame(t)         BY <1>5 DEF CallDelFrame, Apart
<1>6. CASE GetSemaphore(t)         BY <1>6 DEF GetSemaphore, Lock!Enter
<1>7. CASE AllowTable(t)
  <2>1. op[t] # "usable_size" /\ allocList \in Tables
    BY <1>7 DEF AllowTable
  <2>2. CASE op[t] = "malloc" /\ Full /\ allocList < MaxTables
    BY <1>7, <2>1, <2>2 DEF AllowTable
  <2>3. CASE ~ (op[t] = "malloc" /\ Full /\ allocList < MaxTables)
    BY <1>7, <2>1, <2>3 DEF AllowTable
  <2> QED BY <2>2, <2>3
<1>8. CASE GrowTable(t)            BY <1>8 DEF GrowTable
<1>9. CASE ExchangeTable(t)        BY <1>9 DEF ExchangeTable
<1>10. CASE DropTable(t)           BY <1>10 DEF DropTable
<1>11. CASE UseTable(t)            BY <1>11 DEF UseTable, NewTable, Touched
<1>12. CASE DenyTable(t)           BY <1>12 DEF DenyTable
<1>13. CASE ReleaseSemaphore(t)    BY <1>13 DEF ReleaseSemaphore, Lock!Exit
<1>14. CASE UsableRead(t)          BY <1>14 DEF UsableRead
<1>15. CASE UsableOpen(t)          BY <1>15 DEF UsableOpen
<1>16. CASE UsableSearch(t)        BY <1>16 DEF UsableSearch
<1>17. CASE UsableClose(t)         BY <1>17 DEF UsableClose
<1> QED BY <1>1, <1>2, <1>3, <1>4, <1>5, <1>6, <1>7, <1>8, <1>9, <1>10, <1>11,
          <1>12, <1>13, <1>14, <1>15, <1>16, <1>17 DEF Step

(* The table is open where a thread is about to touch it.                   *)
LEMMA AccessKept ==
  ASSUME ProgramKeepsApart, IInv, NEW t \in Threads, Step(t)
  PROVE  TableAccess'
<1> USE DEF IInv, Goto, local, TableAccess, ThreadsTypeOK
<1>0. ASSUME NEW u \in Threads, u # t, pc[t] \in Holding \cup Looking
      PROVE  pc[u] \notin Opened
  <2>1. CASE pc[t] \in Looking
    BY <1>0, <2>1 DEF Places, KeptApart, ProgramKeepsApart, Unlocked, Opened, Looking
  <2>2. CASE pc[t] \in Holding
    <3>1. pc[u] \notin Holding
      BY <1>0, <2>2 DEF OneHolder
    <3>2. pc[u] \notin Looking
      BY <1>0, <2>2 DEF Places, KeptApart, ProgramKeepsApart, Unlocked, Holding, Looking
    <3> QED BY <3>1, <3>2 DEF Opened, Holding, Looking
  <2> QED BY <1>0, <2>1, <2>2
<1> USE DEF Opened, Holding, Looking
<1>1. CASE CallMalloc(t)           BY <1>1 DEF CallMalloc, Start, Apart
<1>2. CASE CallFree(t)             BY <1>2 DEF CallFree, Start, Apart
<1>3. CASE CallCheck(t)            BY <1>3 DEF CallCheck, Start, Apart
<1>4. CASE CallUsableSize(t)       BY <1>4 DEF CallUsableSize, Start, Apart
<1>5. CASE CallDelFrame(t)         BY <1>5 DEF CallDelFrame, Apart
<1>6. CASE GetSemaphore(t)         BY <1>6 DEF GetSemaphore, Lock!Enter
<1>7. CASE AllowTable(t)           BY <1>7 DEF AllowTable
<1>8. CASE GrowTable(t)
  <2>1. allocList + 1 \in Tables /\ allocList + 1 # allocList
    BY <1>8 DEF GrowTable, Places, Tables
  <2> QED BY <1>0, <1>8, <2>1 DEF GrowTable
<1>9. CASE ExchangeTable(t)        BY <1>0, <1>9 DEF ExchangeTable
<1>10. CASE DropTable(t)
  <2>1. allocList - 1 \in Tables /\ allocList - 1 # allocList
    BY <1>10 DEF DropTable, Places, Tables
  <2> QED BY <1>0, <1>10, <2>1 DEF DropTable
<1>11. CASE UseTable(t)            BY <1>0, <1>11 DEF UseTable
<1>12. CASE DenyTable(t)           BY <1>0, <1>12 DEF DenyTable
<1>13. CASE ReleaseSemaphore(t)    BY <1>13 DEF ReleaseSemaphore, Lock!Exit
<1>14. CASE UsableRead(t)          BY <1>14 DEF UsableRead
<1>15. CASE UsableOpen(t)
  <2>1. slot[t] = allocList /\ access[allocList] # "gone"
    BY <1>15 DEF UsableOpen, Places
  <2>2. access' = [access EXCEPT ![allocList] = "rw"] /\ pc' = [pc EXCEPT ![t] = "search"]
    BY <1>15, <2>1 DEF UsableOpen
  <2> QED BY <1>0, <1>15, <2>1, <2>2 DEF UsableOpen
<1>16. CASE UsableSearch(t)        BY <1>16 DEF UsableSearch
<1>17. CASE UsableClose(t)         BY <1>0, <1>17 DEF UsableClose
<1> QED BY <1>1, <1>2, <1>3, <1>4, <1>5, <1>6, <1>7, <1>8, <1>9, <1>10, <1>11,
          <1>12, <1>13, <1>14, <1>15, <1>16, <1>17 DEF Step

(* The report, once made, stays right: the program has ended.               *)
LEMMA ReportKept ==
  ASSUME ProgramKeepsApart, IInv, NEW t \in Threads, Step(t)
  PROVE  Reported'
<1> USE DEF IInv, Goto, local,
            Reported, ThreadsTypeOK, KeptApart, Places, Holding, Looking, ProgramKeepsApart,
            Unlocked
<1>1. CASE CallMalloc(t)           BY <1>1 DEF CallMalloc, Start, Apart
<1>2. CASE CallFree(t)             BY <1>2 DEF CallFree, Start, Apart
<1>3. CASE CallCheck(t)            BY <1>3 DEF CallCheck, Start, Apart
<1>4. CASE CallUsableSize(t)       BY <1>4 DEF CallUsableSize, Start, Apart
<1>5. CASE CallDelFrame(t)         BY <1>5 DEF CallDelFrame, Apart
<1>6. CASE GetSemaphore(t)         BY <1>6 DEF GetSemaphore, Lock!Enter
<1>7. CASE AllowTable(t)           BY <1>7 DEF AllowTable
<1>8. CASE GrowTable(t)            BY <1>8 DEF GrowTable
<1>9. CASE ExchangeTable(t)        BY <1>9 DEF ExchangeTable
<1>10. CASE DropTable(t)           BY <1>10 DEF DropTable
<1>11. CASE UseTable(t)
  <2>1. CASE op[t] = "delFrame"
    <3>1. \A u \in Threads \ {t} : pc[u] = "out"
      BY <2>1
    <3>2. Removing = {} /\ Adding = {}
      BY <1>11, <2>1, <3>1 DEF Removing, Adding, UseTable
    <3>3. table[slot[t]] = live
      <4>1. slot[t] = allocList
        BY <1>11, <2>1 DEF UseTable
      <4>2. table[allocList] = live \cup {} \cup {}
        BY <3>2 DEF Contents
      <4> QED BY <4>1, <4>2
    <3>4. report' = live /\ live' = live
      BY <1>11, <2>1, <3>3 DEF UseTable, Touched, TableAccess, Opened
    <3> QED BY <1>11, <3>1, <3>4 DEF UseTable
  <2>2. CASE op[t] # "delFrame"
    BY <1>11, <2>2 DEF UseTable, Touched
  <2> QED BY <2>1, <2>2
<1>12. CASE DenyTable(t)           BY <1>12 DEF DenyTable
<1>13. CASE ReleaseSemaphore(t)    BY <1>13 DEF ReleaseSemaphore, Lock!Exit
<1>14. CASE UsableRead(t)          BY <1>14 DEF UsableRead
<1>15. CASE UsableOpen(t)          BY <1>15 DEF UsableOpen
<1>16. CASE UsableSearch(t)        BY <1>16 DEF UsableSearch
<1>17. CASE UsableClose(t)         BY <1>17 DEF UsableClose
<1> QED BY <1>1, <1>2, <1>3, <1>4, <1>5, <1>6, <1>7, <1>8, <1>9, <1>10, <1>11,
          <1>12, <1>13, <1>14, <1>15, <1>16, <1>17 DEF Step

(* A step that moves no block keeps the contents of the table.              *)
LEMMA NothingMoved ==
  ASSUME IInv, live' = live, table'[allocList'] = table[allocList],
         Removing' = Removing, Adding' = Adding,
         \A u \in Threads : Allocating(u)' <=> Allocating(u),
         \A u \in Threads : calls'[u] \in Nat /\ calls'[u] >= calls[u],
         \A u \in Threads :
           Allocating(u) \/ u \in Removing \/ u \in Adding =>
             arg'[u] = arg[u] /\ (Allocating(u) => calls'[u] = calls[u])
  PROVE  Contents'
<1>1. Returned \subseteq Returned'
  <2> SUFFICES ASSUME NEW b \in Returned PROVE b \in Returned'
    OBVIOUS
  <2>1. b[1] \in Threads /\ b[2] \in Nat /\ b[2] <= calls[b[1]] /\ b \in Threads \X Nat
    BY DEF Returned
  <2>2. b[2] <= calls'[b[1]]
    BY <2>1 DEF IInv, ThreadsTypeOK
  <2>3. Allocating(b[1])' => b[2] < calls'[b[1]]
    BY <2>1 DEF Returned
  <2> QED BY <2>1, <2>2, <2>3 DEF Returned
<1>2. {arg'[u] : u \in Removing'} = {arg[u] : u \in Removing}
  BY DEF Removing
<1>3. {arg'[u] : u \in Adding'} = {arg[u] : u \in Adding}
  BY DEF Adding
<1>4. Removing \subseteq Threads
  BY DEF Removing
<1>5. live' \subseteq Returned'
  BY <1>1 DEF IInv, Contents
<1>6. \A u \in Threads : Allocating(u)' => arg'[u] = <<u, calls'[u]>>
  BY DEF IInv, Contents
<1>7. \A u \in Removing' : arg'[u] \in Returned' /\ arg'[u] \notin live'
  BY <1>1, <1>4 DEF IInv, Contents
<1>8. \A u, w \in Removing' : arg'[u] = arg'[w] => u = w
  BY <1>4 DEF IInv, Contents
<1>9. table'[allocList'] =
        live' \cup {arg'[u] : u \in Removing'} \cup {arg'[u] : u \in Adding'}
  BY <1>2, <1>3 DEF IInv, Contents
<1> QED BY <1>5, <1>6, <1>7, <1>8, <1>9 DEF Contents

(* The table describes the blocks the program has, those that are being     *)
(* released and those that are being allocated, and no others.              *)
LEMMA ContentsKept ==
  ASSUME ProgramKeepsApart, IInv, NEW t \in Threads, Step(t)
  PROVE  Contents'
<1> USE DEF IInv, Goto, local, ThreadsTypeOK
<1>0. live \subseteq Threads \X Nat /\ Removing \subseteq Threads /\ Adding \subseteq Threads
  BY DEF Removing, Adding
<1>1. CASE CallMalloc(t)
  <2> USE <1>1 DEF CallMalloc, Start
  <2>1. /\ live' = live /\ table'[allocList'] = table[allocList]
        /\ Removing' = Removing /\ Adding' = Adding /\ t \notin Removing \cup Adding
        /\ \A u \in Threads : Allocating(u)' <=> Allocating(u) \/ u = t
        /\ \A u \in Threads \ {t} : calls'[u] = calls[u] /\ arg'[u] = arg[u]
        /\ calls'[t] = calls[t] + 1 /\ arg'[t] = <<t, calls[t] + 1>>
    BY DEF Removing, Adding, Allocating
  <2>2. Returned \subseteq Returned'
    <3> SUFFICES ASSUME NEW b \in Returned PROVE b \in Returned'
      OBVIOUS
    <3>1. b[1] \in Threads /\ b[2] \in Nat /\ b[2] <= calls[b[1]] /\ b \in Threads \X Nat
      BY DEF Returned
    <3>2. /\ b[2] <= calls'[b[1]]
          /\ Allocating(b[1])' => b[2] < calls'[b[1]]
      BY <2>1, <3>1 DEF Returned
    <3> QED BY <3>1, <3>2 DEF Returned
  <2>3. {arg'[u] : u \in Removing} = {arg[u] : u \in Removing}
    BY <1>0, <2>1
  <2>4. {arg'[u] : u \in Adding} = {arg[u] : u \in Adding}
    BY <1>0, <2>1
  <2> QED BY <1>0, <2>1, <2>2, <2>3, <2>4 DEF Contents
<1>2. CASE CallFree(t)
  <2> USE DEF Start
  <2>1. PICK b \in live : Start(t, "free", b, "get") /\ live' = live \ {b}
    BY <1>2 DEF CallFree
  <2>2. /\ table'[allocList'] = table[allocList] /\ t \notin Removing \cup Adding
        /\ Removing' = Removing \cup {t} /\ Adding' = Adding
        /\ \A u \in Threads : Allocating(u)' <=> Allocating(u)
        /\ \A u \in Threads \ {t} : calls'[u] = calls[u] /\ arg'[u] = arg[u]
        /\ ~ Allocating(t) /\ calls'[t] = calls[t] + 1 /\ arg'[t] = b
    BY <2>1 DEF Removing, Adding, Allocating
  <2>3. Returned \subseteq Returned'
    <3> SUFFICES ASSUME NEW c \in Returned PROVE c \in Returned'
      OBVIOUS
    <3>1. c[1] \in Threads /\ c[2] \in Nat /\ c[2] <= calls[c[1]] /\ c \in Threads \X Nat
      BY DEF Returned
    <3>2. /\ c[2] <= calls'[c[1]]
          /\ Allocating(c[1])' => c[2] < calls'[c[1]]
      BY <2>2, <3>1 DEF Returned
    <3> QED BY <3>1, <3>2 DEF Returned
  <2>4. {arg'[u] : u \in Removing'} = {arg[u] : u \in Removing} \cup {b}
    BY <1>0, <2>2
  <2>5. {arg'[u] : u \in Adding'} = {arg[u] : u \in Adding}
    BY <1>0, <2>2
  <2> QED BY <1>0, <2>1, <2>2, <2>3, <2>4, <2>5 DEF Contents
<1>3. CASE UseTable(t)
  <2>1. access[Touched(t)] = "rw"
    BY <1>3 DEF UseTable, Touched, TableAccess, Opened, Places
  <2>2. /\ live' = live /\ table'[allocList'] = NewTable(t) /\ UNCHANGED local
        /\ pc[t] = "use" /\ pc' = [pc EXCEPT ![t] = "deny"]
    BY <1>3, <2>1 DEF UseTable
  <2>3. /\ \A u \in Threads : Allocating(u)' <=> Allocating(u)
        /\ Returned' = Returned
    BY <2>2 DEF Allocating, Returned
  <2>4. CASE op[t] = "malloc"
    <3>1. Removing' = Removing /\ Adding' = Adding \cup {t}
      BY <2>2, <2>4 DEF Removing, Adding
    <3>2. NewTable(t) = table[allocList] \cup {arg[t]}
      BY <2>4 DEF NewTable
    <3> QED BY <2>2, <2>3, <3>1, <3>2 DEF Contents
  <2>5. CASE op[t] = "free"
    <3>1. Removing' = Removing \ {t} /\ Adding' = Adding /\ t \in Removing
      BY <2>2, <2>5 DEF Removing, Adding
    <3>2. NewTable(t) = table[allocList] \ {arg[t]}
      BY <2>5 DEF NewTable
    <3>3. \A u \in Adding : arg[u] # arg[t]
      <4> SUFFICES ASSUME NEW u \in Adding PROVE arg[u] # arg[t]
        OBVIOUS
      <4>1. Allocating(u) /\ u \in Threads /\ arg[u] = <<u, calls[u]>>
        BY DEF Adding, Allocating, Contents
      <4>2. arg[u] \notin Returned
        BY <4>1 DEF Returned
      <4> QED BY <3>1, <4>2 DEF Contents
    <3>4. NewTable(t) = live \cup {arg[u] : u \in Removing \ {t}}
                             \cup {arg[u] : u \in Adding}
      BY <3>1, <3>2, <3>3 DEF Contents
    <3> QED BY <2>2, <2>3, <3>1, <3>4 DEF Contents
  <2>6. CASE op[t] \notin {"malloc", "free"}
    <3>1. Removing' = Removing /\ Adding' = Adding
      BY <2>2, <2>6 DEF Removing, Adding
    <3>2. NewTable(t) = table[allocList]
      BY <2>6 DEF NewTable
    <3> QED BY <2>2, <2>3, <3>1, <3>2 DEF Contents
  <2> QED BY <2>4, <2>5, <2>6
<1>4. CASE ReleaseSemaphore(t)
  <2>1. /\ table'[allocList'] = table[allocList] /\ UNCHANGED local
        /\ pc[t] = "release" /\ pc' = [pc EXCEPT ![t] = "out"]
        /\ live' = IF op[t] = "malloc" THEN live \cup {arg[t]} ELSE live
    BY <1>4 DEF ReleaseSemaphore
  <2>2. CASE op[t] = "malloc"
    <3>1. /\ Removing' = Removing /\ Adding' = Adding \ {t} /\ t \in Adding
          /\ \A u \in Threads : Allocating(u)' <=> Allocating(u) /\ u # t
          /\ Allocating(t) /\ live' = live \cup {arg[t]}
      BY <2>1, <2>2 DEF Removing, Adding, Allocating
    <3>2. arg[t] = <<t, calls[t]>>
      BY <3>1 DEF Contents
    <3>3. Returned \subseteq Returned' /\ arg[t] \in Returned' /\ arg[t] \notin Returned
      BY <2>1, <3>1, <3>2 DEF Returned
    <3>4. \A u \in Removing : arg[u] # arg[t]
      BY <3>3 DEF Contents
    <3> QED BY <1>0, <2>1, <3>1, <3>3, <3>4 DEF Contents
  <2>3. CASE op[t] # "malloc"
    BY <2>1, <2>3, NothingMoved DEF Removing, Adding, Allocating
  <2> QED BY <2>2, <2>3
<1>5. CASE CallCheck(t) \/ CallUsableSize(t) \/ CallDelFrame(t)
  <2>1. /\ live' = live /\ table'[allocList'] = table[allocList] /\ pc[t] = "out"
        /\ Removing' = Removing /\ Adding' = Adding
        /\ \A u \in Threads : Allocating(u)' <=> Allocating(u)
        /\ \A u \in Threads \ {t} : calls'[u] = calls[u] /\ arg'[u] = arg[u]
        /\ calls'[t] \in Nat /\ calls'[t] >= calls[t]
    BY <1>5 DEF CallCheck, CallUsableSize, CallDelFrame, Start, Removing, Adding, Allocating
  <2>2. ~ Allocating(t) /\ t \notin Removing /\ t \notin Adding
    BY <2>1 DEF Allocating, Removing, Adding
  <2> QED BY <2>1, <2>2, NothingMoved
<1>6. CASE \/ GetSemaphore(t) \/ AllowTable(t) \/ GrowTable(t) \/ ExchangeTable(t)
           \/ DropTable(t) \/ DenyTable(t)
  <2>1. live' = live /\ UNCHANGED local
    BY <1>6 DEF GetSemaphore, AllowTable, GrowTable, ExchangeTable, DropTable, DenyTable
  <2>2. table'[allocList'] = table[allocList]
    <3>1. CASE GrowTable(t)
      BY <3>1 DEF GrowTable, Places, Tables
    <3>2. CASE ExchangeTable(t)
      BY <3>2 DEF ExchangeTable, TableAccess
    <3> QED BY <1>6, <3>1, <3>2 DEF GetSemaphore, AllowTable, DropTable, DenyTable
  <2>3. /\ Removing' = Removing /\ Adding' = Adding
        /\ \A u \in Threads : Allocating(u)' <=> Allocating(u)
    BY <1>6 DEF GetSemaphore, AllowTable, GrowTable, ExchangeTable, DropTable,
                DenyTable, Removing, Adding, Allocating, Places, Growing
  <2> QED BY <2>1, <2>2, <2>3, NothingMoved
<1>7. CASE UsableRead(t) \/ UsableOpen(t) \/ UsableSearch(t) \/ UsableClose(t)
  <2>1. /\ live' = live /\ UNCHANGED local /\ table'[allocList'] = table[allocList]
    BY <1>7 DEF UsableRead, UsableOpen, UsableSearch, UsableClose
  <2>2. op[t] = "usable_size"
    BY <1>7 DEF UsableRead, UsableOpen, UsableSearch, UsableClose, Places, Looking
  <2>3. /\ Removing' = Removing /\ Adding' = Adding
        /\ \A u \in Threads : Allocating(u)' <=> Allocating(u)
    BY <1>7, <2>2 DEF UsableRead, UsableOpen, UsableSearch, UsableClose, Removing,
                      Adding, Allocating
  <2> QED BY <2>1, <2>3, NothingMoved
<1> QED BY <1>1, <1>2, <1>3, <1>4, <1>5, <1>6, <1>7 DEF Step

(* No thread touches a table that is closed or gone.                        *)
LEMMA FaultKept ==
  ASSUME IInv, NEW t \in Threads, Step(t)
  PROVE  fault' = FALSE
<1> USE DEF IInv, Places, TableAccess, Opened
<1>1. CASE UseTable(t)     BY <1>1 DEF UseTable, Touched
<1>2. CASE UsableOpen(t)   BY <1>2 DEF UsableOpen
<1>3. CASE UsableSearch(t) BY <1>3 DEF UsableSearch
<1>4. CASE ~ (UseTable(t) \/ UsableOpen(t) \/ UsableSearch(t))
  BY <1>4 DEF Step, CallMalloc, CallFree, CallCheck, CallUsableSize, CallDelFrame,
              Start, GetSemaphore, AllowTable, GrowTable, ExchangeTable, DropTable,
              DenyTable, ReleaseSemaphore, UsableRead, UsableClose, ThreadsTypeOK
<1> QED BY <1>1, <1>2, <1>3, <1>4

-----------------------------------------------------------------------------

LEMMA InitInv == MaxTables \in Nat \ {0} => (Init => IInv)
BY DEF Init, Lock!Init, IInv, ThreadsTypeOK, OneHolder, KeptApart, Places, TableAccess,
       Contents, Reported, Tables, Holding, Looking, Growing, Opened, Returned,
       Allocating, Removing, Adding, Nothing

LEMMA NextInv == MaxTables \in Nat /\ ProgramKeepsApart => (IInv /\ [Next]_vars => IInv')
<1> SUFFICES ASSUME MaxTables \in Nat, ProgramKeepsApart, IInv, [Next]_vars PROVE IInv'
  OBVIOUS
<1>1. CASE UNCHANGED vars
  <2> USE <1>1 DEF vars, IInv
  <2>1. ThreadsTypeOK' /\ OneHolder' /\ KeptApart' /\ Places' /\ TableAccess' /\ Reported'
    BY DEF ThreadsTypeOK, OneHolder, KeptApart, Places, TableAccess, Reported
  <2>2. Returned' = Returned /\ Removing' = Removing /\ Adding' = Adding
    BY DEF Returned, Allocating, Removing, Adding
  <2>3. Contents'
    BY <2>2 DEF Contents, Allocating
  <2> QED BY <2>1, <2>3
<1>2. ASSUME NEW t \in Threads, Step(t)
      PROVE  IInv'
  BY <1>2, TypeKept, HolderKept, ApartKept, PlacesKept, AccessKept, ReportKept,
     ContentsKept, FaultKept DEF IInv
<1> QED BY <1>1, <1>2 DEF Next, Step

(* The inductive invariant holds in every reachable state.                  *)
THEOREM ThreadsInvariant ==
  ASSUME MaxTables \in Nat \ {0}, ProgramKeepsApart
  PROVE  Spec => []IInv
<1>1. Init => IInv
  BY InitInv
<1>2. IInv /\ [Next]_vars => IInv'
  BY NextInv
<1> QED BY <1>1, <1>2, PTL DEF Spec

(* No thread finds the slot table closed or deleted under it by another.    *)
THEOREM Reachable ==
  ASSUME MaxTables \in Nat \ {0}, ProgramKeepsApart
  PROVE  Spec => []TableReachable
<1>1. IInv => TableReachable
  BY DEF IInv, TableReachable
<1> QED BY <1>1, ThreadsInvariant, PTL

(* No block is lost from the table while other threads allocate, release    *)
(* and replace the table, and DUMA_delFrame() reports exactly the blocks    *)
(* that were not released.                                                  *)
THEOREM Kept ==
  ASSUME MaxTables \in Nat \ {0}, ProgramKeepsApart
  PROVE  Spec => []BlocksKept
<1>1. IInv => BlocksKept
  BY DEF IInv, BlocksKept, Contents, Reported
<1> QED BY <1>1, ThreadsInvariant, PTL

(* The semaphore a thread holds keeps the others out of the table.          *)
THEOREM Exclusive ==
  ASSUME MaxTables \in Nat \ {0}, ProgramKeepsApart
  PROVE  Spec => [](\A t, u \in Threads : depth[t] > 0 /\ depth[u] > 0 => t = u)
<1>1. IInv => \A t, u \in Threads : depth[t] > 0 /\ depth[u] > 0 => t = u
  BY DEF IInv, OneHolder
<1> QED BY <1>1, ThreadsInvariant, PTL

=============================================================================
