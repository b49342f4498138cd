----------------------------- MODULE PagerProofs -----------------------------
(***************************************************************************)
(* Proofs about the pager, for any number of processes, pages and frames.  *)
(* Its types, the mutex and the TLB are right with all traps, exits and    *)
(* I/O errors possible; what it does to memory needs more, which the       *)
(* second part says.                                                       *)
(***************************************************************************)
EXTENDS Pager, QueueFacts

Held(p)  == server = [at |-> "held", who |-> p]
Given(p) == server = [at |-> "give", who |-> p]

\* Why there is one pager at a time: a process in its critical section has the
\* mutex and no message under way to it, ...
InCritical(p) ==
  pc[p] \in Critical => Held(p) /\ p \notin granted /\ ~Once(inbox, p)

\* ... one at work has at most the release of its last fault in the mutex
\* process' inbox, which then waits for it, ...
AtWork(p) ==
  pc[p] = "user" =>
    /\ p \notin granted /\ ~Given(p) /\ ~Twice(inbox, p)
    /\ Once(inbox, p) => Held(p)

\* ... and one that waits at most this release and the request behind it.
Waiting(p) ==
  pc[p] = "wait" =>
    /\ p \in granted => Held(p) /\ ~Once(inbox, p)
    /\ Given(p) => p \notin granted /\ ~Once(inbox, p)
    /\ Twice(inbox, p) => Held(p)
    /\ ~Thrice(inbox, p)

MutexInv == \A p \in Asid : InCritical(p) /\ AtWork(p) /\ Waiting(p)
-----------------------------------------------------------------------------
(* Types *)

\* There is a page to start with.
LEMMA AnyPageIsPage == AnyPage \in Page
BY PagerAssumption DEF AnyPage

\* The values that abstract what a process does not use any more have the types
\* of what they replace.
LEMMA TypeInit == Init => TypeOK
<1> SUFFICES ASSUME Init PROVE TypeOK
  OBVIOUS
<1>1. 0 \in Frame /\ -1 \in -1..POOLSIZE - 1
  BY PagerAssumption DEF Frame
<1>2. <<>> \in Seq(Asid)
  OBVIOUS
<1> QED
  BY <1>1, <1>2, AnyPageIsPage, PagerAssumption
     DEF Init, TypeOK, Owner, Entry, Uncached, NOASID, Location, Critical

\* pick_frame(): a free frame or the counter; the counter stays an index.
LEMMA PickedFrame ==
  ASSUME TypeOK
  PROVE  /\ NextCounter \in -1..POOLSIZE - 1
         /\ Candidate # -1 => Candidate \in Frame
<1>1. /\ FreeFrames \in SUBSET Nat /\ FreeFrames \subseteq Frame
      /\ Frame = 0..POOLSIZE - 1 /\ POOLSIZE \in Nat \ {0}
      /\ counter \in -1..POOLSIZE - 1
  BY PagerAssumption DEF FreeFrames, Frame, TypeOK
<1>2. NextCounter \in -1..POOLSIZE - 1
  <2>1. (counter + 1) % POOLSIZE \in 0..POOLSIZE - 1
    BY <1>1
  <2> QED  BY <1>1, <2>1 DEF NextCounter
<1>3. CASE FreeFrames # {}
  BY <1>1, <1>2, <1>3, FirstPosition DEF Candidate
<1>4. CASE FreeFrames = {}
  BY <1>1, <1>2, <1>4 DEF Candidate
<1> QED  BY <1>3, <1>4

\* A table of two indices with one value changed is such a table.
LEMMA TableUpdated ==
  ASSUME NEW A, NEW B, NEW V, NEW T \in [A -> [B -> V]],
         NEW a \in A, NEW b \in B, NEW v \in V
  PROVE  [T EXCEPT ![a][b] = v] \in [A -> [B -> V]]
OBVIOUS

\* updateTLB() leaves entries in the TLB.
LEMMA UpdatedTLB ==
  ASSUME TypeOK, NEW p \in Asid, NEW g \in Page, NEW pte \in Entry
  PROVE  updateTLB(p, g, pte) \in [Asid -> [Page -> Entry \cup {Uncached}]]
BY DEF updateTLB, TypeOK

\* A process that leaves pager() forgets its locals.
LEMMA Forgotten ==
  ASSUME TypeOK, NEW p \in Asid, Forget(p)
  PROVE  /\ page' \in [Asid -> Page] /\ frame' \in [Asid -> Frame]
         /\ target' \in [Asid -> Asid \X Page]
<1>1. 0 \in Frame
  BY PagerAssumption DEF Frame
<1> QED  BY <1>1, AnyPageIsPage DEF Forget, TypeOK

\* Freed frames have no owner, the others the one they had.
LEMMA FreedFrames ==
  ASSUME TypeOK, NEW a, FreeFramesOf(a)
  PROVE  swapPoolTable' \in [Frame -> Owner]
<1>1. \A o \in Owner : [o EXCEPT !.sw_asid = NOASID] \in Owner
  BY DEF Owner
<1>2. \A f \in Frame : [swapPoolTable[f] EXCEPT !.sw_asid = NOASID] \in Owner
  BY <1>1 DEF TypeOK
<1> QED  BY <1>2 DEF FreeFramesOf, TypeOK
\* Every step of the pager, of the mutex process and of a process' end leaves
\* every variable in its type.
LEMMA TypeStep == TypeOK /\ [Next]_vars => TypeOK'
<1> SUFFICES ASSUME TypeOK, [Next]_vars PROVE TypeOK'
  OBVIOUS
<1> USE DEF TypeOK, Goes, table, storage, mutexes, locals
<1>1. ASSUME NEW p \in Asid, NEW g \in Page, NEW d \in Data, Store(p, g, d)
      PROVE  TypeOK'
  <2>1. tlb[p][g] \in Entry
    BY <1>1 DEF Store, Uncached
  <2>2. ram' \in [Frame -> Data]
    BY <1>1, <2>1 DEF Store, Entry
  <2> QED  BY <1>1, <2>2 DEF Store
<1>2. ASSUME NEW p \in Asid, NEW g \in Page, Refill(p, g)
      PROVE  TypeOK'
  <2>1. PICK a \in Asid, h \in Page :
          tlb' = [[tlb EXCEPT ![a][h] = Uncached] EXCEPT ![p][g] = sup_privatePgTbl[p][g]]
    BY <1>2 DEF Refill
  <2>2. [tlb EXCEPT ![a][h] = Uncached] \in [Asid -> [Page -> Entry \cup {Uncached}]]
    OBVIOUS
  <2>3. tlb' \in [Asid -> [Page -> Entry \cup {Uncached}]]
    <3> DEFINE T == [tlb EXCEPT ![a][h] = Uncached]
    <3>1. sup_privatePgTbl[p][g] \in Entry
      OBVIOUS
    <3>2. tlb' = [T EXCEPT ![p][g] = sup_privatePgTbl[p][g]]
      BY <2>1
    <3>3. T \in [Asid -> [Page -> Entry \cup {Uncached}]]
      BY <2>2
    <3> HIDE DEF T
    <3> QED  BY <3>1, <3>2, <3>3
  <2> QED  BY <1>2, <2>3 DEF Refill
<1>3. ASSUME NEW p \in Asid, NEW g \in Page, Fault(p, g)
      PROVE  TypeOK'
  <2>1. inbox' \in Seq(Asid)
    BY <1>3, AppendProperties DEF Fault
  <2> QED  BY <1>3, <2>1 DEF Fault, Location
<1>4. ASSUME NEW p \in Asid, TakeTrap(p) \/ AskExit(p)
      PROVE  TypeOK'
  BY <1>4 DEF TakeTrap, AskExit, Location
<1>5. ASSUME NEW p \in Asid, HaveMutex(p)
      PROVE  TypeOK'
  BY <1>5 DEF HaveMutex, Location, Critical
<1>6. ASSUME NEW p \in Asid, PickFrame(p)
      PROVE  TypeOK'
  <2>1. counter' \in -1..POOLSIZE - 1
    BY <1>6, PickedFrame DEF PickFrame
  <2>2. frame' \in [Asid -> Frame]
    BY <1>6, PickedFrame DEF PickFrame
  <2>3. pc' \in [Asid -> Location] /\ mode' \in {"run", "broken"}
    BY <1>6 DEF PickFrame, Location, Critical
  <2> QED  BY <1>6, <2>1, <2>2, <2>3 DEF PickFrame
<1>7. ASSUME NEW p \in Asid, TakeFree(p)
      PROVE  TypeOK'
  BY <1>7 DEF TakeFree, Location, Critical
<1>8. ASSUME NEW p \in Asid, Invalidate(p)
      PROVE  TypeOK'
  <2> DEFINE a == swapPoolTable[frame[p]].sw_asid
             g == swapPoolTable[frame[p]].sw_pageNo
             pte == [sup_privatePgTbl[a][g] EXCEPT !.valid = FALSE]
  <2>1. a \in Asid /\ g \in Page
    BY <1>8 DEF Invalidate, isFrameFree, Owner
  <2>2. pte \in Entry
    <3>1. \A e \in Entry : [e EXCEPT !.valid = FALSE] \in Entry
      BY DEF Entry
    <3> QED  BY <2>1, <3>1
  <2>3. /\ sup_privatePgTbl' = [sup_privatePgTbl EXCEPT ![a][g] = pte]
        /\ tlb' = updateTLB(a, g, pte)
    BY <1>8 DEF Invalidate
  <2> HIDE DEF a, g, pte
  <2>4. sup_privatePgTbl' \in [Asid -> [Page -> Entry]]
    BY <2>1, <2>2, <2>3
  <2>5. tlb' \in [Asid -> [Page -> Entry \cup {Uncached}]]
    BY <2>1, <2>2, <2>3, UpdatedTLB
  <2> QED  BY <1>8, <2>4, <2>5 DEF Invalidate, Location, Critical
<1>9. ASSUME NEW p \in Asid, WriteBack(p)
      PROVE  TypeOK'
  <2>1. target' \in [Asid -> Asid \X Page]
    <3>1. swapPoolTable[frame[p]] \in Owner
      OBVIOUS
    <3>2. /\ swapPoolTable[frame[p]].sw_asid \in Asid \cup {NOASID}
          /\ swapPoolTable[frame[p]].sw_pageNo \in Page
      BY <3>1 DEF Owner
    <3>3. PICK a \in Asid \cup {NOASID}, g \in Page :
            /\ a = swapPoolTable[frame[p]].sw_asid
            /\ g = swapPoolTable[frame[p]].sw_pageNo
      BY <3>2
    <3>4. target' = target \/ (a # NOASID /\ target' = [target EXCEPT ![p] = <<a, g>>])
      BY <1>9, <3>3 DEF WriteBack
    <3>5. a # NOASID => <<a, g>> \in Asid \X Page
      BY <3>3
    <3> QED  BY <3>4, <3>5
  <2> QED  BY <1>9, <2>1 DEF WriteBack, Location, Critical
<1>10. ASSUME NEW p \in Asid, WriteDone(p)
       PROVE  TypeOK'
  <2>1. flash' \in [Asid -> [Page -> Data]]
    <3>1. target[p][1] \in Asid /\ target[p][2] \in Page /\ ram[frame[p]] \in Data
      <4>1. target[p] \in Asid \X Page
        OBVIOUS
      <4>2. \A o \in Asid \X Page : o[1] \in Asid /\ o[2] \in Page
        OBVIOUS
      <4> QED  BY <4>1, <4>2
    <3>2. PICK a \in Asid, g \in Page, d \in Data :
            a = target[p][1] /\ g = target[p][2] /\ d = ram[frame[p]]
      BY <3>1
    <3>3. flash' = [flash EXCEPT ![a][g] = d] \/ flash' = flash
      BY <1>10, <3>2 DEF WriteDone, Written
    <3>4. flash \in [Asid -> [Page -> Data]]
      OBVIOUS
    <3>5. [flash EXCEPT ![a][g] = d] \in [Asid -> [Page -> Data]]
      BY <3>4, TableUpdated, Zenon
    <3> QED  BY <3>3, <3>4, <3>5
  <2> QED  BY <1>10, <2>1 DEF WriteDone, Location, Critical
<1>11. ASSUME NEW p \in Asid, ReadDone(p)
       PROVE  TypeOK'
  <2>1. ram' \in [Frame -> Data]
    <3>1. flash[p][page[p]] \in Data
      OBVIOUS
    <3> QED  BY <1>11, <3>1 DEF ReadDone
  <2> QED  BY <1>11, <2>1 DEF ReadDone, Location, Critical
<1>12. ASSUME NEW p \in Asid, UpdateTable(p)
       PROVE  TypeOK'
  BY <1>12 DEF UpdateTable, Location, Critical, Owner
<1>13. ASSUME NEW p \in Asid, Validate(p)
       PROVE  TypeOK'
  <2> DEFINE pte == [valid |-> TRUE, frame |-> frame[p]]
  <2>1. pte \in Entry
    BY DEF Entry
  <2>2. /\ sup_privatePgTbl' = [sup_privatePgTbl EXCEPT ![p][page[p]] = pte]
        /\ tlb' = updateTLB(p, page[p], pte)
    BY <1>13 DEF Validate
  <2> HIDE DEF pte
  <2>3. sup_privatePgTbl' \in [Asid -> [Page -> Entry]]
    BY <2>1, <2>2
  <2>4. tlb' \in [Asid -> [Page -> Entry \cup {Uncached}]]
    BY <2>1, <2>2, UpdatedTLB
  <2> QED  BY <1>13, <2>3, <2>4 DEF Validate, Location, Critical
<1>14. ASSUME NEW p \in Asid, Release(p)
       PROVE  TypeOK'
  <2>1. inbox' \in Seq(Asid)
    BY <1>14, AppendProperties DEF Release, Unlock
  <2>2. /\ page' \in [Asid -> Page] /\ frame' \in [Asid -> Frame]
        /\ target' \in [Asid -> Asid \X Page]
    BY <1>14, Forgotten DEF Release
  <2> QED  BY <1>14, <2>1, <2>2 DEF Release, Location
<1>15. ASSUME NEW p \in Asid, TrapFrees(p) \/ SSTTerminates(p)
       PROVE  TypeOK'
  <2>1. swapPoolTable' \in [Frame -> Owner]
    BY <1>15, FreedFrames DEF TrapFrees, SSTTerminates
  <2> QED  BY <1>15, <2>1 DEF TrapFrees, SSTTerminates, Location
<1>16. ASSUME NEW p \in Asid, TrapUnlocks(p)
       PROVE  TypeOK'
  <2>1. inbox' \in Seq(Asid)
    <3>1. Append(inbox, p) \in Seq(Asid)
      BY AppendProperties
    <3>2. inbox' = Append(inbox, p) \/ inbox' = inbox
      BY <1>16 DEF TrapUnlocks, Unlock
    <3> QED  BY <3>1, <3>2
  <2> QED  BY <1>16, <2>1 DEF TrapUnlocks, Location
<1>17. ASSUME NEW p \in Asid, Killed(p)
       PROVE  TypeOK'
  <2>1. /\ page' \in [Asid -> Page] /\ frame' \in [Asid -> Frame]
        /\ target' \in [Asid -> Asid \X Page]
    BY <1>17, Forgotten DEF Killed
  <2> QED  BY <1>17, <2>1 DEF Killed, Location
<1>18. ASSUME Listen
       PROVE  TypeOK'
  <2>1. Head(inbox) \in Asid /\ Tail(inbox) \in Seq(Asid)
    BY <1>18, HeadTailProperties DEF Listen
  <2> QED  BY <1>18, <2>1 DEF Listen
<1>19. ASSUME Give
       PROVE  TypeOK'
  <2>1. server.who \in Asid
    BY <1>19 DEF Give
  <2> QED  BY <1>19, <2>1 DEF Give
<1>20. ASSUME TakeBack
       PROVE  TypeOK'
  <2>1. inbox' \in Seq(Asid)
    BY <1>20, RemoveAtIsSeq DEF TakeBack
  <2> QED  BY <1>20, <2>1 DEF TakeBack
<1>21. CASE UNCHANGED vars
  BY <1>21 DEF vars
<1> QED
  BY <1>1, <1>2, <1>3, <1>4, <1>5, <1>6, <1>7, <1>8, <1>9, <1>10, <1>11, <1>12,
     <1>13, <1>14, <1>15, <1>16, <1>17, <1>18, <1>19, <1>20, <1>21
     DEF Next, UserStep, InPager, Ends, Mutex, Stopped

\* The pager's variables keep their types in every behaviour; in particular no
\* evictor uses an index that is no frame.
THEOREM PagerTypeCorrect == Spec => []TypeOK
<1>1. Init => TypeOK
  BY TypeInit
<1>2. TypeOK /\ [Next]_vars => TypeOK'
  BY TypeStep
<1> QED  BY <1>1, <1>2, PTL DEF Spec
-----------------------------------------------------------------------------
(* Mutual exclusion *)

\* At first no message is under way.
LEMMA MutexInit == Init => MutexInv
BY DEF Init, MutexInv, InCritical, AtWork, Waiting, Critical, Held, Given, Once,
       Twice, Thrice, NOASID

\* What the invariant says of a process that an action does not touch stays, if
\* the action leaves it no more messages and gives it no mutex.
LEMMA Untouched ==
  ASSUME MutexInv, NEW q \in Asid, pc'[q] = pc[q],
         q \in granted' <=> q \in granted,
         Held(q)' <=> Held(q), Given(q)' => Given(q),
         Once(inbox, q)' => Once(inbox, q), Twice(inbox, q)' => Twice(inbox, q),
         Thrice(inbox, q)' => Thrice(inbox, q)
  PROVE  InCritical(q)' /\ AtWork(q)' /\ Waiting(q)'
BY DEF MutexInv, InCritical, AtWork, Waiting

\* A process that leaves the pager and the program for good says nothing any more.
Leaving == {"trap", "unlock", "exit", "kill", "dead"}

\* A step of p that sends nothing and leaves the mutex process alone moves p
\* within its critical section, or away.
LEMMA MovesOn ==
  ASSUME TypeOK, MutexInv, NEW p \in Asid, UNCHANGED <<inbox, server, granted>>,
         \A q \in Asid \ {p} : pc'[q] = pc[q],
         \/ pc'[p] = pc[p] \/ pc'[p] \in Leaving
         \/ pc[p] \in Critical /\ pc'[p] \in Critical
  PROVE  MutexInv'
<1>1. ASSUME NEW q \in Asid, q # p
      PROVE  InCritical(q)' /\ AtWork(q)' /\ Waiting(q)'
  BY <1>1, Untouched DEF Held, Given
<1>2. InCritical(p)' /\ AtWork(p)' /\ Waiting(p)'
  BY DEF MutexInv, InCritical, AtWork, Waiting, Held, Given, Leaving, Critical
<1> QED  BY <1>1, <1>2 DEF MutexInv

\* A message of p changes nothing for the others.
LEMMA OthersAppend ==
  ASSUME TypeOK, MutexInv, NEW p \in Asid, NEW q \in Asid, q # p,
         inbox' = Append(inbox, p), UNCHANGED <<server, granted>>, pc'[q] = pc[q]
  PROVE  InCritical(q)' /\ AtWork(q)' /\ Waiting(q)'
<1>1. /\ Once(inbox', q) => Once(inbox, q)
      /\ Twice(inbox', q) => Twice(inbox, q)
      /\ Thrice(inbox', q) => Thrice(inbox, q)
  BY AppendCounts DEF TypeOK
<1> QED  BY <1>1, Untouched DEF Held, Given

\* Who sends twice has sent once.
LEMMA TwiceIsOnce ==
  ASSUME NEW s, NEW v PROVE Twice(s, v) => Once(s, v)
BY DEF Once, Twice

\* Every step keeps the mutex where the invariant has it.
LEMMA MutexStep == TypeOK /\ MutexInv /\ [Next]_vars => MutexInv'
<1> SUFFICES ASSUME TypeOK, MutexInv, [Next]_vars PROVE MutexInv'
  OBVIOUS
<1> USE DEF Goes, table, storage, mutexes, locals
<1>1. ASSUME NEW p \in Asid, NEW g \in Page,
             Refill(p, g) \/ \E d \in Data : Store(p, g, d)
      PROVE  MutexInv'
  BY <1>1, MovesOn DEF Refill, Store
<1>2. ASSUME NEW p \in Asid,
             \/ TakeTrap(p) \/ AskExit(p) \/ PickFrame(p) \/ TakeFree(p)
             \/ Invalidate(p) \/ WriteBack(p) \/ WriteDone(p) \/ ReadDone(p)
             \/ UpdateTable(p) \/ Validate(p) \/ TrapFrees(p) \/ SSTTerminates(p)
      PROVE  MutexInv'
  <2>1. UNCHANGED <<inbox, server, granted>>
    BY <1>2 DEF TakeTrap, AskExit, PickFrame, TakeFree, Invalidate, WriteBack,
                WriteDone, ReadDone, UpdateTable, Validate, TrapFrees, SSTTerminates
  <2>2. \A q \in Asid \ {p} : pc'[q] = pc[q]
    BY <1>2 DEF TypeOK, TakeTrap, AskExit, PickFrame, TakeFree, Invalidate, WriteBack,
                WriteDone, ReadDone, UpdateTable, Validate, TrapFrees, SSTTerminates
  <2>3. \/ pc'[p] = pc[p] \/ pc'[p] \in Leaving
        \/ pc[p] \in Critical /\ pc'[p] \in Critical
    BY <1>2 DEF TypeOK, TakeTrap, AskExit, PickFrame, TakeFree, Invalidate, WriteBack,
                WriteDone, ReadDone, UpdateTable, Validate, TrapFrees, SSTTerminates,
                Leaving, Critical
  <2> QED  BY <2>1, <2>2, <2>3, MovesOn
<1>3. ASSUME NEW p \in Asid, NEW g \in Page, Fault(p, g)
      PROVE  MutexInv'
  <2>1. /\ pc[p] = "user" /\ pc'[p] = "wait"
        /\ inbox' = Append(inbox, p) /\ UNCHANGED <<server, granted>>
        /\ \A q \in Asid \ {p} : pc'[q] = pc[q]
    BY <1>3 DEF Fault, TypeOK
  <2>2. /\ Twice(inbox', p) => Twice(inbox, p) \/ Once(inbox, p)
        /\ Thrice(inbox', p) => Thrice(inbox, p) \/ Twice(inbox, p)
    BY <2>1, AppendCounts DEF TypeOK
  <2>3. ~Thrice(inbox, p)
    BY <2>1 DEF MutexInv, AtWork, Twice, Thrice
  <2>4. InCritical(p)' /\ AtWork(p)' /\ Waiting(p)'
    BY <2>1, <2>2, <2>3, TwiceIsOnce
       DEF MutexInv, AtWork, InCritical, Waiting, Held, Given, Critical
  <2> QED  BY <2>1, <2>4, OthersAppend DEF MutexInv
<1>4. ASSUME NEW p \in Asid, HaveMutex(p)
      PROVE  MutexInv'
  <2>1. /\ pc[p] = "wait" /\ pc'[p] = "pick" /\ p \in granted
        /\ granted' = granted \ {p} /\ UNCHANGED <<inbox, server>>
        /\ \A q \in Asid \ {p} : pc'[q] = pc[q]
    BY <1>4 DEF HaveMutex, TypeOK
  <2>2. InCritical(p)' /\ AtWork(p)' /\ Waiting(p)'
    BY <2>1 DEF MutexInv, AtWork, InCritical, Waiting, Held, Critical
  <2>3. ASSUME NEW q \in Asid, q # p
        PROVE  InCritical(q)' /\ AtWork(q)' /\ Waiting(q)'
    BY <2>1, <2>3, Untouched DEF Held, Given
  <2> QED  BY <2>2, <2>3 DEF MutexInv
<1>5. ASSUME NEW p \in Asid, Release(p)
      PROVE  MutexInv'
  <2>1. /\ pc[p] = "release" /\ pc'[p] = "user"
        /\ inbox' = Append(inbox, p) /\ UNCHANGED <<server, granted>>
        /\ \A q \in Asid \ {p} : pc'[q] = pc[q]
    BY <1>5 DEF Release, Unlock, TypeOK
  <2>2. Twice(inbox', p) => Twice(inbox, p) \/ Once(inbox, p)
    BY <2>1, AppendCounts DEF TypeOK
  <2>3. Held(p) /\ p \notin granted /\ ~Once(inbox, p)
    BY <2>1 DEF MutexInv, InCritical, Critical
  <2>4. InCritical(p)' /\ AtWork(p)' /\ Waiting(p)'
    BY <2>1, <2>2, <2>3, TwiceIsOnce
       DEF AtWork, InCritical, Waiting, Held, Given, Critical
  <2> QED  BY <2>1, <2>4, OthersAppend DEF MutexInv
<1>6. ASSUME NEW p \in Asid, TrapUnlocks(p)
      PROVE  MutexInv'
  <2>1. /\ pc'[p] = "kill" /\ UNCHANGED <<server, granted>>
        /\ inbox' = Append(inbox, p) \/ inbox' = inbox
        /\ \A q \in Asid \ {p} : pc'[q] = pc[q]
    BY <1>6 DEF TrapUnlocks, Unlock, TypeOK
  <2>2. InCritical(p)' /\ AtWork(p)' /\ Waiting(p)'
    BY <2>1 DEF AtWork, InCritical, Waiting, Critical
  <2>3. CASE inbox' = inbox
    BY <2>1, <2>3, MovesOn DEF Leaving
  <2>4. CASE inbox' = Append(inbox, p)
    BY <2>1, <2>2, <2>4, OthersAppend DEF MutexInv
  <2> QED  BY <2>1, <2>3, <2>4
<1>7. ASSUME NEW p \in Asid, Killed(p)
      PROVE  MutexInv'
  <2>1. /\ pc'[p] = "dead" /\ granted' = granted \ {p} /\ UNCHANGED <<server, inbox>>
        /\ \A q \in Asid \ {p} : pc'[q] = pc[q]
    BY <1>7 DEF Killed, TypeOK
  <2>2. InCritical(p)' /\ AtWork(p)' /\ Waiting(p)'
    BY <2>1 DEF AtWork, InCritical, Waiting, Critical
  <2>3. ASSUME NEW q \in Asid, q # p
        PROVE  InCritical(q)' /\ AtWork(q)' /\ Waiting(q)'
    BY <2>1, <2>3, Untouched DEF Held, Given
  <2> QED  BY <2>2, <2>3 DEF MutexInv
<1>8. ASSUME Listen
      PROVE  MutexInv'
  <2>0. PICK w \in Asid : w = Head(inbox)
    BY <1>8, HeadTailProperties DEF Listen, TypeOK
  <2>1. /\ 1 \in DOMAIN inbox /\ inbox[1] = w
        /\ inbox' = RemoveAt(inbox, 1)
        /\ server.at = "listen" /\ server' = [at |-> "give", who |-> w]
        /\ UNCHANGED <<pc, granted>>
    BY <1>8, <2>0, TailIsRemoval DEF Listen, TypeOK
  <2>2. \A q \in Asid : ~Held(q) /\ ~Held(q)' /\ ~Given(q) /\ (Given(q)' => q = w)
    BY <2>1 DEF Held, Given
  <2>3. \A q \in Asid : /\ Once(inbox', q) => Once(inbox, q)
                        /\ Twice(inbox', q) => Twice(inbox, q)
                        /\ Thrice(inbox', q) => Thrice(inbox, q)
    BY <2>1, RemoveCounts DEF TypeOK
  <2>4. Once(inbox', w) => Twice(inbox, w)
    BY <2>1, RemoveCounts DEF TypeOK
  <2>5. Once(inbox, w)
    BY <2>1 DEF Once
  <2>6. ASSUME NEW q \in Asid, q # w
        PROVE  InCritical(q)' /\ AtWork(q)' /\ Waiting(q)'
    BY <2>1, <2>2, <2>3, <2>6, Untouched
  <2>7. InCritical(w)' /\ AtWork(w)' /\ Waiting(w)'
    BY <2>1, <2>2, <2>3, <2>4, <2>5, TwiceIsOnce
       DEF MutexInv, AtWork, InCritical, Waiting
  <2> QED  BY <2>6, <2>7 DEF MutexInv
<1>9. ASSUME Give
      PROVE  MutexInv'
  <2>0. PICK w \in Asid : w = server.who
    BY <1>9 DEF Give, TypeOK
  <2>1. /\ Given(w) /\ Held(w)' /\ UNCHANGED <<inbox, pc>>
        /\ granted' = granted \cup {p \in {w} : pc[p] # "dead"}
    BY <1>9, <2>0 DEF Give, TypeOK, Given, Held
  <2>2. \A q \in Asid : ~Held(q) /\ ~Given(q)' /\ (Held(q)' => q = w)
    BY <1>9, <2>1 DEF Give, Held, Given
  <2>3. ASSUME NEW q \in Asid, q # w
        PROVE  InCritical(q)' /\ AtWork(q)' /\ Waiting(q)'
    BY <2>1, <2>2, <2>3, Untouched
  <2>4. InCritical(w)' /\ AtWork(w)' /\ Waiting(w)'
    BY <2>1, <2>2 DEF MutexInv, AtWork, InCritical, Waiting
  <2> QED  BY <2>3, <2>4 DEF MutexInv
<1>10. ASSUME TakeBack
       PROVE  MutexInv'
  <2>0. PICK w \in Asid : w = server.who
    BY <1>10 DEF TakeBack, TypeOK
  <2>1. /\ Held(w) /\ server' = [at |-> "listen", who |-> NOASID]
        /\ UNCHANGED <<pc, granted>>
    BY <1>10, <2>0 DEF TakeBack, TypeOK, Held
  <2>2. PICK i \in DOMAIN inbox : inbox[i] = w /\ inbox' = RemoveAt(inbox, i)
    BY <1>10, <2>0 DEF TakeBack
  <2>3. \A q \in Asid : ~Held(q)' /\ ~Given(q)' /\ (Held(q) => q = w)
    BY <2>1 DEF Held, Given
  <2>4. \A q \in Asid : /\ Once(inbox', q) => Once(inbox, q)
                        /\ Twice(inbox', q) => Twice(inbox, q)
                        /\ Thrice(inbox', q) => Thrice(inbox, q)
    BY <2>2, RemoveCounts DEF TypeOK
  <2>5. /\ Once(inbox', w) => Twice(inbox, w)
        /\ Twice(inbox', w) => Thrice(inbox, w)
        /\ Once(inbox, w)
    BY <2>2, RemoveCounts DEF TypeOK, Once
  <2>6. ASSUME NEW q \in Asid, q # w
        PROVE  InCritical(q)' /\ AtWork(q)' /\ Waiting(q)'
    BY <2>1, <2>3, <2>4, <2>6, Untouched
  <2>7. InCritical(w)' /\ AtWork(w)' /\ Waiting(w)'
    BY <2>1, <2>3, <2>4, <2>5 DEF MutexInv, AtWork, InCritical, Waiting
  <2> QED  BY <2>6, <2>7 DEF MutexInv
<1>11. CASE UNCHANGED vars
  <2>1. ASSUME NEW q \in Asid
        PROVE  InCritical(q)' /\ AtWork(q)' /\ Waiting(q)'
    BY <1>11, Untouched DEF vars, Held, Given
  <2> QED  BY <2>1 DEF MutexInv
<1> QED
  BY <1>1, <1>2, <1>3, <1>4, <1>5, <1>6, <1>7, <1>8, <1>9, <1>10, <1>11
     DEF Next, UserStep, InPager, Ends, Mutex, Stopped

\* The swap pool and its tables are used by one pager at a time, however faults,
\* traps, exits and I/O errors of the processes interleave, and although a late
\* trap of the last holder releases a mutex it does not hold any more.
THEOREM OnePagerAtATime == Spec => []MutualExclusion
<1>1. Init => TypeOK /\ MutexInv
  BY TypeInit, MutexInit
<1>2. TypeOK /\ MutexInv /\ [Next]_vars => (TypeOK /\ MutexInv)'
  BY TypeStep, MutexStep
<1>3. MutexInv => MutualExclusion
  BY DEF MutexInv, InCritical, MutualExclusion, Held
<1> QED  BY <1>1, <1>2, <1>3, PTL DEF Spec
-----------------------------------------------------------------------------
(* The TLB *)

\* An entry of the page table that changes together with its copy in the TLB, if
\* there is one, leaves the TLB coherent.
LEMMA ChangedTogether ==
  ASSUME TypeOK, TLBCoherent, NEW a \in Asid, NEW h \in Page, NEW pte \in Entry,
         sup_privatePgTbl' = [sup_privatePgTbl EXCEPT ![a][h] = pte],
         tlb' = updateTLB(a, h, pte)
  PROVE  TLBCoherent'
<1> SUFFICES ASSUME NEW p \in Asid, NEW g \in Page, tlb'[p][g] # Uncached
             PROVE  tlb'[p][g] = sup_privatePgTbl'[p][g]
  BY DEF TLBCoherent
<1>1. CASE p = a /\ g = h
  BY <1>1 DEF TypeOK, updateTLB
<1>2. CASE ~(p = a /\ g = h)
  <2>1. /\ tlb'[p][g] = tlb[p][g]
        /\ sup_privatePgTbl'[p][g] = sup_privatePgTbl[p][g]
    BY <1>2 DEF TypeOK, updateTLB
  <2> QED  BY <2>1 DEF TLBCoherent
<1> QED  BY <1>1, <1>2

\* Every step that changes a page table or the TLB keeps them in agreement.
LEMMA TLBStep == TypeOK /\ TLBCoherent /\ [Next]_vars => TLBCoherent'
<1> SUFFICES ASSUME TypeOK, TLBCoherent, [Next]_vars PROVE TLBCoherent'
  OBVIOUS
<1> USE DEF Goes, table, storage, mutexes, locals
<1>1. ASSUME NEW p \in Asid, NEW g \in Page, Refill(p, g)
      PROVE  TLBCoherent'
  <2>1. PICK a \in Asid, h \in Page :
          tlb' = [[tlb EXCEPT ![a][h] = Uncached] EXCEPT ![p][g] = sup_privatePgTbl[p][g]]
    BY <1>1 DEF Refill
  <2>2. \A q \in Asid, k \in Page :
          \/ tlb'[q][k] = Uncached \/ tlb'[q][k] = tlb[q][k]
          \/ q = p /\ k = g /\ tlb'[q][k] = sup_privatePgTbl[p][g]
    BY <2>1 DEF TypeOK
  <2>3. sup_privatePgTbl' = sup_privatePgTbl
    BY <1>1 DEF Refill
  <2> QED  BY <2>2, <2>3 DEF TLBCoherent
<1>2. ASSUME NEW p \in Asid, Invalidate(p)
      PROVE  TLBCoherent'
  <2>1. PICK a \in Asid, h \in Page :
          a = swapPoolTable[frame[p]].sw_asid /\ h = swapPoolTable[frame[p]].sw_pageNo
    <3>1. swapPoolTable[frame[p]] \in Owner
      BY DEF TypeOK
    <3> QED  BY <1>2, <3>1 DEF Invalidate, isFrameFree, Owner
  <2>2. PICK pte \in Entry : pte = [sup_privatePgTbl[a][h] EXCEPT !.valid = FALSE]
    <3>1. \A e \in Entry : [e EXCEPT !.valid = FALSE] \in Entry
      BY DEF Entry
    <3>2. sup_privatePgTbl[a][h] \in Entry
      BY DEF TypeOK
    <3> QED  BY <3>1, <3>2
  <2>3. /\ sup_privatePgTbl' = [sup_privatePgTbl EXCEPT ![a][h] = pte]
        /\ tlb' = updateTLB(a, h, pte)
    BY <1>2, <2>1, <2>2 DEF Invalidate
  <2> QED  BY <2>3, ChangedTogether
<1>3. ASSUME NEW p \in Asid, Validate(p)
      PROVE  TLBCoherent'
  <2>1. PICK pte \in Entry : pte = [valid |-> TRUE, frame |-> frame[p]]
    BY DEF Entry, TypeOK
  <2>2. PICK h \in Page : h = page[p]
    BY DEF TypeOK
  <2>3. /\ sup_privatePgTbl' = [sup_privatePgTbl EXCEPT ![p][h] = pte]
        /\ tlb' = updateTLB(p, h, pte)
    BY <1>3, <2>1, <2>2 DEF Validate
  <2> QED  BY <2>3, ChangedTogether
<1>4. CASE UNCHANGED <<sup_privatePgTbl, tlb>>
  BY <1>4 DEF TLBCoherent
<1> QED
  BY <1>1, <1>2, <1>3, <1>4
     DEF Next, UserStep, InPager, Ends, Mutex, Stopped, vars, Store, Fault, TakeTrap,
         AskExit, HaveMutex, PickFrame, TakeFree, WriteBack, WriteDone, ReadDone,
         UpdateTable, Release, TrapFrees, TrapUnlocks, Killed, SSTTerminates, Listen,
         Give, TakeBack

\* The TLB never holds an entry that differs from the page table: neither an
\* eviction nor the refill of an entry that pager() is about to change leaves a
\* stale translation.
THEOREM TLBNeverLags == Spec => []TLBCoherent
<1>1. Init => TypeOK /\ TLBCoherent
  BY TypeInit DEF Init, TLBCoherent
<1>2. TypeOK /\ TLBCoherent /\ [Next]_vars => (TypeOK /\ TLBCoherent)'
  BY TypeStep, TLBStep
<1> QED  BY <1>1, <1>2, PTL DEF Spec

-----------------------------------------------------------------------------
(* What the pager does to memory: no frame has two users, and the pager    *)
(* implements VirtualMemory.  The first holds of any traps and I/O errors, *)
(* the second of any traps and exits but no I/O errors; both need that     *)
(* processes exit in the order of their asids.  Without these TLC has      *)
(* counterexamples (README).                                               *)

\* terminate() frees the frames of the asid below: that process has ended.
ExitsInOrder == Orderly \/ "EXIT" \notin Behaviour

\* Every flash operation succeeds.
FlashWorks == Behaviour \cap {"READERROR", "WRITEERROR"} = {}

Pte(p, g) == sup_privatePgTbl[p][g]

\* A live process reaches the frame through its page table.
Mapped(f) == \E p \in Asid, g \in Page :
               ~Ended(p) /\ Pte(p, g).valid /\ Pte(p, g).frame = f

\* From the invalidation of a frame's page to the validation of the next.
Refilling == {"write", "writing", "lost", "reading", "update", "validate"}

\* Why frames have one user: while a pager refills a frame nobody reaches it, and
\* before the pager's own page becomes valid the swap pool table says so.
FramesInv ==
  /\ FramesOwned
  /\ \A p \in Asid :
       /\ pc[p] \in Refilling => ~Mapped(frame[p])
       /\ pc[p] = "validate" =>
            swapPoolTable[frame[p]] = [sw_asid |-> p, sw_pageNo |-> page[p]]
       /\ pc[p] = "exit" => \A q \in 1..(p - 1) : Ended(q)

\* Between the page fault and the validation.
Faulting == Refilling \cup {"wait", "pick", "check"}

\* Why memory is kept: the swap pool table is never wrong of a live process but
\* for the frame that is refilled, the page that faults is not valid, nor is the one
\* being written back, and what has been read stays what it was read from.
MemoryInv ==
  /\ \A f \in Frame : \A a \in Asid, g \in Page :
       swapPoolTable[f] = [sw_asid |-> a, sw_pageNo |-> g] /\ ~Ended(a) =>
         \/ Pte(a, g) = [valid |-> TRUE, frame |-> f]
         \/ \E q \in Asid : pc[q] \in Refilling /\ frame[q] = f
  /\ \A p \in Asid :
       /\ pc[p] \in Faulting => ~Pte(p, page[p]).valid
       /\ pc[p] \in {"update", "validate"} => ram[frame[p]] = flash[p][page[p]]
       /\ \A g \in Page : Evictors(p, g) # {} => ~Pte(p, g).valid
-----------------------------------------------------------------------------
(* Frames *)

\* At first no page is in a frame.
LEMMA FramesInit == Init => FramesInv
BY DEF Init, FramesInv, FramesOwned, Refilling

\* A step of p that makes no page valid and does not change the swap pool table.
LEMMA FramesStay ==
  ASSUME TypeOK, FramesInv, UNCHANGED swapPoolTable,
         \A a \in Asid, g \in Page : Pte(a, g)'.valid => Pte(a, g)' = Pte(a, g),
         NEW p \in Asid, Ended(p) => Ended(p)',
         \A q \in Asid \ {p} : /\ pc'[q] = pc[q] /\ frame'[q] = frame[q]
                               /\ page'[q] = page[q],
         pc'[p] \in Refilling =>
           frame'[p] = frame[p] /\ ~Mapped(frame[p])' /\ pc'[p] # "validate",
         pc'[p] = "exit" => \A q \in 1..(p - 1) : Ended(q)
  PROVE  FramesInv'
<1>1. \A q \in Asid : Ended(q) => Ended(q)'
  BY DEF Ended
<1>2. \A a \in Asid, g \in Page :
        ~Ended(a)' /\ Pte(a, g)'.valid => ~Ended(a) /\ Pte(a, g)' = Pte(a, g)
  BY <1>1
<1>3. FramesOwned'
  BY <1>2 DEF FramesInv, FramesOwned, Pte
<1>4. ASSUME NEW q \in Asid, pc'[q] \in Refilling
      PROVE  ~Mapped(frame[q])'
  <2>1. CASE q = p
    BY <1>4, <2>1
  <2>2. CASE q # p
    <3>1. frame'[q] = frame[q] /\ ~Mapped(frame[q])
      BY <1>4, <2>2 DEF FramesInv
    <3> QED  BY <1>2, <3>1 DEF Mapped
  <2> QED  BY <2>1, <2>2
<1>5. ASSUME NEW q \in Asid, pc'[q] = "validate"
      PROVE  swapPoolTable'[frame'[q]] = [sw_asid |-> q, sw_pageNo |-> page'[q]]
  BY <1>5 DEF FramesInv, Refilling
<1>6. ASSUME NEW q \in Asid, pc'[q] = "exit"
      PROVE  \A o \in 1..(q - 1) : Ended(o)'
  <2>1. \A o \in 1..(q - 1) : Ended(o)
    BY <1>6 DEF FramesInv
  <2>2. \A o \in 1..(q - 1) : o \in Asid
    BY PagerAssumption DEF Asid
  <2> QED  BY <1>1, <2>1, <2>2
<1> QED  BY <1>3, <1>4, <1>5, <1>6 DEF FramesInv

\* A frame found free is nobody's.
LEMMA TakeFreeFrames ==
  ASSUME TypeOK, FramesInv, NEW p \in Asid, TakeFree(p)
  PROVE  FramesInv'
<1>1. /\ UNCHANGED <<swapPoolTable, sup_privatePgTbl, frame, page>>
      /\ pc' = [pc EXCEPT ![p] = "reading"] /\ pc[p] = "check"
      /\ swapPoolTable[frame[p]].sw_asid \notin Asid
  BY PagerAssumption DEF TakeFree, Goes, table, locals, isFrameFree, NOASID, Asid
<1>2. /\ \A q \in Asid \ {p} : pc'[q] = pc[q]
      /\ pc'[p] = "reading"
  BY <1>1 DEF TypeOK
<1>3. ~Mapped(frame[p])
  <2> SUFFICES ASSUME NEW a \in Asid, NEW g \in Page, ~Ended(a), Pte(a, g).valid,
                      Pte(a, g).frame = frame[p]
               PROVE  FALSE
    BY DEF Mapped
  <2>1. swapPoolTable[frame[p]] = [sw_asid |-> a, sw_pageNo |-> g]
    BY DEF FramesInv, FramesOwned, Pte
  <2> QED  BY <1>1, <2>1
<1>4. ~Mapped(frame[p])'
  BY <1>1, <1>2, <1>3 DEF Mapped, Pte, Ended
<1> QED  BY <1>1, <1>2, <1>4, FramesStay DEF Pte, Ended

\* The only page in a frame is the one the swap pool table names.
LEMMA InvalidateFrames ==
  ASSUME TypeOK, FramesInv, NEW p \in Asid, Invalidate(p)
  PROVE  FramesInv'
<1> DEFINE a == swapPoolTable[frame[p]].sw_asid
           h == swapPoolTable[frame[p]].sw_pageNo
           pte == [sup_privatePgTbl[a][h] EXCEPT !.valid = FALSE]
<1>1. /\ UNCHANGED <<swapPoolTable, frame, page>>
      /\ pc' = [pc EXCEPT ![p] = "write"] /\ pc[p] = "check"
      /\ sup_privatePgTbl' = [sup_privatePgTbl EXCEPT ![a][h] = pte]
  BY DEF Invalidate, Goes, locals
<1>2. a \in Asid /\ h \in Page
  BY DEF Invalidate, isFrameFree, TypeOK, Owner
<1>3. ~pte.valid
  BY <1>2 DEF TypeOK, Entry
<1>4. /\ \A q \in Asid \ {p} : pc'[q] = pc[q]
      /\ pc'[p] = "write"
  BY <1>1 DEF TypeOK
<1> HIDE DEF pte
<1>5. \A b \in Asid, k \in Page :
        Pte(b, k)'.valid => Pte(b, k)' = Pte(b, k) /\ ~(b = a /\ k = h)
  BY <1>1, <1>2, <1>3 DEF TypeOK, Pte
<1>6. ASSUME NEW b \in Asid, NEW k \in Page, ~Ended(b)', Pte(b, k)'.valid,
             Pte(b, k)'.frame = frame[p]
      PROVE  FALSE
  <2>1. ~Ended(b) /\ Pte(b, k).valid /\ Pte(b, k).frame = frame[p] /\ ~(b = a /\ k = h)
    BY <1>4, <1>5, <1>6, <1>1 DEF Ended
  <2>2. swapPoolTable[frame[p]] = [sw_asid |-> b, sw_pageNo |-> k]
    BY <2>1 DEF FramesInv, FramesOwned, Pte
  <2> QED  BY <2>1, <2>2
<1>7. ~Mapped(frame[p])'
  BY <1>1, <1>6 DEF Mapped
<1> QED  BY <1>1, <1>4, <1>5, <1>7, FramesStay DEF Ended

\* A refilled frame changes its owner while nobody reaches it.
LEMMA UpdateTableFrames ==
  ASSUME TypeOK, FramesInv, MutualExclusion, NEW p \in Asid, UpdateTable(p)
  PROVE  FramesInv'
<1> DEFINE own == [sw_asid |-> p, sw_pageNo |-> page[p]]
<1>1. /\ UNCHANGED <<sup_privatePgTbl, frame, page>>
      /\ pc[p] = "update" /\ pc' = [pc EXCEPT ![p] = "validate"]
      /\ swapPoolTable' = [swapPoolTable EXCEPT ![frame[p]] = own]
  BY DEF UpdateTable, Goes, locals
<1>2. /\ \A q \in Asid \ {p} : pc'[q] = pc[q] /\ pc[q] \notin Critical
      /\ pc'[p] = "validate"
  BY <1>1 DEF TypeOK, MutualExclusion, Critical
<1>3. \A q \in Asid : Ended(q)' <=> Ended(q)
  BY <1>1, <1>2 DEF Ended
<1>4. ~Mapped(frame[p])
  BY <1>1 DEF FramesInv, Refilling
<1>5. FramesOwned'
  <2> SUFFICES ASSUME NEW a \in Asid, NEW g \in Page, ~Ended(a)',
                      sup_privatePgTbl'[a][g].valid
               PROVE  swapPoolTable'[sup_privatePgTbl'[a][g].frame]
                        = [sw_asid |-> a, sw_pageNo |-> g]
    BY DEF FramesOwned
  <2>1. ~Ended(a) /\ Pte(a, g).valid /\ Pte(a, g).frame \in Frame
    BY <1>1, <1>3 DEF Pte, TypeOK, Entry
  <2>2. Pte(a, g).frame # frame[p]
    BY <1>4, <2>1 DEF Mapped
  <2> QED  BY <1>1, <2>1, <2>2 DEF Pte, FramesInv, FramesOwned, TypeOK
<1>6. ~Mapped(frame[p])'
  BY <1>1, <1>3, <1>4 DEF Mapped, Pte
<1>7. swapPoolTable'[frame'[p]] = [sw_asid |-> p, sw_pageNo |-> page'[p]]
  BY <1>1 DEF TypeOK
<1>8. \A q \in Asid \ {p} : pc'[q] \notin Refilling
  BY <1>2 DEF Critical, Refilling
<1>9. \A q \in Asid : pc'[q] = "exit" => pc[q] = "exit"
  BY <1>2
<1>10. \A q \in Asid : \A o \in 1..(q - 1) : o \in Asid
  BY PagerAssumption DEF Asid
<1> QED  BY <1>1, <1>2, <1>3, <1>5, <1>6, <1>7, <1>8, <1>9, <1>10
         DEF FramesInv, Refilling

\* The page a pager makes valid is the one it has entered in the table.
LEMMA ValidateFrames ==
  ASSUME TypeOK, FramesInv, MutualExclusion, NEW p \in Asid, Validate(p)
  PROVE  FramesInv'
<1> DEFINE pte == [valid |-> TRUE, frame |-> frame[p]]
<1>1. /\ UNCHANGED <<swapPoolTable, frame, page>>
      /\ pc[p] = "validate" /\ pc' = [pc EXCEPT ![p] = "release"]
      /\ sup_privatePgTbl' = [sup_privatePgTbl EXCEPT ![p][page[p]] = pte]
  BY DEF Validate, Goes, locals
<1>2. /\ \A q \in Asid \ {p} : pc'[q] = pc[q] /\ pc[q] \notin Critical
      /\ pc'[p] = "release"
  BY <1>1 DEF TypeOK, MutualExclusion, Critical
<1>3. \A q \in Asid : pc'[q] \notin Refilling /\ (pc'[q] = "exit" => pc[q] = "exit")
  BY <1>2 DEF Critical, Refilling
<1>4. \A q \in Asid : Ended(q)' <=> Ended(q)
  BY <1>1, <1>2 DEF Ended
<1>5. FramesOwned'
  <2> SUFFICES ASSUME NEW a \in Asid, NEW g \in Page, ~Ended(a)',
                      sup_privatePgTbl'[a][g].valid
               PROVE  swapPoolTable'[sup_privatePgTbl'[a][g].frame]
                        = [sw_asid |-> a, sw_pageNo |-> g]
    BY DEF FramesOwned
  <2>1. CASE a = p /\ g = page[p]
    <3>1. sup_privatePgTbl'[a][g] = pte
      BY <1>1, <2>1 DEF TypeOK
    <3>2. swapPoolTable[frame[p]] = [sw_asid |-> p, sw_pageNo |-> page[p]]
      BY <1>1 DEF FramesInv
    <3> QED  BY <1>1, <2>1, <3>1, <3>2
  <2>2. CASE ~(a = p /\ g = page[p])
    <3>1. sup_privatePgTbl'[a][g] = sup_privatePgTbl[a][g]
      BY <1>1, <2>2 DEF TypeOK
    <3> QED  BY <1>1, <1>4, <3>1 DEF FramesInv, FramesOwned
  <2> QED  BY <2>1, <2>2
<1>6. \A q \in Asid : \A o \in 1..(q - 1) : o \in Asid
  BY PagerAssumption DEF Asid
<1> QED  BY <1>3, <1>4, <1>5, <1>6 DEF FramesInv, Refilling

\* A process that ends, and the neighbour whose frames it frees, need them no more.
LEMMA FreeFramesFrames ==
  ASSUME TypeOK, FramesInv, NEW p \in Asid, TrapFrees(p) \/ SSTTerminates(p)
  PROVE  FramesInv'
<1>1. PICK a \in {p, p - 1} :
        /\ FreeFramesOf(a) /\ (a = p - 1 => pc[p] = "exit")
        /\ UNCHANGED <<sup_privatePgTbl, frame, page>>
        /\ pc' = [pc EXCEPT ![p] = pc'[p]] /\ pc'[p] \in {"unlock", "kill"}
  <2>1. CASE TrapFrees(p)
    <3>1. p # p - 1
      BY DEF Asid
    <3> QED  BY <2>1, <3>1 DEF TrapFrees, Goes, locals, TypeOK
  <2>2. CASE SSTTerminates(p)
    BY <2>2 DEF SSTTerminates, Goes, locals, TypeOK
  <2> QED  BY <2>1, <2>2
<1>2. \A q \in Asid \ {p} : pc'[q] = pc[q]
  BY <1>1 DEF TypeOK
<1>3. Ended(p)' /\ \A q \in Asid : Ended(q) => Ended(q)'
  BY <1>1, <1>2 DEF Ended
<1>4. a \in Asid => Ended(a)'
  <2>1. CASE a = p
    BY <1>3, <2>1
  <2>2. CASE a = p - 1 /\ a \in Asid
    <3>1. a \in 1..(p - 1)
      BY <2>2 DEF Asid
    <3> QED  BY <1>1, <1>3, <2>2, <3>1 DEF FramesInv
  <2> QED  BY <1>1, <2>1, <2>2
<1>5. \A f \in Frame : \A b \in Asid, g \in Page :
        ~Ended(b)' /\ swapPoolTable[f] = [sw_asid |-> b, sw_pageNo |-> g]
          => swapPoolTable'[f] = [sw_asid |-> b, sw_pageNo |-> g]
  BY <1>1, <1>4 DEF FreeFramesOf
<1>6. FramesOwned'
  <2> SUFFICES ASSUME NEW b \in Asid, NEW g \in Page, ~Ended(b)',
                      sup_privatePgTbl'[b][g].valid
               PROVE  swapPoolTable'[sup_privatePgTbl'[b][g].frame]
                        = [sw_asid |-> b, sw_pageNo |-> g]
    BY DEF FramesOwned
  <2>1. ~Ended(b) /\ sup_privatePgTbl[b][g].valid /\ sup_privatePgTbl[b][g].frame \in Frame
    BY <1>1, <1>3 DEF TypeOK, Entry
  <2> QED  BY <1>1, <1>5, <2>1 DEF FramesInv, FramesOwned
<1>7. ASSUME NEW q \in Asid, pc'[q] \in Refilling
      PROVE  ~Mapped(frame[q])'
  <2>1. q # p /\ pc[q] \in Refilling
    BY <1>1, <1>2, <1>7 DEF Refilling
  <2>2. ~Mapped(frame[q])
    BY <2>1 DEF FramesInv
  <2> QED  BY <1>1, <1>3, <2>2 DEF Mapped, Pte
<1>8. ASSUME NEW q \in Asid, pc'[q] = "validate"
      PROVE  swapPoolTable'[frame'[q]] = [sw_asid |-> q, sw_pageNo |-> page'[q]]
  <2>1. pc[q] = "validate" /\ ~Ended(q)'
    BY <1>1, <1>2, <1>8 DEF Ended
  <2>2. frame[q] \in Frame /\ page[q] \in Page
    BY DEF TypeOK
  <2> QED  BY <1>1, <1>5, <2>1, <2>2 DEF FramesInv
<1>9. ASSUME NEW q \in Asid, pc'[q] = "exit"
      PROVE  \A o \in 1..(q - 1) : Ended(o)'
  <2>1. \A o \in 1..(q - 1) : Ended(o)
    BY <1>1, <1>2, <1>9 DEF FramesInv
  <2>2. \A o \in 1..(q - 1) : o \in Asid
    BY PagerAssumption DEF Asid
  <2> QED  BY <1>3, <2>1, <2>2
<1> QED  BY <1>6, <1>7, <1>8, <1>9 DEF FramesInv

\* Steps that touch nothing the invariant speaks of.
LEMMA FramesQuiet ==
  ASSUME FramesInv, UNCHANGED <<swapPoolTable, sup_privatePgTbl, frame, page, pc>>
  PROVE  FramesInv'
BY DEF FramesInv, FramesOwned, Mapped, Pte, Ended

\* Every step keeps each frame with one user.
LEMMA FramesStep ==
  ASSUME ExitsInOrder, TypeOK, MutualExclusion, FramesInv, [Next]_vars
  PROVE  FramesInv'
<1> USE DEF Goes, table, storage, mutexes, locals
<1>1. ASSUME NEW p \in Asid,
             \/ TakeTrap(p) \/ AskExit(p) \/ HaveMutex(p) \/ PickFrame(p) \/ WriteBack(p)
             \/ WriteDone(p) \/ ReadDone(p) \/ Release(p) \/ TrapUnlocks(p) \/ Killed(p)
             \/ \E g \in Page : Fault(p, g)
      PROVE  FramesInv'
  <2> USE DEF TakeTrap, AskExit, HaveMutex, PickFrame, WriteBack, WriteDone, ReadDone,
              Release, TrapUnlocks, Killed, Fault, Forget, TypeOK
  <2>1. UNCHANGED <<swapPoolTable, sup_privatePgTbl>>
    BY <1>1
  <2>2. \A q \in Asid \ {p} : /\ pc'[q] = pc[q] /\ frame'[q] = frame[q]
                              /\ page'[q] = page[q]
    BY <1>1
  <2>3. Ended(p) => Ended(p)'
    BY <1>1 DEF Ended
  <2>4. pc'[p] \in Refilling =>
          frame'[p] = frame[p] /\ pc[p] \in Refilling /\ pc'[p] # "validate"
    BY <1>1 DEF Refilling
  <2>5. pc'[p] = "exit" => \A q \in 1..(p - 1) : Ended(q)
    BY <1>1 DEF ExitsInOrder, FramesInv
  <2>6. pc'[p] \in Refilling => ~Mapped(frame[p])'
    <3>1. pc'[p] \in Refilling => ~Mapped(frame[p])
      BY <2>4 DEF FramesInv
    <3>2. pc'[p] \in Refilling => \A q \in Asid : Ended(q)' <=> Ended(q)
      BY <2>2, <2>4 DEF Ended, Refilling
    <3> QED  BY <2>1, <2>4, <3>1, <3>2 DEF Mapped, Pte
  <2> QED  BY <2>1, <2>2, <2>3, <2>4, <2>5, <2>6, FramesStay DEF Pte
<1>2. CASE \/ \E p \in Asid : \E g \in Page :
                Refill(p, g) \/ \E d \in Data : Store(p, g, d)
           \/ Mutex \/ UNCHANGED vars
  BY <1>2, FramesQuiet DEF Refill, Store, Mutex, Listen, Give, TakeBack, vars
<1>3. ASSUME NEW p \in Asid,
             \/ TakeFree(p) \/ Invalidate(p) \/ UpdateTable(p) \/ Validate(p)
             \/ TrapFrees(p) \/ SSTTerminates(p)
      PROVE  FramesInv'
  BY <1>3, TakeFreeFrames, InvalidateFrames, UpdateTableFrames, ValidateFrames,
     FreeFramesFrames
<1> QED  BY <1>1, <1>2, <1>3 DEF Next, UserStep, InPager, Ends, Stopped

\* A frame is never two pages': where a valid entry of a live process' page table
\* leads is, for the swap pool table, that very page.  Traps and I/O errors may
\* fall anywhere in pager(); exits must come in the order of the asids.
THEOREM FramesAreOwned == ASSUME ExitsInOrder PROVE Spec => []FramesOwned
<1> DEFINE Inv == TypeOK /\ MutexInv /\ FramesInv
<1>1. Init => Inv
  BY TypeInit, MutexInit, FramesInit
<1>2. Inv => MutualExclusion
  BY DEF MutexInv, InCritical, MutualExclusion, Held
<1>3. Inv /\ [Next]_vars => Inv'
  BY <1>2, TypeStep, MutexStep, FramesStep
<1>4. Inv => FramesOwned
  BY DEF FramesInv
<1> QED  BY <1>1, <1>3, <1>4, PTL DEF Spec
-----------------------------------------------------------------------------
(* What a process sees of memory *)

\* A step that changes no page's contents and ends no process is none of the
\* abstract memory's.
LEMMA NothingSeen ==
  ASSUME \A p \in Asid : Ended(p)' <=> Ended(p),
         \A p \in Asid : \A g \in Page : Contents(p, g)' = Contents(p, g)
  PROVE  UNCHANGED Promise!vars
BY DEF Promise!vars

\* Where the contents of a page come from stays, and so do they.
LEMMA SameContents ==
  ASSUME NEW p \in Asid, NEW g \in Page, Ended(p)' <=> Ended(p),
         Pte(p, g)' = Pte(p, g), Evictors(p, g)' = Evictors(p, g),
         ~Ended(p) /\ Pte(p, g).valid =>
           ram'[Pte(p, g).frame] = ram[Pte(p, g).frame],
         \A q \in Evictors(p, g) : ram'[frame'[q]] = ram[frame[q]],
         Evictors(p, g) = {} => flash'[p][g] = flash[p][g]
  PROVE  Contents(p, g)' = Contents(p, g)
<1> DEFINE E == Evictors(p, g)
           q == CHOOSE x \in E : TRUE
<1>1. CASE E = {}
  BY <1>1 DEF Contents, Pte
<1>2. CASE E # {}
  <2>1. q \in E
    BY <1>2
  <2>2. ram'[frame'[q]] = ram[frame[q]]
    BY <2>1
  <2> QED  BY <1>2, <2>2 DEF Contents, Pte
<1> QED  BY <1>1, <1>2

\* Only the pager in its critical section evicts.
LEMMA NoEvictors ==
  ASSUME MutualExclusion, NEW p \in Asid, pc[p] \in Critical \ {"write", "writing"},
         NEW a \in Asid, NEW g \in Page
  PROVE  Evictors(a, g) = {}
BY DEF MutualExclusion, Evictors, Critical

\* Steps that leave memory, tables and whatever pagers do with them alone.
LEMMA MemoryQuiet ==
  ASSUME MemoryInv,
         UNCHANGED <<swapPoolTable, sup_privatePgTbl, storage, pc, locals>>
  PROVE  MemoryInv' /\ UNCHANGED Promise!vars
<1> USE DEF storage, locals
<1>1. /\ \A p \in Asid : Ended(p)' <=> Ended(p)
      /\ \A p \in Asid : \A g \in Page : Evictors(p, g)' = Evictors(p, g)
  BY DEF Ended, Evictors
<1>2. MemoryInv'
  BY <1>1 DEF MemoryInv, Pte
<1>3. \A p \in Asid : \A g \in Page : Contents(p, g)' = Contents(p, g)
  BY <1>1, SameContents DEF Pte
<1> QED  BY <1>1, <1>2, <1>3, NothingSeen

\* A step of p within pager() that leaves memory and tables alone.
LEMMA MemoryStays ==
  ASSUME TypeOK, MemoryInv, UNCHANGED <<swapPoolTable, sup_privatePgTbl, storage>>,
         NEW p \in Asid, Ended(p)' <=> Ended(p),
         \A q \in Asid \ {p} : /\ pc'[q] = pc[q] /\ frame'[q] = frame[q]
                               /\ page'[q] = page[q] /\ target'[q] = target[q],
         pc[p] \in Refilling => pc'[p] \in Refilling /\ frame'[p] = frame[p],
         pc'[p] \in Faulting => ~Pte(p, page'[p]).valid,
         pc'[p] \in {"update", "validate"} => ram[frame'[p]] = flash[p][page'[p]],
         \A a \in Asid : \A g \in Page : p \in Evictors(a, g)' <=> p \in Evictors(a, g)
  PROVE  MemoryInv' /\ UNCHANGED Promise!vars
<1> USE DEF storage
<1>1. \A q \in Asid : Ended(q)' <=> Ended(q)
  BY DEF Ended
<1>2. ASSUME NEW a \in Asid, NEW g \in Page
      PROVE  Evictors(a, g)' = Evictors(a, g)
  <2>1. \A q \in Asid \ {p} : q \in Evictors(a, g)' <=> q \in Evictors(a, g)
    BY DEF Evictors
  <2>2. Evictors(a, g)' \subseteq Asid /\ Evictors(a, g) \subseteq Asid
    BY DEF Evictors
  <2> QED  BY <2>1, <2>2
<1>3. \A q \in Asid : pc[q] \in Refilling => pc'[q] \in Refilling /\ frame'[q] = frame[q]
  OBVIOUS
<1>4. MemoryInv'
  <2>1. ASSUME NEW f \in Frame, NEW a \in Asid, NEW g \in Page, ~Ended(a)',
               swapPoolTable'[f] = [sw_asid |-> a, sw_pageNo |-> g]
        PROVE  \/ Pte(a, g)' = [valid |-> TRUE, frame |-> f]
               \/ \E q \in Asid : pc'[q] \in Refilling /\ frame'[q] = f
    BY <1>1, <1>3, <2>1 DEF MemoryInv, Pte
  <2>2. \A q \in Asid : pc'[q] \in Faulting => ~Pte(q, page[q])'.valid
    BY DEF MemoryInv, Pte
  <2>3. \A q \in Asid : pc'[q] \in {"update", "validate"} =>
                          ram'[frame'[q]] = flash'[q][page'[q]]
    BY DEF MemoryInv
  <2>4. \A q \in Asid : \A g \in Page : Evictors(q, g)' # {} => ~Pte(q, g)'.valid
    BY <1>2 DEF MemoryInv, Pte
  <2> QED  BY <2>1, <2>2, <2>3, <2>4 DEF MemoryInv
<1>5. ASSUME NEW a \in Asid, NEW g \in Page
      PROVE  Contents(a, g)' = Contents(a, g)
  <2>1. \A q \in Evictors(a, g) : q \in Asid /\ pc[q] \in Refilling
    BY DEF Evictors, Refilling
  <2>2. \A q \in Evictors(a, g) : ram'[frame'[q]] = ram[frame[q]]
    BY <1>3, <2>1
  <2> QED  BY <1>1, <1>2, <2>2, SameContents DEF Pte
<1> QED  BY <1>1, <1>4, <1>5, NothingSeen
-----------------------------------------------------------------------------
(* The steps of the pager as steps of the abstract memory *)

\* What pagers do between two accesses to memory or tables, a process' own steps
\* but its stores, and the steps of its end but the first, nobody sees.
LEMMA UnseenSteps ==
  ASSUME TypeOK, TLBCoherent, MemoryInv, NEW p \in Asid,
         \/ TakeTrap(p) \/ AskExit(p) \/ HaveMutex(p) \/ PickFrame(p) \/ TakeFree(p)
         \/ WriteBack(p) \/ Release(p) \/ TrapUnlocks(p) \/ Killed(p)
         \/ \E g \in Page : Fault(p, g)
  PROVE  MemoryInv' /\ UNCHANGED Promise!vars
<1> USE DEF Goes, table, locals, mutexes, TakeTrap, AskExit, HaveMutex, PickFrame, TakeFree,
            WriteBack, Release, TrapUnlocks, Killed, Fault, Forget, TypeOK
<1>1. UNCHANGED <<swapPoolTable, sup_privatePgTbl, storage>>
  OBVIOUS
<1>2. Ended(p)' <=> Ended(p)
  BY DEF Ended
<1>3. \A q \in Asid \ {p} : /\ pc'[q] = pc[q] /\ frame'[q] = frame[q]
                            /\ page'[q] = page[q] /\ target'[q] = target[q]
  OBVIOUS
<1>4. pc[p] \in Refilling => pc'[p] \in Refilling /\ frame'[p] = frame[p]
  BY DEF Refilling
<1>5. pc'[p] \in Faulting => ~Pte(p, page'[p]).valid
  <2>1. CASE \E g \in Page : Fault(p, g)
    <3>1. PICK g \in Page : tlb[p][g] # Uncached /\ ~tlb[p][g].valid /\ page'[p] = g
      BY <2>1
    <3> QED  BY <3>1 DEF TLBCoherent, Pte
  <2>2. CASE ~\E g \in Page : Fault(p, g)
    <3>1. pc'[p] \in Faulting => pc[p] \in Faulting /\ page'[p] = page[p]
      BY <2>2 DEF Faulting, Refilling
    <3> QED  BY <3>1 DEF MemoryInv
  <2> QED  BY <2>1, <2>2
<1>6. pc'[p] \notin {"update", "validate"}
  OBVIOUS
<1>7. ASSUME NEW a \in Asid, NEW g \in Page
      PROVE  p \in Evictors(a, g)' <=> p \in Evictors(a, g)
  <2>1. CASE WriteBack(p)
    <3> DEFINE o == swapPoolTable[frame[p]]
    <3>1. o = [sw_asid |-> o.sw_asid, sw_pageNo |-> o.sw_pageNo] /\ a # NOASID
      BY DEF Owner, NOASID, Asid
    <3>2. o = [sw_asid |-> a, sw_pageNo |-> g] <=> <<o.sw_asid, o.sw_pageNo>> = <<a, g>>
      BY <3>1
    <3> HIDE DEF o
    <3> QED  BY <2>1, <3>1, <3>2 DEF Evictors, o
  <2>2. CASE ~WriteBack(p)
    <3>1. pc[p] \notin {"write", "writing"} /\ pc'[p] \notin {"write", "writing"}
      BY <2>2
    <3> QED  BY <3>1 DEF Evictors
  <2> QED  BY <2>1, <2>2
<1> QED  BY <1>1, <1>2, <1>3, <1>4, <1>5, <1>6, <1>7, MemoryStays

\* The page is read into a frame nobody reaches, and nobody else has an evictor.
LEMMA ReadDoneUnseen ==
  ASSUME FlashWorks, TypeOK, MutualExclusion, FramesInv, MemoryInv,
         NEW p \in Asid, ReadDone(p)
  PROVE  MemoryInv' /\ UNCHANGED Promise!vars
<1>1. /\ UNCHANGED <<swapPoolTable, sup_privatePgTbl, flash, frame, page, target>>
      /\ pc[p] = "reading" /\ pc' = [pc EXCEPT ![p] = "update"]
      /\ ram' = [ram EXCEPT ![frame[p]] = flash[p][page[p]]]
  BY DEF ReadDone, Goes, table, locals, FlashWorks
<1>2. /\ \A q \in Asid \ {p} : pc'[q] = pc[q] /\ pc[q] \notin Critical
      /\ pc'[p] = "update"
  BY <1>1 DEF TypeOK, MutualExclusion, Critical
<1>3. \A q \in Asid : Ended(q)' <=> Ended(q)
  BY <1>1, <1>2 DEF Ended
<1>4. \A a \in Asid : \A g \in Page : Evictors(a, g) = {} /\ Evictors(a, g)' = {}
  BY <1>1, <1>2 DEF Evictors, Critical
<1>5. MemoryInv'
  <2>1. ASSUME NEW f \in Frame, NEW a \in Asid, NEW g \in Page, ~Ended(a)',
               swapPoolTable'[f] = [sw_asid |-> a, sw_pageNo |-> g]
        PROVE  \/ Pte(a, g)' = [valid |-> TRUE, frame |-> f]
               \/ \E q \in Asid : pc'[q] \in Refilling /\ frame'[q] = f
    <3>1. \A q \in Asid : pc[q] \in Refilling => pc'[q] \in Refilling
      BY <1>2 DEF Refilling
    <3> QED  BY <1>1, <1>3, <2>1, <3>1 DEF MemoryInv, Pte
  <2>2. \A q \in Asid : pc'[q] \in Faulting => ~Pte(q, page[q])'.valid
    BY <1>1, <1>2 DEF MemoryInv, Pte, Faulting, Refilling
  <2>3. \A q \in Asid : pc'[q] \in {"update", "validate"} =>
                          ram'[frame'[q]] = flash'[q][page'[q]]
    BY <1>1, <1>2 DEF Critical, TypeOK
  <2> QED  BY <1>4, <2>1, <2>2, <2>3 DEF MemoryInv
<1>6. ASSUME NEW a \in Asid, NEW g \in Page
      PROVE  Contents(a, g)' = Contents(a, g)
  <2>1. ~Ended(a) /\ Pte(a, g).valid => Pte(a, g).frame # frame[p]
    BY <1>1 DEF FramesInv, Mapped, Refilling
  <2>2. Pte(a, g).frame # frame[p] => ram'[Pte(a, g).frame] = ram[Pte(a, g).frame]
    BY <1>1 DEF Pte, TypeOK, Entry
  <2> QED  BY <1>1, <1>3, <1>4, <2>1, <2>2, SameContents DEF Pte
<1> QED  BY <1>3, <1>5, <1>6, NothingSeen

\* The owner of a frame changes in the table while the frame is refilled.
LEMMA UpdateTableUnseen ==
  ASSUME TypeOK, MutualExclusion, MemoryInv, NEW p \in Asid, UpdateTable(p)
  PROVE  MemoryInv' /\ UNCHANGED Promise!vars
<1> DEFINE own == [sw_asid |-> p, sw_pageNo |-> page[p]]
<1>1. /\ UNCHANGED <<sup_privatePgTbl, ram, flash, frame, page, target>>
      /\ pc[p] = "update" /\ pc' = [pc EXCEPT ![p] = "validate"]
      /\ swapPoolTable' = [swapPoolTable EXCEPT ![frame[p]] = own]
  BY DEF UpdateTable, Goes, storage, locals
<1>2. /\ \A q \in Asid \ {p} : pc'[q] = pc[q] /\ pc[q] \notin Critical
      /\ pc'[p] = "validate"
  BY <1>1 DEF TypeOK, MutualExclusion, Critical
<1>3. \A q \in Asid : Ended(q)' <=> Ended(q)
  BY <1>1, <1>2 DEF Ended
<1>4. \A a \in Asid : \A g \in Page : Evictors(a, g) = {} /\ Evictors(a, g)' = {}
  BY <1>1, <1>2 DEF Evictors, Critical
<1>5. MemoryInv'
  <2>1. ASSUME NEW f \in Frame, NEW a \in Asid, NEW g \in Page, ~Ended(a)',
               swapPoolTable'[f] = [sw_asid |-> a, sw_pageNo |-> g]
        PROVE  \/ Pte(a, g)' = [valid |-> TRUE, frame |-> f]
               \/ \E q \in Asid : pc'[q] \in Refilling /\ frame'[q] = f
    <3>1. \A q \in Asid : pc[q] \in Refilling => pc'[q] \in Refilling
      BY <1>2 DEF Refilling
    <3>2. CASE f = frame[p]
      BY <1>1, <1>2, <3>2 DEF Refilling
    <3>3. CASE f # frame[p]
      <4>1. swapPoolTable'[f] = swapPoolTable[f]
        BY <1>1, <3>3 DEF TypeOK
      <4> QED  BY <1>1, <1>3, <2>1, <3>1, <4>1 DEF MemoryInv, Pte
    <3> QED  BY <3>2, <3>3
  <2>2. \A q \in Asid : pc'[q] \in Faulting => ~Pte(q, page[q])'.valid
    BY <1>1, <1>2 DEF MemoryInv, Pte, Faulting, Refilling
  <2>3. \A q \in Asid : pc'[q] \in {"update", "validate"} =>
                          ram'[frame'[q]] = flash'[q][page'[q]]
    BY <1>1, <1>2 DEF MemoryInv, Critical
  <2> QED  BY <1>4, <2>1, <2>2, <2>3 DEF MemoryInv
<1>6. ASSUME NEW a \in Asid, NEW g \in Page
      PROVE  Contents(a, g)' = Contents(a, g)
  BY <1>1, <1>3, <1>4, SameContents DEF Pte
<1> QED  BY <1>3, <1>5, <1>6, NothingSeen

\* The write-back is done: the page is from now on what the backing store has, which
\* is what the frame had.
LEMMA WriteDoneUnseen ==
  ASSUME FlashWorks, TypeOK, MutualExclusion, MemoryInv, NEW p \in Asid, WriteDone(p)
  PROVE  MemoryInv' /\ UNCHANGED Promise!vars
<1>1. PICK b \in Asid, h \in Page : target[p] = <<b, h>>
  BY DEF TypeOK
<1>2. /\ UNCHANGED <<swapPoolTable, sup_privatePgTbl, ram, frame, page, target>>
      /\ pc[p] = "writing" /\ pc' = [pc EXCEPT ![p] = "reading"]
      /\ flash' = [flash EXCEPT ![b][h] = ram[frame[p]]]
  BY <1>1 DEF WriteDone, Written, Goes, table, locals, FlashWorks
<1>3. /\ \A q \in Asid \ {p} : pc'[q] = pc[q] /\ pc[q] \notin Critical
      /\ pc'[p] = "reading"
  BY <1>2 DEF TypeOK, MutualExclusion, Critical
<1>4. \A q \in Asid : Ended(q)' <=> Ended(q)
  BY <1>2, <1>3 DEF Ended
<1>5. \A a \in Asid : \A g \in Page :
        /\ Evictors(a, g) = IF <<a, g>> = <<b, h>> THEN {p} ELSE {}
        /\ Evictors(a, g)' = {}
  BY <1>1, <1>2, <1>3 DEF Evictors, Critical
<1>6. MemoryInv'
  <2>1. ASSUME NEW f \in Frame, NEW a \in Asid, NEW g \in Page, ~Ended(a)',
               swapPoolTable'[f] = [sw_asid |-> a, sw_pageNo |-> g]
        PROVE  \/ Pte(a, g)' = [valid |-> TRUE, frame |-> f]
               \/ \E q \in Asid : pc'[q] \in Refilling /\ frame'[q] = f
    <3>1. \A q \in Asid : pc[q] \in Refilling => pc'[q] \in Refilling
      BY <1>3 DEF Refilling
    <3> QED  BY <1>2, <1>4, <2>1, <3>1 DEF MemoryInv, Pte
  <2>2. \A q \in Asid : pc'[q] \in Faulting => ~Pte(q, page[q])'.valid
    BY <1>2, <1>3 DEF MemoryInv, Pte, Faulting, Refilling
  <2>3. \A q \in Asid : pc'[q] \notin {"update", "validate"}
    BY <1>3 DEF Critical
  <2> QED  BY <1>5, <2>1, <2>2, <2>3 DEF MemoryInv
<1>7. ASSUME NEW a \in Asid, NEW g \in Page
      PROVE  Contents(a, g)' = Contents(a, g)
  <2>1. CASE a = b /\ g = h
    <3>1. Evictors(a, g) = {p} /\ Evictors(a, g)' = {}
      BY <1>5, <2>1
    <3>2. ~Pte(a, g).valid /\ ~Pte(a, g)'.valid
      BY <1>2, <3>1 DEF MemoryInv, Pte
    <3>3. flash'[a][g] = ram[frame[p]]
      BY <1>2, <2>1 DEF TypeOK
    <3> QED  BY <1>4, <3>1, <3>2, <3>3 DEF Contents, Pte
  <2>2. CASE ~(a = b /\ g = h)
    <3>1. Evictors(a, g) = {} /\ Evictors(a, g)' = {}
      BY <1>5, <2>2
    <3>2. flash'[a][g] = flash[a][g]
      BY <1>2, <2>2 DEF TypeOK
    <3> QED  BY <1>2, <1>4, <3>1, <3>2, SameContents DEF Pte
  <2> QED  BY <2>1, <2>2
<1> QED  BY <1>4, <1>6, <1>7, NothingSeen

\* The page in the frame is not valid any more: from now on its contents are what
\* the evictor has in its frame, the very one.
LEMMA InvalidateUnseen ==
  ASSUME TypeOK, MutualExclusion, MemoryInv, NEW p \in Asid, Invalidate(p)
  PROVE  MemoryInv' /\ UNCHANGED Promise!vars
<1>1. PICK f \in Frame, b \in Asid, h \in Page :
        f = frame[p] /\ swapPoolTable[f] = [sw_asid |-> b, sw_pageNo |-> h]
  <2>1. frame[p] \in Frame /\ swapPoolTable[frame[p]] \in Owner
    BY DEF TypeOK
  <2> QED  BY <2>1 DEF Invalidate, isFrameFree, Owner
<1>2. /\ UNCHANGED <<swapPoolTable, ram, flash, frame, page, target>>
      /\ pc[p] = "check" /\ pc' = [pc EXCEPT ![p] = "write"]
      /\ sup_privatePgTbl' =
           [sup_privatePgTbl EXCEPT ![b][h] = [sup_privatePgTbl[b][h] EXCEPT !.valid = FALSE]]
  BY <1>1 DEF Invalidate, Goes, storage, locals
<1>3. /\ \A q \in Asid \ {p} : pc'[q] = pc[q] /\ pc[q] \notin Critical
      /\ pc'[p] = "write"
  BY <1>2 DEF TypeOK, MutualExclusion, Critical
<1>4. \A q \in Asid : Ended(q)' <=> Ended(q)
  BY <1>2, <1>3 DEF Ended
<1>5. /\ ~Pte(b, h)'.valid
      /\ \A a \in Asid : \A g \in Page : <<a, g>> # <<b, h>> => Pte(a, g)' = Pte(a, g)
  BY <1>2 DEF Pte, TypeOK, Entry
<1>6. \A a \in Asid : \A g \in Page :
        /\ Evictors(a, g) = {}
        /\ Evictors(a, g)' = IF <<a, g>> = <<b, h>> THEN {p} ELSE {}
  BY <1>1, <1>2, <1>3 DEF Evictors, Critical
<1>7. ASSUME NEW e \in Frame, NEW a \in Asid, NEW g \in Page, ~Ended(a),
             swapPoolTable[e] = [sw_asid |-> a, sw_pageNo |-> g]
      PROVE  Pte(a, g) = [valid |-> TRUE, frame |-> e]
  <2>1. \A q \in Asid : pc[q] \notin Refilling
    BY <1>2, <1>3 DEF Critical, Refilling
  <2> QED  BY <1>7, <2>1 DEF MemoryInv
<1>8. MemoryInv'
  <2>1. ASSUME NEW e \in Frame, NEW a \in Asid, NEW g \in Page, ~Ended(a)',
               swapPoolTable'[e] = [sw_asid |-> a, sw_pageNo |-> g]
        PROVE  \/ Pte(a, g)' = [valid |-> TRUE, frame |-> e]
               \/ \E q \in Asid : pc'[q] \in Refilling /\ frame'[q] = e
    <3>1. CASE e = f
      BY <1>1, <1>2, <1>3, <3>1 DEF Refilling
    <3>2. CASE e # f
      <4>1. Pte(a, g) = [valid |-> TRUE, frame |-> e]
        BY <1>2, <1>4, <1>7, <2>1
      <4>2. <<a, g>> # <<b, h>>
        BY <1>1, <1>4, <1>7, <2>1, <3>2, <4>1
      <4> QED  BY <1>5, <4>1, <4>2
    <3> QED  BY <3>1, <3>2
  <2>2. ASSUME NEW q \in Asid, pc'[q] \in Faulting
        PROVE  ~Pte(q, page[q])'.valid
    <3>1. ~Pte(q, page[q]).valid
      BY <1>2, <1>3, <2>2 DEF MemoryInv, Faulting
    <3>2. page[q] \in Page /\ page'[q] = page[q]
      BY <1>2 DEF TypeOK
    <3> QED  BY <1>5, <3>1, <3>2
  <2>3. \A q \in Asid : pc'[q] \notin {"update", "validate"}
    BY <1>3 DEF Critical
  <2>4. \A a \in Asid : \A g \in Page : Evictors(a, g)' # {} => ~Pte(a, g)'.valid
    BY <1>5, <1>6
  <2> QED  BY <2>1, <2>2, <2>3, <2>4 DEF MemoryInv
<1>9. ASSUME NEW a \in Asid, NEW g \in Page
      PROVE  Contents(a, g)' = Contents(a, g)
  <2>1. CASE a = b /\ g = h /\ ~Ended(a)
    <3>1. Contents(a, g) = ram[f]
      <4>1. Pte(a, g) = [valid |-> TRUE, frame |-> f]
        BY <1>1, <1>7, <2>1
      <4>2. sup_privatePgTbl[a][g].valid /\ sup_privatePgTbl[a][g].frame = f
        BY <4>1 DEF Pte
      <4> QED  BY <2>1, <4>2 DEF Contents
    <3>2. Evictors(a, g)' = {p} /\ ~Pte(a, g)'.valid /\ ~Ended(a)'
      BY <1>4, <1>5, <1>6, <2>1
    <3>3. Contents(a, g)' = ram'[frame'[p]]
      BY <3>2 DEF Contents, Pte
    <3> QED  BY <1>1, <1>2, <3>1, <3>3
  <2>2. CASE Ended(a)
    BY <1>4, <2>2 DEF Contents
  <2>3. CASE <<a, g>> # <<b, h>>
    BY <1>2, <1>4, <1>5, <1>6, <2>3, SameContents
  <2> QED  BY <2>1, <2>2, <2>3
<1> QED  BY <1>4, <1>8, <1>9, NothingSeen

\* The page becomes valid in the frame it has just been read into.
LEMMA ValidateUnseen ==
  ASSUME TypeOK, MutualExclusion, FramesInv, MemoryInv, NEW p \in Asid, Validate(p)
  PROVE  MemoryInv' /\ UNCHANGED Promise!vars
<1>1. PICK f \in Frame, h \in Page : f = frame[p] /\ h = page[p]
  BY DEF TypeOK
<1> DEFINE pte == [valid |-> TRUE, frame |-> f]
<1>2. /\ UNCHANGED <<swapPoolTable, ram, flash, frame, page, target>>
      /\ pc[p] = "validate" /\ pc' = [pc EXCEPT ![p] = "release"]
      /\ sup_privatePgTbl' = [sup_privatePgTbl EXCEPT ![p][h] = pte]
  BY <1>1 DEF Validate, Goes, storage, locals
<1>3. /\ \A q \in Asid \ {p} : pc'[q] = pc[q] /\ pc[q] \notin Critical
      /\ pc'[p] = "release"
  BY <1>2 DEF TypeOK, MutualExclusion, Critical
<1>4. \A q \in Asid : Ended(q)' <=> Ended(q)
  BY <1>2, <1>3 DEF Ended
<1>5. /\ Pte(p, h)' = pte
      /\ \A a \in Asid : \A g \in Page : <<a, g>> # <<p, h>> => Pte(a, g)' = Pte(a, g)
  BY <1>2 DEF Pte, TypeOK
<1>6. \A a \in Asid : \A g \in Page : Evictors(a, g) = {} /\ Evictors(a, g)' = {}
  BY <1>2, <1>3 DEF Evictors, Critical
<1>7. /\ ~Pte(p, h).valid /\ ram[f] = flash[p][h]
      /\ swapPoolTable[f] = [sw_asid |-> p, sw_pageNo |-> h]
  BY <1>1, <1>2 DEF MemoryInv, FramesInv, Faulting, Refilling
<1>8. MemoryInv'
  <2>1. ASSUME NEW e \in Frame, NEW a \in Asid, NEW g \in Page, ~Ended(a)',
               swapPoolTable'[e] = [sw_asid |-> a, sw_pageNo |-> g]
        PROVE  Pte(a, g)' = [valid |-> TRUE, frame |-> e]
    <3>1. CASE e = f
      BY <1>2, <1>5, <1>7, <2>1, <3>1
    <3>2. CASE e # f
      <4>1. \A q \in Asid : pc[q] \in Refilling => frame[q] # e
        BY <1>1, <1>3, <3>2 DEF Refilling, Critical
      <4>2. Pte(a, g) = [valid |-> TRUE, frame |-> e]
        BY <1>2, <1>4, <2>1, <4>1 DEF MemoryInv
      <4> QED  BY <1>5, <1>7, <4>2
    <3> QED  BY <3>1, <3>2
  <2>2. ASSUME NEW q \in Asid, pc'[q] \in Faulting
        PROVE  ~Pte(q, page[q])'.valid
    <3>1. q # p /\ ~Pte(q, page[q]).valid
      BY <1>3, <2>2 DEF MemoryInv, Faulting, Refilling
    <3>2. page[q] \in Page /\ page'[q] = page[q]
      BY <1>2 DEF TypeOK
    <3> QED  BY <1>5, <3>1, <3>2
  <2>3. \A q \in Asid : pc'[q] \notin {"update", "validate"}
    BY <1>3 DEF Critical
  <2> QED  BY <1>6, <2>1, <2>2, <2>3 DEF MemoryInv
<1>9. ASSUME NEW a \in Asid, NEW g \in Page
      PROVE  Contents(a, g)' = Contents(a, g)
  <2>1. CASE a = p /\ g = h
    <3>1. ~Ended(a) /\ ~Ended(a)'
      BY <1>2, <1>4, <2>1 DEF Ended
    <3>2. Contents(a, g) = flash[a][g]
      BY <1>6, <1>7, <2>1, <3>1 DEF Contents, Pte
    <3>3. Contents(a, g)' = ram'[f]
      BY <1>5, <2>1, <3>1 DEF Contents, Pte
    <3> QED  BY <1>2, <1>7, <2>1, <3>2, <3>3
  <2>2. CASE <<a, g>> # <<p, h>>
    BY <1>2, <1>4, <1>5, <1>6, <2>2, SameContents
  <2> QED  BY <2>1, <2>2
<1> QED  BY <1>4, <1>8, <1>9, NothingSeen

\* A process that frees its frames ends there, and the others see nothing of it.
LEMMA FreeFramesEnds ==
  ASSUME TypeOK, FramesInv, MemoryInv, NEW p \in Asid, TrapFrees(p) \/ SSTTerminates(p)
  PROVE  MemoryInv' /\ Promise!End(p)
<1>1. PICK a \in {p, p - 1} :
        /\ FreeFramesOf(a) /\ (a = p - 1 => pc[p] = "exit")
        /\ UNCHANGED <<sup_privatePgTbl, ram, flash, frame, page, target>>
        /\ pc' = [pc EXCEPT ![p] = pc'[p]] /\ pc'[p] \in {"unlock", "kill"}
        /\ pc[p] \in {"trap", "exit"}
  <2>1. CASE TrapFrees(p)
    <3>1. p # p - 1
      BY DEF Asid
    <3> QED  BY <2>1, <3>1 DEF TrapFrees, Goes, locals, storage, TypeOK
  <2>2. CASE SSTTerminates(p)
    BY <2>2 DEF SSTTerminates, Goes, locals, storage, TypeOK
  <2> QED  BY <2>1, <2>2
<1>2. \A q \in Asid \ {p} : pc'[q] = pc[q]
  BY <1>1 DEF TypeOK
<1>3. ~Ended(p) /\ Ended(p)' /\ \A q \in Asid \ {p} : Ended(q)' <=> Ended(q)
  BY <1>1, <1>2 DEF Ended
<1>4. a \in Asid => Ended(a)'
  <2>1. CASE a = p
    BY <1>3, <2>1
  <2>2. CASE a = p - 1 /\ a \in Asid
    <3>1. a \in 1..(p - 1) /\ a # p
      BY <2>2 DEF Asid
    <3> QED  BY <1>1, <1>3, <2>2, <3>1 DEF FramesInv
  <2> QED  BY <1>1, <2>1, <2>2
<1>5. \A f \in Frame : \A b \in Asid, g \in Page :
        swapPoolTable'[f] = [sw_asid |-> b, sw_pageNo |-> g]
          => swapPoolTable[f] = [sw_asid |-> b, sw_pageNo |-> g]
  BY <1>1 DEF FreeFramesOf, NOASID, Asid
<1>6. \A f \in Frame : \A b \in Asid, g \in Page :
        ~Ended(b)' /\ swapPoolTable[f] = [sw_asid |-> b, sw_pageNo |-> g]
          => swapPoolTable'[f] = [sw_asid |-> b, sw_pageNo |-> g]
  BY <1>1, <1>4 DEF FreeFramesOf
<1>7. \A q \in Asid : pc[q] \in Refilling <=> pc'[q] \in Refilling
  BY <1>1, <1>2 DEF Refilling
<1>8. ASSUME NEW b \in Asid, NEW g \in Page
      PROVE  /\ Evictors(b, g)' \subseteq Evictors(b, g)
             /\ ~Ended(b)' => Evictors(b, g)' = Evictors(b, g)
  <2>1. \A q \in Asid : frame[q] \in Frame
    BY DEF TypeOK
  <2>2. \A q \in Asid : q \in Evictors(b, g)' => q \in Evictors(b, g)
    BY <1>1, <1>2, <1>5, <2>1 DEF Evictors
  <2>3. ~Ended(b)' => \A q \in Asid : q \in Evictors(b, g) => q \in Evictors(b, g)'
    BY <1>1, <1>2, <1>6, <2>1 DEF Evictors
  <2>4. Evictors(b, g)' \subseteq Asid /\ Evictors(b, g) \subseteq Asid
    BY DEF Evictors
  <2> QED  BY <2>2, <2>3, <2>4
<1>9. MemoryInv'
  <2>1. ASSUME NEW f \in Frame, NEW b \in Asid, NEW g \in Page, ~Ended(b)',
               swapPoolTable'[f] = [sw_asid |-> b, sw_pageNo |-> g]
        PROVE  \/ Pte(b, g)' = [valid |-> TRUE, frame |-> f]
               \/ \E q \in Asid : pc'[q] \in Refilling /\ frame'[q] = f
    <3>1. ~Ended(b) /\ swapPoolTable[f] = [sw_asid |-> b, sw_pageNo |-> g]
      BY <1>3, <1>5, <2>1
    <3> QED  BY <1>1, <1>7, <3>1 DEF MemoryInv, Pte
  <2>2. \A q \in Asid : pc'[q] \in Faulting => ~Pte(q, page[q])'.valid
    BY <1>1, <1>2 DEF MemoryInv, Pte, Faulting, Refilling
  <2>3. \A q \in Asid : pc'[q] \in {"update", "validate"} =>
                          ram'[frame'[q]] = flash'[q][page'[q]]
    BY <1>1, <1>2 DEF MemoryInv
  <2>4. \A q \in Asid : \A g \in Page : Evictors(q, g)' # {} => ~Pte(q, g)'.valid
    BY <1>1, <1>8 DEF MemoryInv, Pte
  <2> QED  BY <2>1, <2>2, <2>3, <2>4 DEF MemoryInv
<1>10. ASSUME NEW b \in Asid, NEW g \in Page
       PROVE  Contents(b, g)' = IF b = p THEN Image ELSE Contents(b, g)
  <2>1. CASE Ended(b)'
    BY <1>3, <2>1 DEF Contents
  <2>2. CASE ~Ended(b)'
    <3>1. b # p /\ Evictors(b, g)' = Evictors(b, g) /\ (Ended(b)' <=> Ended(b))
      BY <1>3, <1>8, <2>2
    <3>2. Evictors(b, g) \subseteq Asid
      BY DEF Evictors
    <3> QED  BY <1>1, <3>1, <3>2, SameContents DEF Pte
  <2> QED  BY <2>1, <2>2
<1>11. Promise!End(p)
  <2> DEFINE mem == [q \in Asid |-> [g \in Page |-> Contents(q, g)]]
             ended == {q \in Asid : Ended(q)}
  <2>1. p \notin ended /\ ended' = ended \cup {p}
    BY <1>3
  <2>2. mem' = [mem EXCEPT ![p] = [g \in Page |-> Image]]
    BY <1>10
  <2> QED  BY <2>1, <2>2 DEF Promise!End
<1> QED  BY <1>9, <1>11

\* A store through a valid entry changes the page it is meant for, and no other.
LEMMA StoreSeen ==
  ASSUME TypeOK, TLBCoherent, FramesInv, MemoryInv,
         NEW p \in Asid, NEW g \in Page, NEW d \in Data, Store(p, g, d)
  PROVE  MemoryInv' /\ Promise!Store(p, g, d)
<1>1. PICK f \in Frame : Pte(p, g) = [valid |-> TRUE, frame |-> f] /\ f = tlb[p][g].frame
  <2>1. tlb[p][g].valid /\ tlb[p][g] # Uncached
    BY DEF Store, Uncached
  <2>2. Pte(p, g) = tlb[p][g] /\ Pte(p, g) \in Entry
    BY <2>1 DEF TLBCoherent, Pte, TypeOK
  <2> QED  BY <2>1, <2>2 DEF Entry
<1>2. /\ UNCHANGED <<swapPoolTable, sup_privatePgTbl, flash, pc, frame, page, target>>
      /\ ram' = [ram EXCEPT ![f] = d] /\ pc[p] = "user"
  BY <1>1 DEF Store, table, locals
<1>3. /\ \A q \in Asid : Ended(q)' <=> Ended(q)
      /\ \A a \in Asid : \A k \in Page : Evictors(a, k)' = Evictors(a, k)
  BY <1>2 DEF Ended, Evictors
<1>4. ~Ended(p)
  BY <1>2 DEF Ended
<1>5. ASSUME NEW q \in Asid, pc[q] \in Refilling
      PROVE  ram'[frame[q]] = ram[frame[q]]
  <2>1. Mapped(f) /\ ~Mapped(frame[q])
    <3>1. ~Ended(p) /\ Pte(p, g).valid /\ Pte(p, g).frame = f
      BY <1>1, <1>4
    <3> QED  BY <1>5, <3>1 DEF FramesInv, Mapped
  <2>2. frame[q] \in Frame /\ frame[q] # f
    BY <2>1 DEF TypeOK
  <2> QED  BY <1>2, <2>2 DEF TypeOK
<1>6. MemoryInv'
  <2>1. \A q \in Asid : pc'[q] \in {"update", "validate"} =>
                          ram'[frame'[q]] = flash'[q][page'[q]]
    BY <1>2, <1>5 DEF MemoryInv, Refilling
  <2> QED  BY <1>2, <1>3, <2>1 DEF MemoryInv, Pte
<1>7. Contents(p, g)' = d
  BY <1>1, <1>2, <1>3, <1>4 DEF Contents, Pte, TypeOK
<1>8. ASSUME NEW a \in Asid, NEW k \in Page, <<a, k>> # <<p, g>>
      PROVE  Contents(a, k)' = Contents(a, k)
  <2>1. ASSUME ~Ended(a), Pte(a, k).valid
        PROVE  ram'[Pte(a, k).frame] = ram[Pte(a, k).frame]
    <3>1. /\ swapPoolTable[Pte(a, k).frame] = [sw_asid |-> a, sw_pageNo |-> k]
          /\ swapPoolTable[f] = [sw_asid |-> p, sw_pageNo |-> g]
      BY <1>1, <1>4, <2>1 DEF FramesInv, FramesOwned, Pte
    <3>2. Pte(a, k).frame # f
      BY <1>8, <3>1
    <3>3. Pte(a, k).frame \in Frame
      BY DEF Pte, TypeOK, Entry
    <3> QED  BY <1>2, <3>2, <3>3 DEF TypeOK
  <2>2. \A q \in Evictors(a, k) : ram'[frame'[q]] = ram[frame[q]]
    BY <1>2, <1>5 DEF Evictors, Refilling
  <2> QED  BY <1>2, <1>3, <2>1, <2>2, SameContents DEF Pte
<1>9. Promise!Store(p, g, d)
  <2> DEFINE mem == [q \in Asid |-> [k \in Page |-> Contents(q, k)]]
             ended == {q \in Asid : Ended(q)}
  <2>1. p \notin ended /\ ended' = ended
    BY <1>3, <1>4
  <2>2. mem' = [mem EXCEPT ![p][g] = d]
    BY <1>7, <1>8
  <2> QED  BY <2>1, <2>2 DEF Promise!Store
<1> QED  BY <1>6, <1>9

\* At first every page is what the executable has, and no process has ended.
LEMMA MemoryInit == Init => MemoryInv /\ Promise!Init
<1> SUFFICES ASSUME Init PROVE MemoryInv /\ Promise!Init
  OBVIOUS
<1>1. /\ \A p \in Asid : pc[p] = "user" /\ ~Ended(p)
      /\ \A p \in Asid : \A g \in Page : Evictors(p, g) = {} /\ ~Pte(p, g).valid
  BY DEF Init, Ended, Evictors, Pte
<1>2. MemoryInv
  BY <1>1 DEF Init, MemoryInv, Faulting, Refilling, NOASID, Asid
<1>3. \A p \in Asid : \A g \in Page : Contents(p, g) = Image
  BY <1>1 DEF Init, Contents, Pte
<1>4. Promise!Init
  BY <1>1, <1>3 DEF Promise!Init
<1> QED  BY <1>2, <1>4
-----------------------------------------------------------------------------
(* The refinement *)

\* What holds in every state the pager reaches.
PagerInv == TypeOK /\ MutexInv /\ TLBCoherent /\ FramesInv /\ MemoryInv

\* Memory as processes see it: a store, a quiet step or the end of a process.
MemoryNext == QuietStep \/ \E p \in Asid : \E g \in Page, d \in Data : StoreStep(p, g, d)

\* Every step keeps memory in order and is a step of the abstract memory.
LEMMA MemoryStep ==
  ASSUME ExitsInOrder, FlashWorks, PagerInv, [Next]_vars
  PROVE  MemoryInv' /\ [MemoryNext]_vars
<1> USE DEF PagerInv
<1>1. MutualExclusion
  BY DEF MutexInv, InCritical, MutualExclusion, Held
<1>2. CASE \E p \in Asid : \E g \in Page, d \in Data : Store(p, g, d)
  <2>1. PICK p \in Asid : \E g \in Page, d \in Data : Store(p, g, d)
    BY <1>2
  <2>2. PICK g \in Page, d \in Data : Store(p, g, d)
    BY <2>1
  <2>3. MemoryInv' /\ Promise!Store(p, g, d)
    BY <2>2, StoreSeen
  <2> QED  BY <2>2, <2>3 DEF MemoryNext, StoreStep
<1>3. CASE ~\E p \in Asid : \E g \in Page, d \in Data : Store(p, g, d)
  <2>1. ASSUME NEW p \in Asid,
               \/ TakeTrap(p) \/ AskExit(p) \/ HaveMutex(p) \/ PickFrame(p) \/ TakeFree(p)
               \/ WriteBack(p) \/ Release(p) \/ TrapUnlocks(p) \/ Killed(p)
               \/ \E g \in Page : Fault(p, g)
        PROVE  MemoryInv' /\ UNCHANGED Promise!vars
    BY <2>1, UnseenSteps
  <2>2. ASSUME NEW p \in Asid,
               \/ Invalidate(p) \/ WriteDone(p) \/ ReadDone(p) \/ UpdateTable(p) \/ Validate(p)
        PROVE  MemoryInv' /\ UNCHANGED Promise!vars
    BY <1>1, <2>2, InvalidateUnseen, WriteDoneUnseen, ReadDoneUnseen, UpdateTableUnseen,
       ValidateUnseen
  <2>3. ASSUME (\E p \in Asid : \E g \in Page : Refill(p, g)) \/ Mutex \/ UNCHANGED vars
        PROVE  MemoryInv' /\ UNCHANGED Promise!vars
    <3>1. UNCHANGED <<swapPoolTable, sup_privatePgTbl, storage, pc, locals>>
      BY <2>3 DEF Refill, Mutex, Listen, Give, TakeBack, vars, table, storage, locals
    <3> QED  BY <3>1, MemoryQuiet
  <2>4. ASSUME NEW p \in Asid, TrapFrees(p) \/ SSTTerminates(p)
        PROVE  MemoryInv' /\ Promise!End(p)
    BY <2>4, FreeFramesEnds
  <2>5. MemoryInv' /\ (UNCHANGED Promise!vars \/ \E p \in Asid : Promise!End(p))
    BY <1>3, <2>1, <2>2, <2>3, <2>4 DEF Next, UserStep, InPager, Ends, Stopped
  <2> QED  BY <1>3, <2>5 DEF MemoryNext, QuietStep
<1> QED  BY <1>2, <1>3

\* The pager gives every process the private memory VirtualMemory promises, however
\* faults, evictions, refills of the TLB and traps of the processes interleave: what
\* a process stored last is what it has, wherever the pager keeps it.
THEOREM PagerImplementsVirtualMemory ==
  ASSUME ExitsInOrder, FlashWorks
  PROVE  Spec => ImplementsVirtualMemory
<1>1. Init => PagerInv /\ Promise!Init
  <2>1. Init => TLBCoherent
    BY DEF Init, TLBCoherent
  <2> QED  BY <2>1, TypeInit, MutexInit, FramesInit, MemoryInit DEF PagerInv
<1>2. PagerInv /\ [Next]_vars => PagerInv'
  <2>1. PagerInv => MutualExclusion
    BY DEF PagerInv, MutexInv, InCritical, MutualExclusion, Held
  <2> QED  BY <2>1, TypeStep, MutexStep, TLBStep, FramesStep, MemoryStep DEF PagerInv
<1>3. PagerInv /\ [Next]_vars => [MemoryNext]_vars
  BY MemoryStep
<1>4. Spec => Promise!Init /\ [][MemoryNext]_vars
  BY <1>1, <1>2, <1>3, PTL DEF Spec
<1> QED  BY <1>4 DEF ImplementsVirtualMemory, MemoryNext
=============================================================================
