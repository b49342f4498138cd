-------------------------------- MODULE Pager --------------------------------
(***************************************************************************)
(* Demand paging of the support level: the Pager of each user process, the *)
(* swap pool they share, the process that guards it (the swap mutex), the  *)
(* program trap handler and the end of a user process through its SST.     *)
(*                                                                         *)
(* A step is what a process does between two accesses to what it shares    *)
(* with others; messages to the mutex process are delivered as the nucleus *)
(* promises.  A user process is named by its asid.                         *)
(***************************************************************************)
EXTENDS Integers, Sequences, FiniteSets, SequencesExt

CONSTANTS
  UPROCMAX,    \* user processes, with asids 1..UPROCMAX
  POOLSIZE,    \* frames of the swap pool
  Page,        \* pages of each process
  Writable,    \* those a program stores to (it does not store to its text)
  Data,        \* contents of a page
  TLBSIZE,     \* entries of the TLB
  Image,       \* the contents of a page of the executable
  Behaviour,   \* what may happen in this instance
  Orderly      \* TRUE: user processes exit in the order of their asids

Asid   == 1..UPROCMAX
Frame  == 0..POOLSIZE - 1
NOASID == -1

ASSUME PagerAssumption ==
  /\ UPROCMAX \in Nat /\ POOLSIZE \in Nat \ {0} /\ TLBSIZE \in Nat \ {0}
  /\ Page # {} /\ Writable \subseteq Page
  /\ Image \in Data
  /\ Behaviour \subseteq {"TRAP", "EXIT", "READERROR", "WRITEERROR"}
  /\ Orderly \in BOOLEAN

VARIABLES
  swapPoolTable,     \* of each frame, the asid and the page it holds
  sup_privatePgTbl,  \* of each process and page, the V bit and the frame
  tlb,               \* the cached copy of a page table entry, or Uncached
  counter,           \* pick_frame()'s static counter (mod POOLSIZE, from 0 on)
  ram,               \* the contents of each frame
  flash,             \* the backing store of each process
  inbox,             \* the mutex process' messages, by sender
  server,            \* what the mutex process does, and for whom
  mutexRecv,         \* the process it granted the mutex last
  granted,           \* processes with its message in their inbox
  pc,                \* where each process is
  page, frame,       \* p and victimizedPgNo of pager()
  target,            \* the owner of the page being written back
  mode               \* "run", or "broken" after a wild memory access

table   == <<swapPoolTable, sup_privatePgTbl, tlb>>
storage == <<ram, flash>>
mutexes == <<inbox, server, mutexRecv, granted>>
locals  == <<page, frame, target>>
vars    == <<swapPoolTable, sup_privatePgTbl, tlb, counter, ram, flash, inbox,
             server, mutexRecv, granted, pc, page, frame, target, mode>>

Uncached == [valid |-> FALSE, frame |-> NOASID]
Entry    == [valid : BOOLEAN, frame : Frame]
Owner    == [sw_asid : Asid \cup {NOASID}, sw_pageNo : Page]
AnyPage  == CHOOSE g \in Page : TRUE

\* Between the grant of the mutex and its release.
Critical == {"pick", "check", "write", "writing", "lost", "reading", "update",
             "validate", "release"}
Location == Critical \cup {"user", "wait", "trap", "unlock", "exit", "kill", "dead"}
Ended(p) == pc[p] \in {"unlock", "kill", "dead"}

Init ==
  /\ swapPoolTable = [f \in Frame |-> [sw_asid |-> NOASID, sw_pageNo |-> AnyPage]]
  /\ sup_privatePgTbl = [p \in Asid |-> [g \in Page |-> [valid |-> FALSE, frame |-> 0]]]
  /\ tlb = [p \in Asid |-> [g \in Page |-> Uncached]]
  /\ counter = -1
  /\ ram = [f \in Frame |-> Image]
  /\ flash = [p \in Asid |-> [g \in Page |-> Image]]
  /\ inbox = <<>>
  /\ server = [at |-> "listen", who |-> NOASID]
  /\ mutexRecv = NOASID
  /\ granted = {}
  /\ pc = [p \in Asid |-> "user"]
  /\ page = [p \in Asid |-> AnyPage]
  /\ frame = [p \in Asid |-> 0]
  /\ target = [p \in Asid |-> <<p, AnyPage>>]
  /\ mode = "run"

\* Process p moves on.
Goes(p, from, to) ==
  mode = "run" /\ pc[p] = from /\ pc' = [pc EXCEPT ![p] = to] /\ UNCHANGED mode
-----------------------------------------------------------------------------
(* A user process at work *)

\* A store through the TLB.
Store(p, g, d) ==
  /\ mode = "run" /\ pc[p] = "user" /\ g \in Writable /\ tlb[p][g].valid
  /\ ram' = [ram EXCEPT ![tlb[p][g].frame] = d]
  /\ UNCHANGED <<table, counter, flash, mutexes, pc, locals, mode>>

\* uTLB_RefillHandler(): TLBWR writes the entry over any other, or a free one.
Cached == {e \in Asid \X Page : tlb[e[1]][e[2]] # Uncached}
Refill(p, g) ==
  /\ mode = "run" /\ pc[p] = "user" /\ tlb[p][g] = Uncached
  /\ \E a \in Asid, h \in Page :
       /\ Cardinality(Cached) = TLBSIZE => tlb[a][h] # Uncached
       /\ tlb' = [[tlb EXCEPT ![a][h] = Uncached] EXCEPT ![p][g] = sup_privatePgTbl[p][g]]
  /\ UNCHANGED <<swapPoolTable, sup_privatePgTbl, counter, storage, mutexes, pc,
                 locals, mode>>

\* A TLB-invalid exception passes up to pager(), which asks for the mutex.
Fault(p, g) ==
  /\ tlb[p][g] # Uncached /\ ~tlb[p][g].valid
  /\ Goes(p, "user", "wait")
  /\ page' = [page EXCEPT ![p] = g]
  /\ inbox' = Append(inbox, p)
  /\ UNCHANGED <<table, counter, storage, server, mutexRecv, granted, frame, target>>

\* Any other exception passes up to programTrapHandler().
TakeTrap(p) ==
  /\ "TRAP" \in Behaviour /\ Goes(p, "user", "trap")
  /\ UNCHANGED <<table, counter, storage, mutexes, locals>>

\* The process asks its SST for TERMINATE.
AskExit(p) ==
  /\ "EXIT" \in Behaviour
  /\ Orderly => \A q \in 1..(p - 1) : Ended(q)
  /\ Goes(p, "user", "exit")
  /\ UNCHANGED <<table, counter, storage, mutexes, locals>>
-----------------------------------------------------------------------------
(* The swap mutex *)

\* The message of the mutex process has come.
HaveMutex(p) ==
  /\ p \in granted
  /\ Goes(p, "wait", "pick")
  /\ granted' = granted \ {p}
  /\ UNCHANGED <<table, counter, storage, inbox, server, mutexRecv, locals>>

\* mutex(): any message is a request, ...
Listen ==
  /\ server.at = "listen" /\ inbox # <<>>
  /\ server' = [at |-> "give", who |-> Head(inbox)]
  /\ inbox' = Tail(inbox)
  /\ UNCHANGED <<table, counter, storage, mutexRecv, granted, pc, locals, mode>>

\* ... its sender gets the mutex, if it still exists, ...
Give ==
  /\ server.at = "give"
  /\ mutexRecv' = server.who
  /\ granted' = granted \cup {p \in {server.who} : pc[p] # "dead"}
  /\ server' = [server EXCEPT !.at = "held"]
  /\ UNCHANGED <<table, counter, storage, inbox, pc, locals, mode>>

\* ... and the next message of that process is the release.
TakeBack_Any ==
  /\ server.at = "held" /\ inbox # <<>>
  /\ inbox' = Tail(inbox)
  /\ server' = [at |-> "listen", who |-> NOASID]
  /\ UNCHANGED <<table, counter, storage, mutexRecv, granted, pc, locals, mode>>
TakeBack ==
  /\ server.at = "held"
  /\ \E i \in DOMAIN inbox :
       /\ inbox[i] = server.who /\ \A j \in 1..(i - 1) : inbox[j] # server.who
       /\ inbox' = RemoveAt(inbox, i)
  /\ server' = [at |-> "listen", who |-> NOASID]
  /\ UNCHANGED <<table, counter, storage, mutexRecv, granted, pc, locals, mode>>
-----------------------------------------------------------------------------
(* pager() *)

isFrameFree(f) == swapPoolTable[f].sw_asid = NOASID
FreeFrames     == {f \in Frame : isFrameFree(f)}

\* pick_frame(): the first free frame, or counter++ % POOLSIZE.
Candidate ==
  IF FreeFrames # {} THEN Min(FreeFrames) ELSE counter
NextCounter_Unbounded == counter + 1
NextCounter ==
  IF FreeFrames # {} THEN counter
  ELSE IF counter = -1 THEN 0 ELSE (counter + 1) % POOLSIZE

\* An index of -1 is no frame: the words before the table give a wild owner and
\* page table entry.  The access traps, or damages memory.
PickFrame(p) ==
  /\ counter' = NextCounter
  /\ \/ /\ Candidate # -1
        /\ Goes(p, "pick", "check")
        /\ frame' = [frame EXCEPT ![p] = Candidate]
     \/ /\ Candidate = -1
        /\ Goes(p, "pick", "trap")
        /\ UNCHANGED frame
     \/ /\ Candidate = -1
        /\ mode = "run" /\ pc[p] = "pick" /\ mode' = "broken"
        /\ UNCHANGED <<pc, frame>>
  /\ UNCHANGED <<table, storage, mutexes, page, target>>

\* updateTLB(): an entry that is cached is replaced.
updateTLB_Never(p, g, pte) == tlb
updateTLB(p, g, pte) ==
  IF tlb[p][g] = Uncached THEN tlb ELSE [tlb EXCEPT ![p][g] = pte]

\* An occupied frame's page is invalidated, with interrupts off.
TakeFree(p) ==
  /\ isFrameFree(frame[p])
  /\ Goes(p, "check", "reading")
  /\ UNCHANGED <<table, counter, storage, mutexes, locals>>

Invalidate(p) ==
  /\ ~isFrameFree(frame[p])
  /\ Goes(p, "check", "write")
  /\ LET victim == swapPoolTable[frame[p]]
         pte == [sup_privatePgTbl[victim.sw_asid][victim.sw_pageNo] EXCEPT !.valid = FALSE] IN
       /\ sup_privatePgTbl' =
            [sup_privatePgTbl EXCEPT ![victim.sw_asid][victim.sw_pageNo] = pte]
       /\ tlb' = updateTLB(victim.sw_asid, victim.sw_pageNo, pte)
  /\ UNCHANGED <<swapPoolTable, counter, storage, mutexes, locals>>

\* flashOp(spte->sw_asid, ...): the owner is read again.  If it has ended in the
\* meantime the command goes to no flash device, and no answer comes.
WriteBack(p) ==
  LET victim == swapPoolTable[frame[p]] IN
    /\ \/ victim.sw_asid = NOASID /\ Goes(p, "write", "lost") /\ UNCHANGED target
       \/ /\ victim.sw_asid # NOASID /\ Goes(p, "write", "writing")
          /\ target' = [target EXCEPT ![p] = <<victim.sw_asid, victim.sw_pageNo>>]
    /\ UNCHANGED <<table, counter, storage, mutexes, page, frame>>

\* The flash device has read the frame, and the frame is filled next.
Written_Nothing(p) == UNCHANGED flash
Written(p) == flash' = [flash EXCEPT ![target[p][1]][target[p][2]] = ram[frame[p]]]

WriteDone(p) ==
  /\ \/ Goes(p, "writing", "reading") /\ Written(p)
     \/ "WRITEERROR" \in Behaviour /\ Goes(p, "writing", "trap") /\ UNCHANGED flash
  /\ UNCHANGED <<table, counter, ram, mutexes, locals>>

ReadDone(p) ==
  /\ \/ /\ Goes(p, "reading", "update")
        /\ ram' = [ram EXCEPT ![frame[p]] = flash[p][page[p]]]
     \/ "READERROR" \in Behaviour /\ Goes(p, "reading", "trap") /\ UNCHANGED ram
  /\ UNCHANGED <<table, counter, flash, mutexes, locals>>

UpdateTable(p) ==
  /\ Goes(p, "update", "validate")
  /\ swapPoolTable' = [swapPoolTable EXCEPT ![frame[p]] =
                         [sw_asid |-> p, sw_pageNo |-> page[p]]]
  /\ UNCHANGED <<sup_privatePgTbl, tlb, counter, storage, mutexes, locals>>

\* The process' own entry becomes valid, with interrupts off.
Validate(p) ==
  LET pte == [valid |-> TRUE, frame |-> frame[p]] IN
    /\ Goes(p, "validate", "release")
    /\ sup_privatePgTbl' = [sup_privatePgTbl EXCEPT ![p][page[p]] = pte]
    /\ tlb' = updateTLB(p, page[p], pte)
    /\ UNCHANGED <<swapPoolTable, counter, storage, mutexes, locals>>

\* LDST: the access is tried again; the pager's locals are gone.
Forget(p) ==
  /\ page' = [page EXCEPT ![p] = AnyPage]
  /\ frame' = [frame EXCEPT ![p] = 0]
  /\ target' = [target EXCEPT ![p] = <<p, AnyPage>>]

Unlock_Kept(p) == UNCHANGED inbox
Unlock(p) == inbox' = Append(inbox, p)

Release(p) ==
  /\ Goes(p, "release", "user")
  /\ Unlock(p) /\ Forget(p)
  /\ UNCHANGED <<table, counter, storage, server, mutexRecv, granted>>
-----------------------------------------------------------------------------
(* The end of a process *)

FreeFramesOf_Any(a) ==
  swapPoolTable' = [f \in Frame |-> [swapPoolTable[f] EXCEPT !.sw_asid = NOASID]]
FreeFramesOf(a) ==
  swapPoolTable' = [f \in Frame |->
    IF swapPoolTable[f].sw_asid = a THEN [swapPoolTable[f] EXCEPT !.sw_asid = NOASID]
                                    ELSE swapPoolTable[f]]

\* programTrapHandler(): free the frames, ...
TrapFrees(p) ==
  /\ Goes(p, "trap", "unlock")
  /\ FreeFramesOf(p)
  /\ UNCHANGED <<sup_privatePgTbl, tlb, counter, storage, mutexes, locals>>

\* ... release the mutex if it was given to this process last, ...
TrapUnlocks(p) ==
  /\ Goes(p, "unlock", "kill")
  /\ IF mutexRecv = p THEN Unlock(p) ELSE UNCHANGED inbox
  /\ UNCHANGED <<table, counter, storage, server, mutexRecv, granted, locals>>

\* ... and ask the SSI to terminate the caller.
Killed(p) ==
  /\ Goes(p, "kill", "dead")
  /\ granted' = granted \ {p}
  /\ Forget(p)
  /\ UNCHANGED <<table, counter, storage, inbox, server, mutexRecv>>

\* terminate(asid) of the SST, which counts asids from 0.
SSTTerminates(p) ==
  /\ Goes(p, "exit", "kill")
  /\ FreeFramesOf(p - 1)
  /\ UNCHANGED <<sup_privatePgTbl, tlb, counter, storage, mutexes, locals>>
-----------------------------------------------------------------------------
InPager(p) ==
  \/ HaveMutex(p) \/ PickFrame(p) \/ TakeFree(p) \/ Invalidate(p) \/ WriteBack(p)
  \/ WriteDone(p) \/ ReadDone(p) \/ UpdateTable(p) \/ Validate(p) \/ Release(p)

Ends(p) == TrapFrees(p) \/ TrapUnlocks(p) \/ Killed(p) \/ SSTTerminates(p)

UserStep(p) ==
  \/ \E g \in Page : Refill(p, g) \/ Fault(p, g) \/ \E d \in Data : Store(p, g, d)
  \/ TakeTrap(p) \/ AskExit(p)

Mutex == mode = "run" /\ (Listen \/ Give \/ TakeBack)

\* Nothing goes on: every process has ended or waits for ever.
Stopped ==
  /\ mode = "broken" \/ \A p \in Asid : pc[p] \in {"dead", "wait", "lost"}
  /\ UNCHANGED vars

Next ==
  \/ \E p \in Asid : UserStep(p) \/ InPager(p) \/ Ends(p)
  \/ Mutex
  \/ Stopped

Spec == Init /\ [][Next]_vars

\* The nucleus dispatches every ready process, and every flash operation ends.
Fairness ==
  /\ \A p \in Asid : WF_vars(InPager(p)) /\ WF_vars(Ends(p))
  /\ WF_vars(Mutex)

FairSpec == Spec /\ Fairness
-----------------------------------------------------------------------------
(* Properties *)

\* Every variable has the type of the C object it stands for; what pick_frame()
\* gives an evictor is an index of the pool.
TypeOK ==
  /\ swapPoolTable \in [Frame -> Owner]
  /\ sup_privatePgTbl \in [Asid -> [Page -> Entry]]
  /\ tlb \in [Asid -> [Page -> Entry \cup {Uncached}]]
  /\ counter \in -1..POOLSIZE - 1
  /\ ram \in [Frame -> Data]
  /\ flash \in [Asid -> [Page -> Data]]
  /\ inbox \in Seq(Asid)
  /\ server \in [at : {"listen"}, who : {NOASID}] \cup [at : {"give", "held"}, who : Asid]
  /\ mutexRecv \in Asid \cup {NOASID}
  /\ granted \in SUBSET Asid
  /\ pc \in [Asid -> Location]
  /\ page \in [Asid -> Page]
  /\ frame \in [Asid -> Frame]
  /\ target \in [Asid -> Asid \X Page]
  /\ mode \in {"run", "broken"}

\* The swap pool is used by one pager at a time, the one the mutex process
\* waits for.
MutualExclusion ==
  \A p \in Asid : pc[p] \in Critical =>
    /\ server = [at |-> "held", who |-> p]
    /\ \A q \in Asid : pc[q] \in Critical => q = p

\* A frame is nobody else's: where a valid entry of a process' page table leads
\* is, for the swap pool table, that very page.
FramesOwned ==
  \A p \in Asid : \A g \in Page :
    ~Ended(p) /\ sup_privatePgTbl[p][g].valid =>
      swapPoolTable[sup_privatePgTbl[p][g].frame] = [sw_asid |-> p, sw_pageNo |-> g]

\* The TLB never lags behind the page tables.
TLBCoherent ==
  \A p \in Asid : \A g \in Page :
    tlb[p][g] # Uncached => tlb[p][g] = sup_privatePgTbl[p][g]

\* The contents of a page: its frame, until its write-back is done; or its
\* block of the backing store.
Evictors(p, g) ==
  {q \in Asid :
     \/ pc[q] = "write" /\ swapPoolTable[frame[q]] = [sw_asid |-> p, sw_pageNo |-> g]
     \/ pc[q] = "writing" /\ target[q] = <<p, g>>}
Contents(p, g) ==
  IF Ended(p) THEN Image
  ELSE IF sup_privatePgTbl[p][g].valid THEN ram[sup_privatePgTbl[p][g].frame]
  ELSE IF Evictors(p, g) # {} THEN ram[frame[CHOOSE q \in Evictors(p, g) : TRUE]]
  ELSE flash[p][g]

Promise == INSTANCE VirtualMemory WITH
  Process <- Asid,
  mem     <- [p \in Asid |-> [g \in Page |-> Contents(p, g)]],
  ended   <- {p \in Asid : Ended(p)}

\* The pager implements private memories, step by step: the store of a process
\* is that very store, the end of a process is its end, and page faults, evictions,
\* refills and what other processes do change nothing of what it has in memory.
StoreStep(p, g, d) == Store(p, g, d) /\ Promise!Store(p, g, d)
QuietStep ==
  /\ ~\E p \in Asid : \E g \in Page, d \in Data : Store(p, g, d)
  /\ UNCHANGED Promise!vars \/ \E p \in Asid : Promise!End(p)
ImplementsVirtualMemory ==
  /\ Promise!Init
  /\ [][QuietStep \/ \E p \in Asid : \E g \in Page, d \in Data : StoreStep(p, g, d)]_vars

\* The mutex process waits for the release of a process that will not send it.
Abandoned == /\ server.at = "held" /\ pc[server.who] = "dead"
             /\ server.who \notin ToSet(inbox)
Wedged    == Abandoned \/ (server.at = "held" /\ pc[server.who] = "lost")

\* Every page fault ends, in the access or in the end of the process, unless
\* the mutex is wedged.
FaultsServed ==
  \A p \in Asid :
    pc[p] = "wait" ~> pc[p] \in {"user", "dead"} \/ Wedged \/ mode = "broken"
-----------------------------------------------------------------------------
(* What a comment says of the code and it does not do *)

\* sysSupport.c:52-54: a process that dies does not leave the mutex locked.
NotLockedIndefinitely == ~Abandoned
=============================================================================
