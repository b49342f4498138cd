# microPandOS in TLA+

A verification development kept beside microPandOS, a three-level operating system
for the uMPS3 machine: queue manager (phase 1), nucleus (phase 2), support level
(phase 3). The modules are translated from the C source under `src/`; paths below are
relative to it. `PROJECT.json` maps every definition to its lines.

    tlc -workers 4 -config Calls.cfg MCNucleus.tla     # any run of PROJECT.json
    tlapm PagerProofs.tla                              # the proofs

## 1. Inventory

| component | state | operations | correct when |
|---|---|---|---|
| queue manager: `phase1/pcb.c`, `msg.c`, `listx.h` | PCB free list, queues of PCBs, process tree, message free list, an inbox per PCB | `allocPcb`, `freePcb`, `insertProcQ`, `removeProcQ`, `outProcQ`, `insertChild`, `removeChild`, `outChild`, `unlockPcbDevNo`, `allocMsg`, `freeMsg`, `pushMessage`, `popMessage` | a PCB is in one place, the tree is a tree, descriptors are neither lost nor used twice |
| nucleus start: `phase2/initial.c` | the nucleus' globals, the pass-up vector | `main`, `uTLB_RefillHandler` | the first state has the SSI running and the test process ready; a refill gives the current page table entry |
| scheduler: `scheduler.c` | ready queue, current process, process and soft-block counts | `scheduler` | round robin starves nobody; HALT, PANIC and WAIT are each the right verdict |
| exceptions: `exceptions.c` | inboxes, saved states | `send`, `recv`, `syscallHandler`, `passUpOrDie` | no wake-up is lost, a receiver gets a message it asked for |
| interrupts: `interrupts.c` | device queues, pseudo-clock queue, device registers | `PLTHandler`, `intervalTimerHandler`, `deviceHandler`, `getDeviceNo` | the status reaches the process that commanded the device; a preempted process goes on where it was |
| SSI: `ssi.c` | all of the above | create, terminate, DOIO, get time, wait for clock, support pointer, pid | each request is answered once, by its own answer; termination takes the whole progeny and nothing else |
| pager: `vmSupport.c`, `utils.c` | swap pool table, page tables, TLB, backing stores, the mutex process and its `mutexRecv` | `pager`, `pick_frame`, `updateTLB`, `flashOp`, `mutex`, `askMutex` | a process' memory is its own; one pager at a time; every fault ends |
| support exceptions: `sysSupport.c` | exception states in the support structures | `programTrapHandler`, `supSyscallHandler`, `supExceptionHandler` | a dying process gives back what it holds |
| SSTs: `sst.c` | the request each serves | `SST`, `SSTRequest`, `terminate`, `writePrinter`, `writeTerminal` | a user process and all that serves it end together |
| support start and shutdown: `initProc.c` | arrays of states, support structures, PCB pointers | `test`, `initUProc`, `initSupportStruct`, `initSST`, `initPeripheralProc` | the system halts when all user processes have ended |
| printer and terminal processes: `utils.c` | the string being printed | `printDevice` | characters in order, the SST woken once |
| the nucleus test: `p2test.c` | the PCB pointers it keeps, a flag per stage | some twenty processes that create, wake, wait for and kill each other, print, trap and inquire | its own checks hold and it ends in HALT |
| debug log `klog.c`, `p1test.c`, user programs `testers/` | - | - | environment |

**How they interact.** Everything is a message: a process asks the SSI or its SST with
SYS1 and waits with SYS2; devices and the clock answer in the SSI's name from the
interrupt handlers. The nucleus runs with interrupts masked from the exception to the
`LDST`; the SSI, the SSTs, the mutex process and the pagers are processes, run with
interrupts enabled, and can lose the CPU between any two instructions. They share memory:
the nucleus' globals with the SSI, the swap pool and page tables with all pagers, one
support structure with a user process, its SST, its printer and its terminal process.

**What is hard here.** Wake-ups against receives (`exceptions.c:57`); a request served while its
caller is still on the ready queue (`ssi.c:166`); interrupts completing in any order
(`pcb.c:282`); terminations of processes that are in a queue (`ssi.c:87`); counters a
verdict depends on (`scheduler.c:16`); the message pool running dry; frames that change
hands over three suspensions of a pager (`vmSupport.c:154-178`); a mutex whose protocol
does not distinguish a request from a release (`utils.c:24-32`). The whole list, with
lines and the properties that watch each, is in `PROJECT.json` under `hazards`.

## 2. Modules

| module | stands for |
|---|---|
| `ProcQueues` | the queue operations, on sequences |
| `Nucleus` | scheduler, SYS1/SYS2, interrupts and SSI over the phase 1 structures |
| `ListHeap` | `listx.h`, `pcb.c` and `msg.c` as memory: which `list_head` each `next` and `prev` points to |
| `LinkedLists` | these lists as phase 2 drives them |
| `AbstractLists` | abstract: the sequences that the lists stand for |
| `ServiceCalls` | abstract: what the SSI promises a process |
| `NucleusRefinement` | the mapping from `Nucleus` to `ServiceCalls` |
| `Pager` | page faults, the swap pool and its mutex, the TLB, the ends of a user process |
| `VirtualMemory` | abstract: what the pager promises a process |
| `Kernel` | the nucleus under given programs, over the lists of `ListHeap` |
| `Support` | phase 3 as programs of `Kernel`: `test()`, SSTs, mutex, printer, terminal and user processes |
| `UserService` | abstract: what the support level promises user processes |
| `Phase2Test` | `p2test.c` as programs of `Kernel` |
| `MCLists`, `MCNucleus`, `MCPager`, `MCSupport`, `MCPhase2Test` | the instances for TLC |
| `ListFacts`, `QueueFacts` | lemmas and theorems about rings of pointers and the loops over them; about queues of any length and recursion over the naturals |
| `LinkedListsProofs` | theorems on `LinkedLists`: the lists stay whole and agree with the tree |
| `NucleusProofs`, `NucleusPlaces` | theorems on `Nucleus`: types and wake-ups; places, counters, verdicts, descriptors |
| `NucleusCalls`, `NucleusRules` | what each step of `Nucleus` does to the calls in progress; the theorems under the discipline |
| `PagerProofs` | theorems on `Pager`: types, the mutex, the TLB; frames and the refinement of `VirtualMemory` |

`Nucleus` asks what processes of any kind may meet and takes sequences for lists; `Kernel` asks what given programs do, and has the
pointers. The first is for the nucleus' own promises and for proofs, the second for the programs that come with it: a broken list is
not an end there but goes on as the stores leave it, which is what shows in a run like `PromptDevice` what the break leads to.

### ListHeap, LinkedLists, AbstractLists

A `list_head` is a field of a PCB (`p_list`, `p_child`, `p_sib`, `msg_inbox`), of a message (`m_list`), or a variable.
`Heap` is what all of them point to; `list_add` and `list_del` are the stores of
`__list_add` and `__list_del` in their order, and an element that is unlinked keeps its pointers. What lies on top
(`allocPcb` to `popMessage`) is composed of these two as in the C code, with its redundancies: `freeMsg()` unlinks a message
a second time, `terminateProcess()` unlinks a child with `removeChild()` and, after its whole progeny has been freed,
with `outChild()` once more; `allocPcb()` starts a new inbox whatever is in the old one.

`LinkedLists` has one action per handler and service, reduced to what it does to lists; a step is the whole handler. Queues, inboxes, children and pools are read off
the pointers, and `ImplementsSequences` says that each action does to them what its counterpart of `AbstractLists` says:
these are the sequences with which `Nucleus` works. The guards marked *Contract* are what `Nucleus` calls `NotBroken`: a destination not on
a device or clock queue, a message in the pool for each answer of a handler, victims that are neither ready nor on a device queue, a caller of
`wait4Clock()` that has given the CPU away. One device queue stands for the six.

### Nucleus

One step is one kernel entry, exception to `LDST`, or one request served by the SSI. What
a process does next is its *control* record; the running process' is `cpu` (the
registers), the others' is `p_s` (the state saved in the PCB), so saving and restoring states is
visible: `recv()` writes `p_s`, `scheduler()` loads it, `PLTHandler()` does neither. The
SSI is a process like the others, with a step for its receive, its service and its
reply. Process behaviour is an environment: `Behaviour` names which requests, messages,
traps and preemptions an instance allows, and everything allowed may happen at any time.

Data that no property tells apart is left out: register contents, CPU time, the payload
of messages between applications. Lists are sequences (`LinkedLists` shows that they may be), the process tree is `p_parent`, the message pool a
count. What a list operation *returns* is modelled by what the walk in the C code finds
(`FoundBlocked`, `Waiters`, `Precedes`).

A list operation outside its contract - linking a linked element, freeing a linked PCB,
using the NULL of an empty pool - corrupts intrusive lists in a way this level does
not describe: the step sets `mode = "broken"`, changes nothing else, and ends the behaviour. `NotBroken`
says it does not happen; other invariants talk about states up to there.

**Discipline.** The code does not check its callers, and undisciplined callers do break it
(section 5). With `Prudent = TRUE` processes keep the rules of the section "Discipline" of
the module: kill only what is not in a queue, send no message to a process inside an SSI
call, no more births than PCBs, no two operations on one device, no message when the pool is down to what the calls in
progress need. These are obligations of the callers that the code
leaves implicit; the theorems of `NucleusRules` show that they suffice. The run `Reckless`, `NucleusProofs` and
`NucleusPlaces` assume none of them (section 4 has the little that some of their theorems do assume).

### Pager

A step is what a process does between two accesses to what it shares with others:
the choice of a frame, the invalidation (interrupts off), each flash operation, the update of
the swap pool table, the validation (interrupts off), the release. `Behaviour` allows traps, exits and
flash errors. The nucleus is taken at its word here: messages are delivered in order and a preempted
process goes on where it was. The run `Preemption` shows that the second is not so; without it no user process
computes anything, and the pager's properties are worth having when it is put right.

- The mutex process is `server` (listening, giving to `who`, waiting for the release of `who`), its
  inbox the order of senders: like `mutex()`, the model does not know a request from a release.
- `counter` is `pick_frame()`'s static variable modulo POOLSIZE (the code lets it grow; only the remainder is used).
- `PickFrame` with index -1: in the instance of the machine the words before the table are some other
  variable; what the write through a wild `sw_pte` does is undefined, so the process traps or `mode` becomes "broken".
- `WriteBack` reads the owner again, as `flashOp(spte->sw_asid, ...)` does. With asid -1 the register is
  that of disk 6, which no configuration here installs: no answer comes (location "lost").
- The loops of `programTrapHandler()` and `terminate()` over the pool are one step; each iteration touches one
  entry, and a pager that runs in between only sees fewer free frames.
- The TLB holds at most TLBSIZE entries; TLBWR replaces any.

`Orderly = TRUE` lets user processes exit in the order of their asids: `terminate()` then frees the frames
of a neighbour that has already ended, and the rest of the design can be checked apart from that defect (without
the rule TLC finds `FramesOwned` violated in the same instance).

### Kernel

A process holds its program, how far that is (`stage`) and the kernel calls it makes next (`calls`); when it has made them all, the
program decides on the following ones from what it got last, as the C code does between two SYSCALLs. A step is a kernel entry
(`Syscall`, `deviceHandler`, `intervalTimerHandler`), a request served by the SSI, or a decision; interrupts may come between any two of
them, so also between the SSI's receive, its service and its answer. DOIO is two steps, because the caller is on
no queue in the middle of it and the command must come after it is on one again.

- `global` are the C variables that hold PCB pointers. A destination is read when the SYSCALL is executed, so a
  program that is too early uses NULL.
- Messages are sequences here, descriptors a count (`msgFree`, which loses what the code loses); PCBs and the tree are memory, and `Terminated` is the walk of
  `terminateProcess()` over it. `dead` remembers who has been freed since it was allocated.
- There is no PLT: `setPLT()` loads some 2^31 ticks (`ssi.c:225`) and no program here runs that long without a receive.
- A handler waits for a descriptor (`Pending`, `Ticks`): the case of an empty pool is `Nucleus'`, and in `Phase2` the pool is shown never to be empty.

### Support, UserService

`Support` adds the programs of phase 3: `test()` creates the mutex process, the SSTs, then printer and terminal
processes; each SST gets its support structure, creates its user process and serves it; a user process first faults
(`PageFault`: the calls of `pager()` for a free frame), then prints `Requests` strings by way of `supExceptionHandler()`, its SST and the device's process,
then asks for its end - with TERMINATE, which falls through into WRITEPRINTER, or with a service that does not exist. `printDevice()` is one DOIO per character.
`SSTEnded` is the body of the loop in `test()` that unlinks and frees an SST.

`UserService` knows users, what they asked to print and what came out. A request to print is answered when all is printed, characters come in order, and
when all users have ended the system halts, all under weak fairness. `ImplementsUserService` maps a user process' stage to it and compares outputs.

`Orderly = TRUE` makes a user that is ahead of its turn ask for the time until `test()` has collected the
SSTs before its own. This is a restriction of user programs that the code needs and does not state (run `Shutdown`).

### Phase2Test

Each process of `p2test.c` is a sequence of parts, each a sequence of calls; `SET` and `EXPECT` are the assignments and checks between
them. A failed check that prints ERROR and one that calls PANIC() both end the behaviour in "panic". Traps with a handler go on with the
handler's part (p5), those without one kill (p6, p7). A string is one character, and the terminal's status a success, as no device errs here; CPU times are not modelled, so p2's and p3's checks of them are left out.

`Prompt = FALSE` lets ticks and characters arrive only when all processes wait. On the machine it stands for a clock and a terminal that are
slower than what the CPU has left to do at that time; which of the two comes first is still free. The test relies on it (run `PromptDevice`).

In this run, too, `send()` damages a queue. print_term0() is called while the print process waits for the terminal, which links it into the ready queue as well
(`exceptions.c:29-30`); the head of the terminal's queue (`blockedDiskQueue`, which stands for all device queues) keeps pointing at it both ways for the rest of the test,
even when the queue ought to be empty. `OtherQueuesWhole` therefore leaves that queue out: with it the invariant fails. What the test lives by is `TerminalWakesPrint`: the
print process is the only one that ever waits there, so the search still meets it first, and unlinking it through the links it got from the ready queue does no harm, as that
queue is empty whenever the interrupt comes. With `Prompt = TRUE` this property fails, too: the ready queue loses processes.

## 3. Runs

Passing run of the queue manager (`MCLists`):

| run | instance | shows |
|---|---|---|
| `Lists` | 4 PCBs, 2 messages, 1 device, messages between the SSI and others (`Talk`), `Crowd` = 5 | under births, deaths of whole families, sends, receives, clock waits and device operations every ring is the same walked either way (`RingsWhole`), the sibling lists are `p_parent` (`TreeAgrees`), and the pointers implement the sequences (`ImplementsSequences`) |

Passing runs of the nucleus (`MCNucleus`):

| run | instance | shows |
|---|---|---|
| `Calls` | 4 PCBs, 2 disks on one line, 3 messages | with one descriptor per client, each call is answered once and by its own answer (`OneAnswerPerCall`), a process on a device queue has an operation or an interrupt to wait for (`WaiterHasOperation`), descriptors are conserved, nothing ever stops; every ready process is dispatched (`EventuallyDispatched`), `Nucleus` implements `ServiceCalls` step by step, and every call returns (`CallsReturn`) |
| `Lives` | 4 PCBs, no device, 6 messages | births, deaths, kills, traps, invalid services and messages: no orphans, right verdicts, PANIC only in a real deadlock, and the last client's end halts the system |
| `Reckless` | 3 PCBs, one terminal transmitter (number 7), 2 messages | no discipline: types, no lost wake-up, one place per PCB, accurate counters, right verdicts, no orphans, until the first broken list |

Passing runs of the pager (`MCPager`):

| run | instance | shows |
|---|---|---|
| `Paging` | 3 processes of 1 page, 1 frame, 2 TLB entries, traps, exits, read and write errors | one pager at a time, frames owned, TLB coherent; every fault ends in the access or in the process' death, unless the mutex is wedged |
| `Memory` | 3 processes of 2 pages (one written, with contents 0 and 1), 1 frame, 2 TLB entries, exits | `Pager` implements `VirtualMemory`, step by step: a process' store is that very store of the abstract memory, the end of a process is its end, and no other step changes any memory |

Passing run of the support level (`MCSupport`):

| run | instance | shows |
|---|---|---|
| `Support` | `UPROCMAX` = 2 (12 PCBs, 6 devices), each user prints one string of two characters on either device, one ends with TERMINATE, the other with an unknown service | nobody sends to a process that has not been created (`PeripheralsReady`), no freed process is dispatched (`DeadStayDead`), the SSI kills nobody that is ready (`KillsOnlySleepers`), and the support level implements `UserService`, liveness included |

Passing run of the nucleus test (`MCPhase2Test`):

| run | instance | shows |
|---|---|---|
| `Phase2` | the whole test with the code's own numbers: ten clock waits, 50 messages; 14 PCBs | every check of the test holds (`TestPasses`), the pool outlasts the descriptors it loses (`PoolLasts`), the ready queue, the clock queue and the free list are the same walked either way (`OtherQueuesWhole`), the terminal's interrupt finds the print process and loses nobody (`TerminalWakesPrint`), and the test halts (`TestEnds`) |

**Bounds.** In `Lists` four PCBs make a chain of a grandparent, a parent and a child, two siblings, and queues of three;
two messages make an inbox and a pool with a neighbour to corrupt. `Crowd` bounds births: PCBs in use and messages not lost are at most 5 when one more is born, so that
a full tree and a full pool are both met though not together. The PCBs other than the SSI and the first, and the messages, are symmetric: the tables' order is used in
`Init` only.

Three clients are the SSI's caller, one that waits and one that comes between; two
devices on one line are what the code has to tell apart by number. Number 7 on line 7 is
the one placement where the code's search finds a victim on a device queue, so counters can be tested
on terminations of blocked processes. `Calls` has exactly as many messages as clients, so that a
descriptor lost or held once too long shows. One frame for three processes makes the second and the third
fault evict, and the first eviction meets index -1, so a process is lost (or the machine) before the normal replacement
is seen: hence three processes and not two. One page each is enough where contents do not matter; `Memory` has a
page that is only read beside one that is written. (With a pool of exactly one frame C's `-1 % 1` would be 0; POOLSIZE is 16 in the code, and the instances keep its -1.) A TLB of two entries has evictions of other processes'
entries. Traps are left out of `Memory` (a late trap wedges the mutex, `Paging` covers it); write errors
are left out because a failed write-back really loses the victim's page.

Two users are the least with an order of endings and a user that starts while the other's devices
are not there yet; with a single string each, every service is in some behaviour last and in some first. Five
messages are never used up by two users. With eight users and a flash device that answers at once `PeripheralsReady` would fail: the first SST is served before `test()`
comes to `printerPcbs[0]` (`initProc.c:286-295`); on the machine a flash read takes far longer than that. With two users `test()` is done first in every order
of interrupts. In `Phase2` nothing is cut down but
the number of PCBs (14 of 50: the test never needs more), and 38 of the 50 descriptors would do.

**Deadlock** is checked in the runs of the nucleus and the pager: stopping is an explicit action (`Stopped`) whose guard says
when nothing can go on. `Lists` leaves it out: without the counters the scheduler's verdict is not there, and the system may end (HALT, PANIC) at any time.

**Fairness.** Nucleus: the CPU executes (`ProcessStep`), the interval timer, reloaded at every tick, fires, raised
interrupts are taken (they are enabled in every process and in WAIT), commanded devices
complete. Nothing is assumed of what processes want to do. Pager: the nucleus dispatches ready processes
(that is `EventuallyDispatched`), so a process in its handler goes on (`InPager`, `Ends`) and so does the mutex process;
flash operations end, with or without error. Kernel's programs: the CPU executes the running process, a device ends what it was told
to do, the clock ticks for those who wait. These are weak fairness with the guard of an action for its ENABLED, which is the same
where a running process can always go on (otherwise TLC reports a deadlock) and is quicker to evaluate.

`FaultsServed` has the escape `Wedged`: the code does have ways to lose the mutex (below), and
the property says that these are the only ones - a process waits for ever only if the holder is dead and its release
will not come, or if the holder's write-back went nowhere.

## 4. Proofs

`tlapm` checks these for every value of the constants allowed by `NucleusAssumption`,
`PagerAssumption` and `ListsAssumption`. Where a theorem assumes more, the assumption is in its statement, has a name, and is satisfied by the
instance of the run that checks the same property. With them, every invariant that the runs of the lists, the nucleus and the pager check, and the step refinements of
`ServiceCalls`, `VirtualMemory` and `AbstractLists`, hold for any number of processes, devices, messages, pages and frames.

**The nucleus, with no discipline** (`NucleusProofs`, `NucleusPlaces`)

| theorem | assumes | rests on |
|---|---|---|
| `TypeCorrect` | - | `TypeInv`: serving a request needs the types its sender gave it (a DOIO names a device, so `blockedOnDevice` stays in 0..7), and needs a running process; so messages are sound, saved controls are never the SSI's inner ones, and "run" implies a current process |
| `NoWakeupIsLost` | - | itself: only `recv()` lets the running process go without linking it, after it found no match; whatever adds to an inbox leaves the owner running or in a queue |
| `NobodyOrphaned` | - | itself: a victim's whole progeny is freed with it, a child is born to its caller, and a birth for a dead caller breaks the tree's list at once (`mode` "broken") |
| `EveryPcbInOnePlace` | `SSISpared` | `PlaceInv` (the lists share no PCB and hold none twice) and `SSIStands`: the SSI is on no device or clock queue, serves neither itself nor requests for its own end |
| `CountersAreAccurate` | `SSISpared` | the same: a counter is right after a termination only if who is counted off was in one place |
| `VerdictsAreSound` | `SSISpared` | `ModeInv`, what a mode says of the counters, with the counters |
| `PoolIsAccounted` | `NobodyLost` | `PoolWhole`: who is being served is alive, and so is whoever has a request in the SSI's inbox |

- `SSISpared`: nobody names the SSI in TERMPROCESS. With it `OnePlace` fails after six steps: `terminateProcess()` frees the running SSI.
- `NobodyLost`: no deaths and no messages between processes. The code does lose descriptors otherwise: those in the inbox of a dead process, those sent to one.

**The nucleus, with the discipline** (`NucleusCalls`, `NucleusRules`)

| theorem | assumes besides `Disciplined` | rests on |
|---|---|---|
| `EveryCallHasOneToken` | - | `CallInv`, `RuleInv` |
| `EveryWaiterHasOperation` | - | the same |
| `NothingBreaks` | `TerminalsWork` | the same, with `ErrorInv` (errors come where errors are allowed) |
| `SystemRunsOn` | `TerminalsWork`, `OnlyCalls` | the same, with `SteadyInv`: who is in a receive is in a call, and the first process lives |
| `NucleusImplementsServiceCalls` | `Asking` | the same, with `AskInv`: who is in a call has asked for something that is answered |

That a call has one token is not inductive. `CallInv` gives each client's call its phase - none, on the way, served, answered by the SSI, on its queue, answered, or departed when the caller
has asked for its own end - and says in each where the request, the SSI's control, the queues and the answer are, and that no client has two requests in the SSI's inbox, nor two answers in its own.
It is kept only because the rules are: a message that an empty pool refuses, a CREATEPROCESS that finds no PCB, or a
victim that is itself in a call would lose the token or leave it behind. `RuleInv` says what the rules are for:

- `PoolInv`: the pool has a descriptor for each client that may take one, and one more for each answer that will be lost with its receiver;
- `BirthInv`: a free PCB for each birth asked for;
- `DoomInv`: whoever is about to be killed besides its killer sleeps in a receive that is no call, and is its killer's child or below it. For this to last until the SSI gets to it, the tree has no cycle (`TreeInv`);
- `RestInv`: a process in a call is on the ready queue only with its answer in its inbox;
- `BusyInv`, `RivalInv`: a device somebody waits for has its command, and no two want the same.

For the refinement each phase is a state of `ServiceCalls` (`PhaseView`), and each step of `Nucleus` is a call, answers, a return, or invisible (`NextSeen`).

- `Disciplined`: `Prudent`, `SSISpared`, no preemption (which starts a process again where it last gave the CPU away, run `Preemption`, so also in the middle of a call), and
  a descriptor per client. `Calls` (with exactly so many) and `Lives` satisfy it.
- `TerminalsWork`: no device error on a terminal, after which `deviceHandler()` uses what it has not set (`interrupts.c:140`). Errors of other devices are allowed.
- `OnlyCalls`: nobody dies or receives outside calls; otherwise HALT and PANIC can be right.
- `Asking`: nobody asks for its own end, which is never answered.

**The pager** (`PagerProofs`)

| theorem | assumes | rests on |
|---|---|---|
| `PagerTypeCorrect` | - | itself; in particular the frame of a process in its critical section is an index of the pool |
| `OnePagerAtATime` | - | `MutexInv`, below |
| `TLBNeverLags` | - | itself, with the types |
| `FramesAreOwned` | `ExitsInOrder` | `FramesInv`: while a pager refills a frame no live process reaches it, and before its own page becomes valid the swap pool table says so |
| `PagerImplementsVirtualMemory` | `ExitsInOrder`, `FlashWorks` | `MemoryInv`: the swap pool table is never wrong of a live process but for the frame being refilled; a page that faults or is being written back is not valid; what has been read stays what it was read from |

Mutual exclusion is not inductive; the argument counts the messages of one
process in the mutex process' inbox. `MutexInv` says, for each process: inside, the server waits for it and nothing of it is under
way; at work, at most its last release is under way, and then the server waits for it; waiting, at most this release and one request behind it. It holds
in spite of the spurious releases of `programTrapHandler()`, because who sends one never comes back.

- `ExitsInOrder`: user processes end with TERMINATE in the order of their asids, or not at all: `terminate()` frees the frames of the asid below (`sst.c:19`). Without it `FramesOwned` fails.
- `FlashWorks`: no flash operation fails. After a failed write the page is read back as it was before; after a failed read the swap pool table names a page that is elsewhere (section 5).
  `FramesAreOwned` holds with errors.

**The lists** (`ListFacts`, `LinkedListsProofs`)

| theorem | assumes | rests on |
|---|---|---|
| `AddKeepsRings`, `DeleteKeepsRings`, `OtherRingsUntouched` | - | the stores of `list_add_tail` and `list_del`, on a set of list heads that is a union of whole rings, whatever is not linked |
| `ReceivedIsFreed`, `ChildUnlinkedOnce` | - | the two redundant unlinks are harmless: `freeMsg()`'s in any memory, `outChild()`'s because nothing in between touches the ring of the child's siblings |
| `ListsAreWalked` | - | `Holds`, below: `list_for_each()` and its reverse meet the elements of a list and come back |
| `AlwaysSound` | - | itself: `IInv`, below |
| `RingsAlwaysWhole`, `TreeAlwaysAgrees` | - | `IInv` |
| `ListsImplementSequences` | - | `IInv`, and for each handler and service the sequences its lists are seen as |

*From pointers to sequences.* `Holds(h, H, s)` says that memory h holds the family of sequences s at the heads H: each is a ring and nothing is
linked twice. `Stands` adds that each list has its own kind of elements, so that a PCB can be in a queue and among its siblings at once. Each
operation of `pcb.c` and `msg.c` is a lemma of the form "if h stands for s, what the operation returns stands for the sequences its comment promises"
(`QueueInserted`, `QueueRemoved`, `MessageFreed`, `ChildInserted`, ...); a walk is read once, in `ListRead`. `list_add()` is
`list_add_tail()` seen from behind (`MirrorHolds`). What is in no list keeps its old pointers, and nothing is said of where these lead.

*Recursion.* The library's induction theorems take an operator as a parameter. `NatInductive` states induction for a set instead (from the least element of
its complement), `RecursionExists` that a recursion over the naturals defines a function, `LevelsClose` that closing a finite set level by
level ends. The loops of `initPcbs()`, of `intervalTimerHandler()` and of `terminateProcess()`, and `Walk` itself, go through these.

*`terminateProcess()`.* `Killing` is its loop invariant: the stack is a path from the victim down, what is above the top is unlinked from its siblings though
`p_parent` and `p_sib` still say otherwise, what has been freed was below the victim, and the stale `p_sib` of each PCB on the stack still has the
pointers with which `removeChild()` left it (`Stale`) - so `outChild()`, the second unlink, stores what is there already. It ends because each step
pushes or pops, and each PCB is pushed once (`TerminatedAre`).

*`IInv`.* Memory stands for what its walks find; the lists of children are `p_parent` turned round (`Tree`); going from parent to parent leaves every set
of PCBs (`Acyclic`, without which a termination need not end); no free PCB has a parent or a child, the SSI neither is free nor has a parent; the running process is in no queue; `m_sender` names PCBs.
`RingsWhole` and `TreeAgrees` are not inductive: neither says that an element is in one list only, nor that the running process can be linked.

*The refinement.* What `AbstractLists` sees are the owners of the elements (`QueuesOf`, `ChildrenOf`, `InboxesOf`, `PoolOf`). The lemmas `...Shown` say what each
change of the lists is seen as, and one lemma `...Matches` for each action that the handler is its operation. Three of them take an argument. `intervalTimerHandler()` wakes up one process
at a time, `AbstractLists` all of them at once: `Woken` is what holds after some, the clock queue being what is left of it. `outProcQ()` removes from one queue, `AbstractLists` from all: the PCB
was in no other (`IInv`). `terminateProcess()` pops PCBs off its stack, `AbstractLists` frees the descendants by `p_parent`: both are the least
set with the victim that is closed under children (`DescendantsAre`, `OneLineage`), and the order in which the stack gives them is one of its permutations.

`QueueFacts` has what the operators on sequences return (`Without`, `RemoveAt`, `Append`, concatenation), for any length:
the ranks of the kept positions are a bijection onto 1..n, lists without repetitions stay so, the length of one is the number of its elements, and so on.

**Model-checked only.** Liveness under fairness is outside the prover's reach: `EventuallyDispatched`, `CallsReturn`, `AloneHalts`, `FaultsServed`, `TestEnds`, and
the liveness in `UserService`. The programs of `Kernel` are finite, so that TLC sees all of what they do, and an invariant of their lists would be one per program:
`PeripheralsReady`, `DeadStayDead`, `KillsOnlySleepers`, `ImplementsUserService`, `TestPasses`, `PoolLasts`, `OtherQueuesWhole` and `TerminalWakesPrint` stay with it.

## 5. Known deviations

With a run that exhibits each (a `violation` run of `PROJECT.json`, the trace is TLC's):

| run | what the code does |
|---|---|
| `Preemption` | `interrupts.c:18` copies the PCB's old state over the interrupted one: `stateCpy(source, dest)` with its arguments in the wrong order |
| `MutexLost` | `sysSupport.c:55`: the last holder's trap after its release counts as a request, and the mutex process waits for a dead process |
| `Shutdown` | `initProc.c:297-303` frees the SSTs in the order of the asids, whatever the order they end in; the SSI frees them too. A user that ends before its predecessor leads to a freed PCB being dispatched |
| `PromptDevice` | `exceptions.c:29` puts a process that waits for a device on the ready queue too; p2test's print process is sent strings while it waits, and a terminal that answers before the CPU is idle makes the ready queue lose processes and the test PANIC |

Modelled as the code has them, met while modelling, without a run of their own:

- `ssi.c:39` compares a device number with interrupt lines, so it finds blocked victims only by chance, and leaves the others linked in their queue.
- `sst.c:19` frees the frames of the process with the asid below its own, and leaves its own taken for ever. With `Orderly = FALSE` the neighbour may be alive and `FramesOwned` fails;
  the runs and the theorems that have `FramesOwned` and `ImplementsVirtualMemory` keep to exits in the order of the asids, so they say nothing of this defect, only that an `exit` between any two steps of a pager does no other harm.
- `vmSupport.c:74` gives frame -1 at the first eviction, though the comment (line 61) promises one of the pool. `TypeOK` sees only that no process goes on with it: it traps, or the system is broken.
- `initProc.c:301`: even in the right order each SST is freed twice, by `test()` and then by the SSI, whose `terminateProcess()` finds it on the free list and puts it at the end of it.
- `sysSupport.c:58`: a user process that traps ends alone: its SST never tells `test()`, which waits for ever (not in `Support`: no user traps there).
- `ssi.c:87`: `freePcb` on a victim that is still linked in the ready queue, which `terminateProcess` does not search: a child that has not run yet when its
  parent ends. The two lists are spliced (`TerminateBreaks`; the contract of `LinkedLists`' `terminateProcess`).
- `msg.c:133`: a sender is compared by the `p_pid` its PCB has now, so a message of a dead process counts as one of the process that has its PCB next.
- `exceptions.c:30`: a message for a process on a device or clock queue links its PCB a second time (`SendBreaks`; the rule `PrudentSend` avoids it; `Phase2` and `PromptDevice` go on after it).
- `exceptions.c:28`: a message for a freed PCB loses its descriptor; the answer to every self-termination does.
- `ssi.c:14`, `:337`: CREATEPROCESS without a free PCB is never answered, though `p2test.c:196` tests for NOPROC.
- `ssi.c:288`: the SSI terminates whatever PCB it is given, free ones and itself included. In the second case it is on the free list and running at once (why section 4 has `SSISpared`).
- `interrupts.c:74`: among devices of a line the highest number is served first.
- `interrupts.c:140`: a terminal's error status leaves the waiting PCB and the status unset.
- `vmSupport.c:169`: a write-back after the owner's end goes to no flash device; after a failed one the victim's next fault reads the block as it was before, unless an evictor of the same frame writes it first.
- `vmSupport.c:174`: a failed read kills the process that faults, whose end frees its own frames only. The table goes on giving the frame it was refilling to the page evicted from it. If that
  page is then read into another frame and written, the next eviction of the first frame invalidates it there and writes the stale frame over the newer contents (four processes and two frames show it; why section 4 has `FlashWorks`).

## 6. Not modelled, and the plan

Done in this order: nucleus first (all else stands on it), then the pager, then the lists under the nucleus, then the programs over them. Next:

1. `SSIRace`: the SSI's own code with interrupts between its loads and stores, over `ListHeap` with `list_add` and `list_del` split into single stores. The SSI runs with interrupts on
   (`initial.c:86`; only the PLT is off), and so a handler's `insertProcQ(&readyQueue, ...)` may fall between the stores of
   the SSI's own (`ssi.c:24`): which PCBs stay reachable? Likewise `softBlockCount++` against `softBlockCount--` (a lost decrement leaves the count too high, so that a
   deadlock is waited for, never the reverse), and the sender read from EXCEPTION_STATE (`ssi.c:333`), whose value after an interrupt depends on what the compiler
   keeps in v0. Composes with `Kernel`.
2. `CpuTime`: `p_time`, `startTOD`, the PLT's load (`ssi.c:225` multiplies by an address), 32-bit arithmetic, with the checks of p2 and p3.
3. A user process that traps, in `Support`: `programTrapHandler()`, and what becomes of its SST.
4. Theorems on the programs over the nucleus: `KillsOnlySleepers` and `DeadStayDead` of `Support`, which need an invariant per program.

Left out for good: `p1test.c`, which calls the operations of phase 1 one after the other, in no process at all;
`klog.c` (nothing reads the log back), formatting, register layout, the BIOS and the boot sequence;
the hardware is external and modelled by what the nucleus sees of it (a device is idle, busy, done or in error).
