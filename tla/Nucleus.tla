------------------------------- MODULE Nucleus -------------------------------
(***************************************************************************)
(* The microPandOS nucleus: the scheduler, SYS1 (send) and SYS2 (recv),    *)
(* the System Service Interface and its services, and the interrupt        *)
(* handlers, over the process queues and the message pool of phase 1.      *)
(*                                                                         *)
(* One step is one kernel entry (a SYSCALL, an interrupt, a trap) from the *)
(* exception to the LDST that leaves the kernel, where interrupts are      *)
(* masked, or one request served by the SSI process.  What a process will  *)
(* do next is its control record: the live one of the running process is   *)
(* cpu (the registers), the one in its PCB is p_s.                         *)
(*                                                                         *)
(* PCBs and messages sit on intrusive lists.  Linking an element that is   *)
(* already on a list, freeing a linked PCB, or using the NULL of an empty  *)
(* message pool has no meaning at this level: such a step sets mode to     *)
(* "broken", changes nothing else, and ends the behaviour.                 *)
(***************************************************************************)
EXTENDS ProcQueues

CONSTANTS
  Pcb,          \* the PCBs of pcbTable (MAXPROC of them)
  ssi_pcb,      \* the PCB of the SSI process
  test_pcb,     \* new_pcb: the PCB of the first process
  NULL,
  Device,       \* the installed (sub)devices, records [line, no]
  MAXMESSAGES,  \* the messages of msgTable
  Behaviour,    \* what processes and hardware do in this instance
  Victim,       \* the PCBs a TERMPROCESS request may name
  Prudent       \* TRUE: processes keep the rules of section "Discipline"

Line    == {"DISK", "FLASH", "ETHERNET", "PRINTER", "TERMRECV", "TERMTRANSM"}
Service == {"CREATEPROCESS", "TERMPROCESS", "DOIO", "GETTIME", "CLOCKWAIT",
            "GETSUPPORTPTR", "GETPROCESSID", "INVALID"}
Deeds   == {"KILL", "GETPARENT", "SENDMESSAGE", "RECEIVEMESSAGE", "TRAP",
            "PLT", "DEVERROR"}

ASSUME NucleusAssumption ==
  /\ IsFiniteSet(Pcb)
  /\ ssi_pcb \in Pcb /\ test_pcb \in Pcb \ {ssi_pcb}
  /\ NULL \notin Pcb
  /\ Device \subseteq [line : Line, no : 0..7]
  /\ MAXMESSAGES \in Nat
  /\ Behaviour \subseteq Service \cup Deeds
  /\ Victim \subseteq Pcb
  /\ Prudent \in BOOLEAN

VARIABLES
  pcbFree_h,        \* the free PCBs (their order is abstracted)
  p_parent,         \* the process tree; p_child is its inverse
  processCount,
  readyQueue,
  blockedQueue,     \* one queue of PCBs per interrupt line (two for terminals)
  pseudoClockQueue,
  softBlockCount,
  blockedOnDevice,  \* the device number last written by doio
  inbox,            \* msg_inbox of each PCB
  msgFree,          \* the length of msgFree_h
  current_process,
  cpu,              \* control of the running process
  p_s,              \* control saved in each PCB
  dev,              \* the status of each (sub)device
  mode              \* "run", "wait", or how the system stopped

procs  == <<pcbFree_h, p_parent, processCount>>
queues == <<blockedQueue, pseudoClockQueue, softBlockCount, blockedOnDevice>>
msgs   == <<inbox, msgFree>>
vars   == <<pcbFree_h, p_parent, processCount, readyQueue, blockedQueue,
            pseudoClockQueue, softBlockCount, blockedOnDevice, inbox, msgFree,
            current_process, cpu, p_s, dev, mode>>
-----------------------------------------------------------------------------
(* Data *)

\* What a message carries: a request, the answer to a request (tagged with the
\* service it answers), or an application's word.
Payload == [service : Service \cup {"NONE"}, arg : Pcb \cup Device \cup {NULL}]
Message == [sender : Pcb, payload : Payload]
Nothing == [service |-> "NONE", arg |-> NULL]

\* "run": in its own code; "receive": at a RECEIVEMESSAGE from who (NULL is
\* ANYMESSAGE), val the request it awaits the answer of; "serve", "reply": the
\* SSI between its receive and its send, on request (with answer) val of who.
Control == [op : {"run", "receive", "serve", "reply"},
            who : Pcb \cup {NULL}, val : Payload]

Running          == [op |-> "run", who |-> NULL, val |-> Nothing]
ReceiveFrom(q)   == [op |-> "receive", who |-> q, val |-> Nothing]
AwaitAnswer(r)   == [op |-> "receive", who |-> ssi_pcb, val |-> r]
Serving(p, r)    == [op |-> "serve", who |-> p, val |-> r]
Replying(p, a)   == [op |-> "reply", who |-> p, val |-> a]
AtLoopHead       == ReceiveFrom(NULL)

\* The interrupt line a queue belongs to (IL_DISK .. IL_TERMINAL).
LineNo(line) ==
  CASE line = "DISK"     -> 3 [] line = "FLASH"   -> 4
    [] line = "ETHERNET" -> 5 [] line = "PRINTER" -> 6
    [] OTHER             -> 7

IsFree(p)      == p \in pcbFree_h
IsReady(p)     == p \in ToSet(readyQueue)
OnClock(p)     == p \in ToSet(pseudoClockQueue)
OnDevice(p)    == \E l \in Line : p \in ToSet(blockedQueue[l])
SoftBlocked(p) == OnClock(p) \/ OnDevice(p)
Linked(p)      == IsFree(p) \/ IsReady(p) \/ SoftBlocked(p)

\* The live control of p, wherever it is kept.
ControlOf(p) == IF p = current_process THEN cpu ELSE p_s[p]
Awaits(p)    == /\ ControlOf(p).op = "receive"
                /\ ControlOf(p).who = ssi_pcb

\* The messages of p's inbox that a receive from `from` accepts (popMessage).
Matching(p, from) ==
  {i \in DOMAIN inbox[p] : from = NULL \/ inbox[p][i].sender = from}

\* list_add_tail(): a queue is first-come first-served.
insertProcQ_AtHead(q, p) == <<p>> \o q
insertProcQ(q, p) == Append(q, p)

\* p and all its progeny: the least set closed under p_child.
Subtree_Alone(p)    == {p}
Subtree_Children(p) == {p} \cup {c \in Pcb : p_parent[c] = p}
Subtree(p) ==
  {q \in Pcb : \A S \in SUBSET Pcb :
      (p \in S /\ \A c \in Pcb : p_parent[c] \in S => c \in S) => q \in S}
-----------------------------------------------------------------------------
(* Initial state: main() up to its call of the scheduler, and that call. *)

Init ==
  /\ pcbFree_h = Pcb \ {ssi_pcb, test_pcb}
  /\ p_parent = [p \in Pcb |-> NULL]
  /\ processCount = 2
  /\ readyQueue = <<test_pcb>>
  /\ blockedQueue = [l \in Line |-> <<>>]
  /\ pseudoClockQueue = <<>>
  /\ softBlockCount = 0
  /\ blockedOnDevice = [p \in Pcb |-> 0]
  /\ inbox = [p \in Pcb |-> <<>>]
  /\ msgFree = MAXMESSAGES
  /\ current_process = ssi_pcb
  /\ cpu = AtLoopHead
  /\ p_s = [p \in Pcb |-> IF p = ssi_pcb THEN AtLoopHead ELSE Running]
  /\ dev = [d \in Device |-> "idle"]
  /\ mode = "run"
-----------------------------------------------------------------------------
(* Building blocks of the handlers *)

\* A list operation outside the lists' contract.
Break ==
  /\ mode' = "broken"
  /\ UNCHANGED <<procs, readyQueue, queues, msgs, current_process, cpu, p_s, dev>>

\* What scheduler() does when no process is ready.
Verdict_SSINotCounted ==
  CASE processCount' = 0 -> "halt"
    [] processCount' > 0 /\ softBlockCount' = 0 -> "panic"
    [] OTHER -> "wait"
Verdict_TwoLeft ==
  CASE processCount' <= 2 -> "halt"
    [] softBlockCount' = 0 -> "panic"
    [] OTHER -> "wait"
Verdict_NoSoftBlock == IF processCount' = 1 THEN "halt" ELSE "panic"
Verdict ==
  CASE processCount' = 1 -> "halt"
    [] processCount' > 1 /\ softBlockCount' = 0 -> "panic"
    [] processCount' > 1 /\ softBlockCount' # 0 -> "wait"
    [] OTHER -> "broken"                          \* it returns to its caller

\* scheduler(), on the ready queue and the counters the handler leaves.
Scheduler(ready) ==
  \/ /\ ready # <<>>
     /\ current_process' = Head(ready)
     /\ readyQueue' = Tail(ready)
     /\ cpu' = p_s'[Head(ready)]
     /\ mode' = "run"
  \/ /\ ready = <<>>
     /\ current_process' = NULL
     /\ readyQueue' = <<>>
     /\ cpu' = Running
     /\ mode' = Verdict

\* exitInterruptHandler(): back to the interrupted process, if there is one.
ExitInterrupt(ready) ==
  IF current_process # NULL
  THEN readyQueue' = ready /\ UNCHANGED <<current_process, cpu, mode>>
  ELSE Scheduler(ready)

\* allocMsg() returns NULL.
PoolEmpty_Unchecked == FALSE
PoolEmpty           == msgFree = 0

\* send(): wake the destination unless it runs or is ready.  A destination on
\* a device queue or the pseudo-clock queue would be linked twice.
Wakes_Never(dest)   == FALSE
Wakes_Running(dest) == ~IsReady(dest)
Wakes_Ready(dest)   == dest # current_process
Wakes(dest)         == dest # current_process /\ ~IsReady(dest)
SendBreaks(dest) ==
  ~PoolEmpty /\ ~IsFree(dest) /\ Wakes(dest) /\ Linked(dest)

Send(sender, dest, payload) ==
  \/ /\ PoolEmpty                                 \* MSGNOGOOD
     /\ UNCHANGED <<msgs, readyQueue>>
  \/ /\ ~PoolEmpty /\ IsFree(dest)                \* DEST_NOT_EXIST
     /\ msgFree' = msgFree - 1
     /\ UNCHANGED <<inbox, readyQueue>>
  \/ /\ ~PoolEmpty /\ ~IsFree(dest)
     /\ msgFree' = msgFree - 1
     /\ inbox' = [inbox EXCEPT ![dest] =
                    Append(@, [sender |-> sender, payload |-> payload])]
     /\ readyQueue' = IF Wakes(dest) THEN insertProcQ(readyQueue, dest)
                                     ELSE readyQueue

\* The PCBs of K that isPcbBlockedOnDevice() finds and unlinks.  It compares
\* the device NUMBER a PCB holds with the numbers of the interrupt lines.
SearchedLines(p) == {l \in Line : LineNo(l) = blockedOnDevice[p]}
FoundBlocked(K)  ==
  {p \in K : OnClock(p) \/ \E l \in SearchedLines(p) : p \in ToSet(blockedQueue[l])}

\* terminateProcess(): the victims, post-order, leave the queues searched for
\* them and go to the free list.  Freeing one that is linked breaks.
TerminateBreaks(p) ==
  \E q \in Subtree(p) : Linked(q) /\ q \notin FoundBlocked(Subtree(p))

TerminateProcess_CountsOne(p) ==
  LET K == Subtree(p) IN
    /\ pcbFree_h' = pcbFree_h \cup K
    /\ p_parent' = [q \in Pcb |-> IF q \in K THEN NULL ELSE p_parent[q]]
    /\ processCount' = processCount - 1
    /\ UNCHANGED queues
TerminateProcess(p) ==
  LET K == Subtree(p) IN
    /\ pcbFree_h' = pcbFree_h \cup K
    /\ p_parent' = [q \in Pcb |-> IF q \in K THEN NULL ELSE p_parent[q]]
    /\ processCount' = processCount - Cardinality(K)
    /\ softBlockCount' = softBlockCount - Cardinality(FoundBlocked(K))
    /\ blockedQueue' = [l \in Line |->
         Without(blockedQueue[l], {q \in K : l \in SearchedLines(q)})]
    /\ pseudoClockQueue' = Without(pseudoClockQueue, K)
    /\ UNCHANGED blockedOnDevice
-----------------------------------------------------------------------------
(* Interrupts *)

Raised(d) == dev[d] \in {"done", "error"}

\* deviceHandler() tests a terminal's two status bytes for "operation
\* succeeded" only, recv first, and has no branch for anything else.
StatusUnread(d) == LineNo(d.line) = 7 /\ dev[d] = "error"

\* The order in which raised interrupts are served: by line, the lowest first;
\* by device number, the highest first (getDeviceNo); then by status tested.
Precedes(d, e) ==
  \/ LineNo(d.line) < LineNo(e.line)
  \/ LineNo(d.line) = LineNo(e.line) /\ d.no > e.no
  \/ /\ LineNo(d.line) = LineNo(e.line) /\ d.no = e.no /\ d # e
     /\ dev[d] = "done" /\ (d.line = "TERMRECV" \/ StatusUnread(e))

Selected(d) ==
  Raised(d) /\ \A e \in Device : Raised(e) => ~Precedes(e, d)

\* Interrupts are enabled in every process and in WAIT, so a raised one is
\* taken before the next instruction.
InterruptPending == \E d \in Device : Raised(d)

\* unlockPcbDevNo(): the first PCB of the line's queue with the device's number.
Waiters_AnyOnLine(d) == DOMAIN blockedQueue[d.line]
Waiters(d) ==
  {i \in DOMAIN blockedQueue[d.line] :
     blockedOnDevice[blockedQueue[d.line][i]] = d.no}
Waiter(d) == blockedQueue[d.line][Min(Waiters(d))]

Status(d) == [service |-> "DOIO", arg |-> d]
FromSSI_AsCurrent(payload) == [sender |-> current_process, payload |-> payload]
FromSSI(payload) == [sender |-> ssi_pcb, payload |-> payload]

\* No PCB waits for the device: the interrupt is acknowledged.
Dismiss(d) ==
  /\ ~StatusUnread(d) /\ Waiters(d) = {}
  /\ dev' = [dev EXCEPT ![d] = "idle"]
  /\ UNCHANGED <<procs, queues, msgs, p_s>>
  /\ ExitInterrupt(readyQueue)

\* The waiting PCB gets the status, without passing by the SSI.
Complete(d) ==
  /\ ~StatusUnread(d) /\ Waiters(d) # {} /\ ~PoolEmpty
  /\ LET p == Waiter(d) IN
       /\ dev' = [dev EXCEPT ![d] = "idle"]
       /\ blockedQueue' = [blockedQueue EXCEPT ![d.line] = Without(@, {p})]
       /\ msgFree' = msgFree - 1
       /\ inbox' = [inbox EXCEPT ![p] = Append(@, FromSSI(Status(d)))]
       /\ softBlockCount' = softBlockCount - 1
       /\ UNCHANGED <<procs, pseudoClockQueue, blockedOnDevice, p_s>>
       /\ ExitInterrupt(insertProcQ(readyQueue, p))

\* outPcb and status are not initialised, or allocMsg() returned NULL.
InterruptBreaks(d) == StatusUnread(d) \/ (Waiters(d) # {} /\ PoolEmpty)

DeviceInterrupt ==
  /\ mode \in {"run", "wait"}
  /\ \E d \in Device :
       /\ Selected(d)
       /\ (InterruptBreaks(d) /\ Break) \/ Dismiss(d) \/ Complete(d)

\* intervalTimerHandler(): every PCB of the pseudo-clock queue gets a message.
TickMessage == FromSSI([service |-> "CLOCKWAIT", arg |-> NULL])

TimerInterrupt ==
  /\ mode \in {"run", "wait"}
  /\ \/ /\ msgFree < Len(pseudoClockQueue)
        /\ Break
     \/ /\ msgFree >= Len(pseudoClockQueue)
        /\ inbox' = [p \in Pcb |-> IF OnClock(p) THEN Append(inbox[p], TickMessage)
                                                 ELSE inbox[p]]
        /\ msgFree' = msgFree - Len(pseudoClockQueue)
        /\ softBlockCount' = softBlockCount - Len(pseudoClockQueue)
        /\ pseudoClockQueue' = <<>>
        /\ UNCHANGED <<procs, blockedQueue, blockedOnDevice, p_s, dev>>
        /\ ExitInterrupt(readyQueue \o pseudoClockQueue)

\* PLTHandler(): stateCpy(&current_process->p_s, EXCEPTION_STATE) copies the
\* saved state over the interrupted one, so p_s keeps its old value.
PLTInterrupt ==
  /\ "PLT" \in Behaviour
  /\ mode = "run" /\ current_process # ssi_pcb
  /\ \/ Linked(current_process) /\ Break
     \/ /\ ~Linked(current_process)
        /\ UNCHANGED <<procs, queues, msgs, p_s, dev>>
        /\ Scheduler(insertProcQ(readyQueue, current_process))

\* A device ends the operation it was commanded.
DeviceCompletes(d) ==
  /\ mode \in {"run", "wait"}
  /\ dev[d] = "busy"
  /\ \/ dev' = [dev EXCEPT ![d] = "done"]
     \/ "DEVERROR" \in Behaviour /\ dev' = [dev EXCEPT ![d] = "error"]
  /\ UNCHANGED <<procs, readyQueue, queues, msgs, current_process, cpu, p_s, mode>>
-----------------------------------------------------------------------------
(* Processes *)

\* A process executes its next instruction.
Executes == mode = "run" /\ ~InterruptPending
ClientRuns ==
  Executes /\ current_process # ssi_pcb /\ cpu.op = "run"

(* Discipline: rules a process keeps when Prudent.  They are what the lists'
   contract asks of the callers of the nucleus. *)

\* A process blocked in a receive that is no SSI call and that nothing wakes.
Parked(p) ==
  /\ p # current_process /\ ~Linked(p)
  /\ p_s[p].op = "receive" /\ ~Awaits(p)

SafeToKill(p)  == \A q \in Subtree(p) : q = current_process \/ Parked(q)
Outstanding(r) == {p \in Pcb \ pcbFree_h : Awaits(p) /\ ControlOf(p).val = r}

\* The pool holds what all calls in progress can take, and one more: for an
\* application's message, or for the answer lost at a caller's own termination.
SpareMessages == msgFree > Cardinality(Pcb)

PrudentRequest(r) ==
  CASE r.service = "CREATEPROCESS" ->
         Cardinality(Outstanding(r)) < Cardinality(pcbFree_h)
    [] r.service = "TERMPROCESS" /\ r.arg # NULL ->
         p_parent[r.arg] = current_process /\ SafeToKill(r.arg)
    [] r.service = "INVALID" ->
         SafeToKill(current_process)
    [] r.service = "TERMPROCESS" /\ r.arg = NULL ->
         SafeToKill(current_process) /\ SpareMessages
    [] r.service = "DOIO" ->
         Outstanding(r) = {}
    [] r.service = "GETPROCESSID" /\ r.arg # NULL ->
         p_parent[current_process] # NULL
    [] OTHER -> TRUE

\* The processes that end when a request in progress is served.
Ends(p, r) ==
  CASE r.service = "TERMPROCESS" -> Subtree(IF r.arg = NULL THEN p ELSE r.arg)
    [] r.service = "INVALID"     -> Subtree(p)
    [] OTHER                     -> {}
Condemned == UNION {Ends(p, p_s[p].val) : p \in {q \in Pcb \ pcbFree_h : Awaits(q)}}

\* A message for a process inside an SSI call could wake it on a device queue;
\* one for a process about to end would make it ready.
PrudentSend(dest) == ~Awaits(dest) /\ dest \notin Condemned /\ SpareMessages

Requests ==
  {[service |-> s, arg |-> NULL] : s \in (Behaviour \cap Service) \ {"DOIO"}}
  \cup {[service |-> "DOIO", arg |-> d] : d \in {e \in Device : "DOIO" \in Behaviour}}
  \cup {[service |-> "TERMPROCESS", arg |-> v] : v \in {w \in Victim : "KILL" \in Behaviour}}
  \cup {[service |-> "GETPROCESSID", arg |-> p] :
          p \in {q \in {current_process} : "GETPARENT" \in Behaviour}}

\* SYSCALL(SENDMESSAGE, ssi_pcb, request): the receive of the answer comes next.
Request ==
  /\ ClientRuns
  /\ \E r \in Requests :
       /\ Prudent => PrudentRequest(r)
       /\ \/ SendBreaks(ssi_pcb) /\ Break
          \/ /\ ~SendBreaks(ssi_pcb)
             /\ Send(current_process, ssi_pcb, r)
             /\ cpu' = AwaitAnswer(r)
             /\ UNCHANGED <<procs, queues, current_process, p_s, dev, mode>>

\* SYSCALL(SENDMESSAGE, dest, ...) to another process.
SendMessage ==
  /\ ClientRuns /\ "SENDMESSAGE" \in Behaviour
  /\ \E dest \in Pcb \ {ssi_pcb} :
       /\ Prudent => PrudentSend(dest)
       /\ \/ SendBreaks(dest) /\ Break
          \/ /\ ~SendBreaks(dest)
             /\ Send(current_process, dest, Nothing)
             /\ UNCHANGED <<procs, queues, current_process, cpu, p_s, dev, mode>>

\* A process reaches SYSCALL(RECEIVEMESSAGE, from, ...) outside an SSI call.
WantMessage ==
  /\ ClientRuns /\ "RECEIVEMESSAGE" \in Behaviour
  /\ \E from \in (Pcb \ {ssi_pcb}) \cup {NULL} : cpu' = ReceiveFrom(from)
  /\ UNCHANGED <<procs, readyQueue, queues, msgs, current_process, p_s, dev, mode>>

\* recv(): take the first match, or save the state and give the CPU away.  The
\* SYSCALL is executed again when the process is next dispatched.
AfterReceive(m) ==
  IF current_process = ssi_pcb THEN Serving(m.sender, m.payload) ELSE Running

TakeMessage_Kept(p, i) ==
  /\ inbox' = [inbox EXCEPT ![p] = RemoveAt(@, i)]
  /\ UNCHANGED msgFree
TakeMessage(p, i) ==
  /\ inbox' = [inbox EXCEPT ![p] = RemoveAt(@, i)]
  /\ msgFree' = msgFree + 1

Receive ==
  /\ Executes /\ cpu.op = "receive"
  /\ LET p == current_process
         M == Matching(p, cpu.who) IN
       \/ /\ M # {}
          /\ TakeMessage(p, Min(M)) /\ cpu' = AfterReceive(inbox[p][Min(M)])
          /\ UNCHANGED <<procs, readyQueue, queues, current_process, p_s, dev, mode>>
       \/ /\ M = {}
          /\ p_s' = [p_s EXCEPT ![p] = cpu]
          /\ UNCHANGED <<procs, queues, msgs, dev>>
          /\ Scheduler(readyQueue)

\* A trap of a process without a support structure: passUpOrDie() dies.
Trap ==
  /\ ClientRuns /\ "TRAP" \in Behaviour
  /\ Prudent => SafeToKill(current_process)
  /\ \/ TerminateBreaks(current_process) /\ Break
     \/ /\ ~TerminateBreaks(current_process)
        /\ TerminateProcess(current_process)
        /\ UNCHANGED <<msgs, p_s, dev>>
        /\ Scheduler(readyQueue)
-----------------------------------------------------------------------------
(* The SSI *)

\* SSIRequest(sender, service, arg): p is the sender, r the service and arg.
\* A result other than NOPROC is sent back by the SSI's next step.
Answer_IfNonzero(p, r, result) ==
  cpu' = IF result = NULL THEN AtLoopHead
                          ELSE Replying(p, [service |-> r.service, arg |-> result])
Answer(p, r, result) == cpu' = Replying(p, [service |-> r.service, arg |-> result])
NoAnswer_Sent(p, r) == Answer(p, r, NULL)
NoAnswer(p, r) == cpu' = AtLoopHead

CreateProcess(p, r) ==
  /\ r.service = "CREATEPROCESS"
  /\ \/ /\ pcbFree_h = {}                         \* NOPROC: SSI() sends nothing
        /\ NoAnswer(p, r)
        /\ UNCHANGED <<procs, readyQueue, queues, msgs, current_process, p_s, dev, mode>>
     \/ pcbFree_h # {} /\ IsFree(p) /\ Break      \* insertChild() into a free PCB
     \/ /\ ~IsFree(p)
        /\ \E child \in pcbFree_h :
             /\ pcbFree_h' = pcbFree_h \ {child}
             /\ p_parent' = [p_parent EXCEPT ![child] = p]
             /\ inbox' = [inbox EXCEPT ![child] = <<>>]
             /\ p_s' = [p_s EXCEPT ![child] = Running]
             /\ readyQueue' = insertProcQ(readyQueue, child)
             /\ Answer(p, r, child)
        /\ processCount' = processCount + 1
        /\ UNCHANGED <<queues, msgFree, current_process, dev, mode>>

\* TERMPROCESS of the process named by arg, or of the caller if arg is NULL.
Terminate(p, r) ==
  /\ r.service = "TERMPROCESS"
  /\ LET victim == IF r.arg = NULL THEN p ELSE r.arg IN
       \/ TerminateBreaks(victim) /\ Break
       \/ /\ ~TerminateBreaks(victim)
          /\ TerminateProcess(victim)
          /\ Answer(p, r, NULL)
          /\ UNCHANGED <<readyQueue, msgs, current_process, p_s, dev, mode>>

\* Any other service code: the caller is terminated and MSGNOGOOD, which is
\* NOPROC, is not sent back.
Refuse(p, r) ==
  /\ r.service = "INVALID"
  /\ \/ TerminateBreaks(p) /\ Break
     \/ /\ ~TerminateBreaks(p)
        /\ TerminateProcess(p)
        /\ NoAnswer(p, r)
        /\ UNCHANGED <<readyQueue, msgs, current_process, p_s, dev, mode>>

\* doio(): the caller moves from the ready queue, if it is there, to the
\* device's queue; the command is written last.
DoIO(p, r) ==
  /\ r.service = "DOIO"
  /\ \/ (IsFree(p) \/ SoftBlocked(p)) /\ Break
     \/ /\ ~IsFree(p) /\ ~SoftBlocked(p)
        /\ softBlockCount' = softBlockCount + 1
        /\ blockedOnDevice' = [blockedOnDevice EXCEPT ![p] = r.arg.no]
        /\ readyQueue' = Without(readyQueue, {p})
        /\ blockedQueue' = [blockedQueue EXCEPT ![r.arg.line] = insertProcQ(@, p)]
        /\ dev' = [dev EXCEPT ![r.arg] = "busy"]
        /\ NoAnswer(p, r)
        /\ UNCHANGED <<procs, pseudoClockQueue, msgs, current_process, p_s, mode>>

\* wait4Clock(): the caller is put on the pseudo-clock queue as it is.
WaitForClock_NotCounted(p, r) ==
  /\ r.service = "CLOCKWAIT" /\ ~Linked(p)
  /\ pseudoClockQueue' = insertProcQ(pseudoClockQueue, p)
  /\ NoAnswer(p, r)
  /\ UNCHANGED <<procs, readyQueue, blockedQueue, softBlockCount, blockedOnDevice,
                 msgs, current_process, p_s, dev, mode>>
WaitForClock(p, r) ==
  /\ r.service = "CLOCKWAIT"
  /\ \/ Linked(p) /\ Break
     \/ /\ ~Linked(p)
        /\ pseudoClockQueue' = insertProcQ(pseudoClockQueue, p)
        /\ softBlockCount' = softBlockCount + 1
        /\ NoAnswer(p, r)
        /\ UNCHANGED <<procs, readyQueue, blockedQueue, blockedOnDevice, msgs,
                       current_process, p_s, dev, mode>>

\* getCPUTime(), getSupportData() and getProcessID(): no state changes.  The
\* parent's pid is read through p_parent, NULL for a root.
Inquire(p, r) ==
  /\ r.service \in {"GETTIME", "GETSUPPORTPTR", "GETPROCESSID"}
  /\ LET ofParent == r.service = "GETPROCESSID" /\ r.arg # NULL IN
       \/ ofParent /\ p_parent[p] = NULL /\ Break
       \/ /\ ~(ofParent /\ p_parent[p] = NULL)
          /\ Answer(p, r, IF ofParent THEN p_parent[p] ELSE NULL)
          /\ UNCHANGED <<procs, readyQueue, queues, msgs, current_process, p_s, dev, mode>>

\* SYSCALL(SENDMESSAGE, sender, result), back to the loop head.
Reply ==
  /\ Executes /\ cpu.op = "reply"
  /\ \/ SendBreaks(cpu.who) /\ Break
     \/ /\ ~SendBreaks(cpu.who)
        /\ Send(ssi_pcb, cpu.who, cpu.val)
        /\ cpu' = AtLoopHead
        /\ UNCHANGED <<procs, queues, current_process, p_s, dev, mode>>
-----------------------------------------------------------------------------
Stopped == mode \in {"halt", "panic", "broken"} /\ UNCHANGED vars

SSIRequest(p, r) ==
  \/ CreateProcess(p, r)
  \/ Terminate(p, r)
  \/ Refuse(p, r)
  \/ DoIO(p, r)
  \/ WaitForClock(p, r)
  \/ Inquire(p, r)

SSIServes == Executes /\ cpu.op = "serve" /\ SSIRequest(cpu.who, cpu.val)

ProcessStep ==
  \/ Request
  \/ SendMessage
  \/ WantMessage
  \/ Receive
  \/ Trap
  \/ SSIServes
  \/ Reply

Next ==
  \/ ProcessStep
  \/ PLTInterrupt
  \/ TimerInterrupt
  \/ DeviceInterrupt
  \/ \E d \in Device : DeviceCompletes(d)
  \/ Stopped

Spec == Init /\ [][Next]_vars

\* The CPU executes instructions, the interval timer (reloaded with PSECOND at
\* every tick) keeps firing, a raised interrupt is taken, and a commanded
\* device completes.
Fairness ==
  /\ WF_vars(ProcessStep)
  /\ WF_vars(TimerInterrupt)
  /\ WF_vars(DeviceInterrupt)
  /\ \A d \in Device : WF_vars(DeviceCompletes(d))

FairSpec == Spec /\ Fairness
-----------------------------------------------------------------------------
(* Properties *)

Live == Pcb \ pcbFree_h

\* Every variable has the type of the C object it stands for.
TypeOK ==
  /\ pcbFree_h \in SUBSET Pcb
  /\ p_parent \in [Pcb -> Pcb \cup {NULL}]
  /\ processCount \in Int /\ softBlockCount \in Int
  /\ readyQueue \in Seq(Pcb) /\ pseudoClockQueue \in Seq(Pcb)
  /\ blockedQueue \in [Line -> Seq(Pcb)]
  /\ blockedOnDevice \in [Pcb -> 0..7]
  /\ inbox \in [Pcb -> Seq(Message)]
  /\ msgFree \in Nat
  /\ current_process \in Pcb \cup {NULL}
  /\ cpu \in Control
  /\ p_s \in [Pcb -> Control]
  /\ dev \in [Device -> {"idle", "busy", "done", "error"}]
  /\ mode \in {"run", "wait", "halt", "panic", "broken"}

\* No lost wake-up: a process that holds neither the CPU nor a place in a queue
\* is blocked in recv(), and its inbox holds no message it is waiting for.
NoLostWakeup ==
  \A p \in Live :
    p # current_process /\ ~Linked(p) =>
      p_s[p].op = "receive" /\ Matching(p, p_s[p].who) = {}

\* "PCB's can't hide": a PCB is in at most one place - running, free, or at
\* one position of one queue.
Positions(list, s, p) == {<<list, i>> : i \in {j \in DOMAIN s : s[j] = p}}
Places(p) ==
  Positions("ready", readyQueue, p)
  \cup Positions("clock", pseudoClockQueue, p)
  \cup (UNION {Positions(l, blockedQueue[l], p) : l \in Line})
  \cup {<<"cpu", 0>> : c \in {current_process} \cap {p}}
  \cup {<<"free", 0>> : f \in pcbFree_h \cap {p}}
OnePlace == \A p \in Pcb : Cardinality(Places(p)) <= 1

\* The counters scheduler() decides by count what they are meant to count.
CountersAccurate ==
  /\ processCount = Cardinality(Live)
  /\ softBlockCount = Cardinality({p \in Pcb : SoftBlocked(p)})

\* scheduler()'s three verdicts are right: HALT only when the SSI alone is
\* left, PANIC only when no process can ever run again, WAIT only when some
\* process waits for an interrupt.
VerdictSound ==
  /\ mode = "halt" => Live = {ssi_pcb}
  /\ mode = "panic" =>
       \A p \in Live : /\ ~IsReady(p) /\ ~SoftBlocked(p)
                       /\ p_s[p].op = "receive" /\ Matching(p, p_s[p].who) = {}
  /\ mode = "wait" => \E p \in Live : SoftBlocked(p)

\* The progeny of a dead process is dead: a live process' parent is live, and a
\* free PCB hangs nowhere in the tree.
NoOrphans ==
  \A p \in Pcb :
    /\ IsFree(p) => p_parent[p] = NULL
    /\ p_parent[p] # NULL => ~IsFree(p_parent[p])

\* No step performs a list operation outside its contract.
NotBroken == mode # "broken"

\* Exactly one answer per call: while a process is inside an SSI call there is
\* exactly one of its request in the SSI's inbox, the SSI at work on it, its
\* place on a device or clock queue, and the answer in its inbox; that answer
\* is to this request; and outside a call there is none of these.
CallTokens(p) ==
  {<<"inbox", i>> : i \in {j \in DOMAIN inbox[ssi_pcb] : inbox[ssi_pcb][j].sender = p}}
  \cup {<<"ssi", 0>> : q \in {x \in {p} : cpu.op \in {"serve", "reply"} /\ cpu.who = x}}
  \cup {<<"queue", 0>> : q \in {x \in {p} : SoftBlocked(x)}}
  \cup {<<"answer", i>> : i \in Matching(p, ssi_pcb)}
Answers(r, answer) ==
  /\ answer.service = r.service
  /\ r.service = "DOIO" => answer.arg = r.arg
OneAnswerPerCall ==
  mode # "broken" =>
    \A p \in Live \ {ssi_pcb} :
      /\ Cardinality(CallTokens(p)) = IF Awaits(p) THEN 1 ELSE 0
      /\ \A i \in Matching(p, ssi_pcb) :
           Awaits(p) /\ Answers(ControlOf(p).val, inbox[p][i].payload)

\* A process is on a device queue only while that device works on its command
\* or its interrupt is raised, and no other process waits for the same device:
\* WAIT, and the process' sleep, always end.
WaiterHasOperation ==
  \A l \in Line : \A i \in DOMAIN blockedQueue[l] :
    LET no == blockedOnDevice[blockedQueue[l][i]] IN
      /\ \E d \in Device : d.line = l /\ d.no = no /\ dev[d] # "idle"
      /\ \A j \in DOMAIN blockedQueue[l] \ {i} :
           blockedOnDevice[blockedQueue[l][j]] # no

\* Every message descriptor is free or in the inbox of a live process.
InUse         == UNION {{<<p, i>> : i \in DOMAIN inbox[p]} : p \in Live}
PoolAccounted == msgFree + Cardinality(InUse) = MAXMESSAGES

\* Processes that only make SSI calls never bring the system to a stop.
NeverStops == mode \in {"run", "wait"}

\* Round robin: a process on the ready queue gets the CPU.
EventuallyDispatched == \A p \in Pcb : IsReady(p) ~> current_process = p

\* When the last client is gone the system halts.
AloneHalts == Live = {ssi_pcb} ~> mode = "halt"
-----------------------------------------------------------------------------
(* What comments and documents say of the code and it does not do *)

\* interrupts.c:6-7: a process that "has not completed its CPU burst" goes on with
\* it, so its PCB holds its state at the time of the PLT interrupt.
PreemptionSavesState ==
  [][PLTInterrupt /\ mode' # "broken" => p_s'[current_process] = cpu]_vars
=============================================================================
