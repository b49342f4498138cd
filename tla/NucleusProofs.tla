---------------------------- MODULE NucleusProofs ----------------------------
(***************************************************************************)
(* Theorems about Nucleus, for any number of PCBs, devices and messages    *)
(* and any behaviour of the processes, prudent or not.                     *)
(*                                                                         *)
(* TypeOK is not inductive: a request is served with the types its sender  *)
(* gave it, and a step of the running process needs one to be running.     *)
(* TypeInv adds that.                                                      *)
(***************************************************************************)
EXTENDS Nucleus, QueueFacts

\* A DOIO request, and its answer, name a device.
NamesDevice(r) == r.service = "DOIO" => r.arg \in Device
SoundMessage   == {m \in Message : NamesDevice(m.payload)}

\* The control of a process that does not run, and of the one that does.
AtRest == {c \in Control : c.op \in {"run", "receive"}}
AtWork == {c \in Control : c.op \in {"serve", "reply"} =>
                             c.who \in Pcb /\ NamesDevice(c.val)}

Modes == {"run", "wait", "halt", "panic", "broken"}

Procs  == /\ pcbFree_h \in SUBSET Pcb
          /\ p_parent \in [Pcb -> Pcb \cup {NULL}]
          /\ processCount \in Int
Queues == /\ blockedQueue \in [Line -> Seq(Pcb)]
          /\ pseudoClockQueue \in Seq(Pcb)
          /\ softBlockCount \in Int
          /\ blockedOnDevice \in [Pcb -> 0..7]
Msgs   == /\ inbox \in [Pcb -> Seq(SoundMessage)]
          /\ msgFree \in Nat
CPU    == /\ readyQueue \in Seq(Pcb)
          /\ current_process \in Pcb \cup {NULL}
          /\ cpu \in AtWork
          /\ mode \in Modes
          /\ mode = "run" => current_process \in Pcb
Saved  == p_s \in [Pcb -> AtRest]
Devs   == dev \in [Device -> {"idle", "busy", "done", "error"}]

TypeInv == Procs /\ Queues /\ Msgs /\ CPU /\ Saved /\ Devs

\* TypeInv is TypeOK and more.
LEMMA TypeInvImpliesTypeOK == TypeInv => TypeOK
<1> SUFFICES ASSUME TypeInv PROVE TypeOK
  OBVIOUS
<1>1. inbox \in [Pcb -> Seq(Message)]
  <2>1. Seq(SoundMessage) \subseteq Seq(Message)
    BY SeqMonotonic DEF SoundMessage
  <2> QED  BY <2>1 DEF TypeInv, Msgs
<1>2. cpu \in Control /\ p_s \in [Pcb -> Control]
  BY DEF TypeInv, CPU, Saved, AtWork, AtRest
<1> QED  BY <1>1, <1>2 DEF TypeInv, TypeOK, Procs, Queues, Msgs, CPU, Devs, Modes
-----------------------------------------------------------------------------
(* The values the handlers build *)

\* The empty payload of an application's message is a payload.
LEMMA NothingIsPayload == Nothing \in Payload /\ NamesDevice(Nothing)
BY DEF Nothing, Payload, NamesDevice

\* Every control a process can block or be created with is one at rest.
LEMMA ControlsAtRest ==
  /\ Running \in AtRest /\ AtLoopHead \in AtRest
  /\ \A q \in Pcb \cup {NULL} : ReceiveFrom(q) \in AtRest
  /\ \A r \in Payload : AwaitAnswer(r) \in AtRest
BY NothingIsPayload, NucleusAssumption
   DEF Running, AtLoopHead, ReceiveFrom, AwaitAnswer, AtRest, Control

\* A control at rest is one the running process may have.
LEMMA AtRestIsAtWork == AtRest \subseteq AtWork
BY DEF AtRest, AtWork

\* So are the SSI's, on a request with a sender.
LEMMA ControlsAtWork ==
  ASSUME NEW p \in Pcb, NEW r \in Payload, NamesDevice(r)
  PROVE  Serving(p, r) \in AtWork /\ Replying(p, r) \in AtWork
BY DEF Serving, Replying, AtWork, Control

\* Whatever a process may ask of the SSI.
LEMMA RequestsSound ==
  ASSUME current_process \in Pcb, NEW r \in Requests
  PROVE  r \in Payload /\ NamesDevice(r)
BY NucleusAssumption DEF Requests, Payload, NamesDevice, Service
-----------------------------------------------------------------------------
(* Building blocks of the handlers *)

\* scheduler() runs the head of the ready queue, keeps the rest ready, and
\* otherwise decides between HALT, PANIC and WAIT.
LEMMA SchedulerStep ==
  ASSUME NEW ready \in Seq(Pcb), Scheduler(ready), Saved', Procs'
  PROVE  /\ CPU'
         /\ \A p \in ToSet(ready) : p = current_process' \/ IsReady(p)'
<1>1. CASE ready # <<>>
  <2>1. /\ Head(ready) \in Pcb /\ Tail(ready) \in Seq(Pcb)
        /\ ToSet(ready) = ToSet(Tail(ready)) \cup {Head(ready)}
    BY <1>1, HeadTaken
  <2>2. /\ current_process' = Head(ready) /\ readyQueue' = Tail(ready)
        /\ cpu' = p_s'[Head(ready)] /\ mode' = "run"
    BY <1>1 DEF Scheduler
  <2>3. cpu' \in AtWork
    BY <2>1, <2>2, AtRestIsAtWork DEF Saved
  <2> QED  BY <2>1, <2>2, <2>3 DEF CPU, IsReady, Modes
<1>2. CASE ready = <<>>
  <2>1. /\ current_process' = NULL /\ readyQueue' = <<>>
        /\ cpu' = Running /\ mode' = Verdict
    BY <1>2 DEF Scheduler
  <2>2. Verdict \in Modes \ {"run"}
    BY DEF Verdict, Modes, Procs
  <2>3. <<>> \in Seq(Pcb) /\ ToSet(ready) = {}
    BY <1>2, EmptySeq DEF ToSet
  <2> QED  BY <2>1, <2>2, <2>3, ControlsAtRest, AtRestIsAtWork DEF CPU
<1> QED  BY <1>1, <1>2

\* The end of an interrupt returns to the interrupted process or schedules.
LEMMA ExitInterruptStep ==
  ASSUME CPU, NEW ready \in Seq(Pcb), ExitInterrupt(ready), Saved', Procs'
  PROVE  /\ CPU'
         /\ \A p \in ToSet(ready) : p = current_process' \/ IsReady(p)'
         /\ current_process # NULL => current_process' = current_process
<1>1. CASE current_process # NULL
  BY <1>1 DEF ExitInterrupt, CPU, IsReady
<1>2. CASE current_process = NULL
  BY <1>2, SchedulerStep DEF ExitInterrupt
<1> QED  BY <1>1, <1>2

\* send() keeps every ready process ready, and the process it changes the inbox
\* of runs or is ready.
LEMMA SendStep ==
  ASSUME Msgs, CPU, NEW sender \in Pcb, NEW dest \in Pcb, NEW payload \in Payload,
         NamesDevice(payload), Send(sender, dest, payload)
  PROVE  /\ Msgs' /\ readyQueue' \in Seq(Pcb)
         /\ \A p \in Pcb : IsReady(p) => IsReady(p)'
         /\ \A p \in Pcb : inbox'[p] # inbox[p] => p = current_process \/ IsReady(p)'
<1> DEFINE m == [sender |-> sender, payload |-> payload]
<1>1. m \in SoundMessage
  BY DEF SoundMessage, Message
<1>2. CASE PoolEmpty \/ IsFree(dest)
  BY <1>2 DEF Send, Msgs, CPU, IsReady, msgs, PoolEmpty
<1>3. CASE ~PoolEmpty /\ ~IsFree(dest)
  <2>1. /\ msgFree' = msgFree - 1
        /\ inbox' = [inbox EXCEPT ![dest] = Append(@, m)]
        /\ readyQueue' = IF Wakes(dest) THEN insertProcQ(readyQueue, dest)
                                        ELSE readyQueue
    BY <1>3 DEF Send
  <2>2. Append(inbox[dest], m) \in Seq(SoundMessage)
    BY <1>1, AppendAdds DEF Msgs
  <2>3. Msgs'
    BY <1>3, <2>1, <2>2 DEF Msgs, PoolEmpty
  <2>4. /\ insertProcQ(readyQueue, dest) \in Seq(Pcb)
        /\ ToSet(insertProcQ(readyQueue, dest)) = ToSet(readyQueue) \cup {dest}
    BY AppendAdds DEF CPU, insertProcQ
  <2>5. \A p \in Pcb : inbox'[p] # inbox[p] => p = dest
    BY <2>1 DEF Msgs
  <2> QED  BY <2>1, <2>3, <2>4, <2>5 DEF CPU, IsReady, Wakes
<1> QED  BY <1>2, <1>3 DEF Msgs

\* terminateProcess() takes PCBs from the queues and frees them.
LEMMA TerminateStep ==
  ASSUME Procs, Queues, NEW p, TerminateProcess(p)
  PROVE  /\ Procs' /\ Queues'
         /\ pcbFree_h \subseteq pcbFree_h'
         /\ \A q \in Pcb : SoftBlocked(q) => SoftBlocked(q)' \/ IsFree(q)'
<1> DEFINE K == Subtree(p)
           B == FoundBlocked(K)
           Searching(l) == {q \in K : l \in SearchedLines(q)}
<1>1. K \in SUBSET Pcb /\ B \in SUBSET Pcb
  BY DEF Subtree, FoundBlocked
<1>2. Cardinality(K) \in Int /\ Cardinality(B) \in Int
  BY <1>1, FS_Subset, FS_CardinalityType, NucleusAssumption
<1>3. /\ pcbFree_h' = pcbFree_h \cup K
      /\ p_parent' = [q \in Pcb |-> IF q \in K THEN NULL ELSE p_parent[q]]
      /\ processCount' = processCount - Cardinality(K)
      /\ softBlockCount' = softBlockCount - Cardinality(B)
      /\ blockedQueue' = [l \in Line |-> Without(blockedQueue[l], Searching(l))]
      /\ pseudoClockQueue' = Without(pseudoClockQueue, K)
      /\ blockedOnDevice' = blockedOnDevice
  BY DEF TerminateProcess
<1> HIDE DEF K, B
<1>4. /\ pseudoClockQueue' \in Seq(Pcb)
      /\ ToSet(pseudoClockQueue') = ToSet(pseudoClockQueue) \ K
  BY <1>3, WithoutKeepsOthers DEF Queues
<1>5. ASSUME NEW l \in Line
      PROVE  /\ blockedQueue'[l] \in Seq(Pcb)
             /\ ToSet(blockedQueue'[l]) = ToSet(blockedQueue[l]) \ Searching(l)
  <2>1. blockedQueue[l] \in Seq(Pcb)
    BY DEF Queues
  <2> QED  BY <1>3, <2>1, WithoutKeepsOthers
<1>6. Procs'
  BY <1>1, <1>2, <1>3 DEF Procs
<1>7. Queues'
  BY <1>2, <1>3, <1>4, <1>5 DEF Queues
<1>8. ASSUME NEW q \in Pcb, SoftBlocked(q), q \notin K
      PROVE  SoftBlocked(q)'
  BY <1>4, <1>5, <1>8 DEF SoftBlocked, OnClock, OnDevice
<1> QED  BY <1>3, <1>6, <1>7, <1>8 DEF IsFree
-----------------------------------------------------------------------------
(* Type correctness *)

\* A list operation outside its contract changes no type.
LEMMA BreakTypes == TypeInv /\ Break => TypeInv'
BY DEF TypeInv, Break, Procs, Queues, Msgs, CPU, Saved, Devs, Modes,
       procs, queues, msgs

\* main() establishes TypeInv.
LEMMA InitTypes == Init => TypeInv
<1> SUFFICES ASSUME Init PROVE TypeInv
  OBVIOUS
<1>1. <<>> \in Seq(Pcb) /\ <<>> \in Seq(SoundMessage) /\ <<test_pcb>> \in Seq(Pcb)
  BY NucleusAssumption, EmptySeq
<1> QED  BY <1>1, ControlsAtRest, AtRestIsAtWork, NucleusAssumption
         DEF Init, TypeInv, Procs, Queues, Msgs, CPU, Saved, Devs, Modes

\* unlockPcbDevNo() finds a PCB of the line's queue when one waits.
LEMMA WaiterIsPcb ==
  ASSUME Queues, NEW d \in Device, Waiters(d) # {}
  PROVE  Waiter(d) \in ToSet(blockedQueue[d.line]) /\ Waiter(d) \in Pcb
<1>1. d.line \in Line
  BY NucleusAssumption
<1>2. blockedQueue[d.line] \in Seq(Pcb)
  BY <1>1 DEF Queues
<1>3. Waiters(d) \in SUBSET Nat
  BY <1>2, LenProperties DEF Waiters
<1>4. Min(Waiters(d)) \in DOMAIN blockedQueue[d.line]
  BY <1>3, FirstPosition DEF Waiters
<1> QED  BY <1>2, <1>4, LenProperties DEF Waiter, ToSet

\* An interrupt nobody waits for keeps TypeInv.
LEMMA DismissTypes ==
  ASSUME TypeInv, NEW d \in Device, Dismiss(d)
  PROVE  TypeInv'
<1>1. Procs' /\ Queues' /\ Msgs' /\ Saved' /\ Devs'
  BY DEF Dismiss, TypeInv, Procs, Queues, Msgs, Saved, Devs, procs, queues, msgs
<1>2. CPU'
  BY <1>1, ExitInterruptStep DEF Dismiss, TypeInv, CPU
<1> QED  BY <1>1, <1>2 DEF TypeInv

\* An interrupt that wakes its waiter keeps TypeInv.
LEMMA CompleteTypes ==
  ASSUME TypeInv, NEW d \in Device, Complete(d)
  PROVE  TypeInv'
<1>1. d.line \in Line /\ d.no \in 0..7
  BY NucleusAssumption
<1>2. Waiter(d) \in Pcb
  BY WaiterIsPcb DEF Complete, TypeInv
<1>3. FromSSI(Status(d)) \in SoundMessage
  BY NucleusAssumption
     DEF FromSSI, Status, SoundMessage, Message, Payload, NamesDevice, Service
<1>4. /\ dev' = [dev EXCEPT ![d] = "idle"]
      /\ blockedQueue' = [blockedQueue EXCEPT ![d.line] = Without(@, {Waiter(d)})]
      /\ msgFree # 0 /\ msgFree' = msgFree - 1
      /\ inbox' = [inbox EXCEPT ![Waiter(d)] = Append(@, FromSSI(Status(d)))]
      /\ softBlockCount' = softBlockCount - 1
      /\ UNCHANGED <<procs, pseudoClockQueue, blockedOnDevice, p_s>>
      /\ ExitInterrupt(insertProcQ(readyQueue, Waiter(d)))
  BY DEF Complete, PoolEmpty
<1>5. Procs' /\ Saved' /\ Devs'
  BY <1>4 DEF TypeInv, Procs, Saved, Devs, procs
<1>6. Queues'
  <2>1. Without(blockedQueue[d.line], {Waiter(d)}) \in Seq(Pcb)
    BY <1>1, WithoutKeepsOthers DEF TypeInv, Queues
  <2> QED  BY <1>1, <1>4, <2>1 DEF TypeInv, Queues
<1>7. Msgs'
  <2>1. Append(inbox[Waiter(d)], FromSSI(Status(d))) \in Seq(SoundMessage)
    BY <1>2, <1>3, AppendAdds DEF TypeInv, Msgs
  <2> QED  BY <1>2, <1>4, <2>1 DEF TypeInv, Msgs
<1>8. CPU'
  <2>1. insertProcQ(readyQueue, Waiter(d)) \in Seq(Pcb)
    BY <1>2, AppendAdds DEF TypeInv, CPU, insertProcQ
  <2> QED  BY <1>5, <1>4, <2>1, ExitInterruptStep DEF TypeInv
<1> QED  BY <1>5, <1>6, <1>7, <1>8 DEF TypeInv

\* deviceHandler() keeps TypeInv.
LEMMA DeviceInterruptTypes == TypeInv /\ DeviceInterrupt => TypeInv'
BY BreakTypes, DismissTypes, CompleteTypes DEF DeviceInterrupt

\* intervalTimerHandler() keeps TypeInv.
LEMMA TimerInterruptTypes == TypeInv /\ TimerInterrupt => TypeInv'
<1> SUFFICES ASSUME TypeInv, TimerInterrupt, ~Break PROVE TypeInv'
  BY BreakTypes
<1>1. /\ msgFree >= Len(pseudoClockQueue)
      /\ inbox' = [p \in Pcb |-> IF OnClock(p) THEN Append(inbox[p], TickMessage)
                                               ELSE inbox[p]]
      /\ msgFree' = msgFree - Len(pseudoClockQueue)
      /\ softBlockCount' = softBlockCount - Len(pseudoClockQueue)
      /\ pseudoClockQueue' = <<>>
      /\ UNCHANGED <<procs, blockedQueue, blockedOnDevice, p_s, dev>>
      /\ ExitInterrupt(readyQueue \o pseudoClockQueue)
  BY DEF TimerInterrupt
<1>2. Len(pseudoClockQueue) \in Nat /\ <<>> \in Seq(Pcb)
  BY LenProperties, EmptySeq DEF TypeInv, Queues
<1>3. Procs' /\ Queues' /\ Saved' /\ Devs'
  BY <1>1, <1>2 DEF TypeInv, Procs, Queues, Saved, Devs, procs
<1>4. Msgs'
  <2>1. TickMessage \in SoundMessage
    BY NucleusAssumption
       DEF TickMessage, FromSSI, SoundMessage, Message, Payload, NamesDevice, Service
  <2>2. \A p \in Pcb : Append(inbox[p], TickMessage) \in Seq(SoundMessage)
    BY <2>1, AppendAdds DEF TypeInv, Msgs
  <2> QED  BY <1>1, <1>2, <2>2 DEF TypeInv, Msgs
<1>5. CPU'
  <2>1. readyQueue \o pseudoClockQueue \in Seq(Pcb)
    BY ConcatAdds DEF TypeInv, CPU, Queues
  <2> QED  BY <1>1, <1>3, <2>1, ExitInterruptStep DEF TypeInv
<1> QED  BY <1>3, <1>4, <1>5 DEF TypeInv

\* PLTHandler() keeps TypeInv.
LEMMA PLTInterruptTypes == TypeInv /\ PLTInterrupt => TypeInv'
<1> SUFFICES ASSUME TypeInv, PLTInterrupt, ~Break PROVE TypeInv'
  BY BreakTypes
<1>1. Procs' /\ Queues' /\ Msgs' /\ Saved' /\ Devs'
  BY DEF PLTInterrupt, TypeInv, Procs, Queues, Msgs, Saved, Devs, procs, queues, msgs
<1>2. insertProcQ(readyQueue, current_process) \in Seq(Pcb)
  BY AppendAdds DEF PLTInterrupt, TypeInv, CPU, insertProcQ
<1>3. CPU'
  BY <1>1, <1>2, SchedulerStep DEF PLTInterrupt
<1> QED  BY <1>1, <1>3 DEF TypeInv

\* The end of an operation keeps TypeInv.
LEMMA DeviceCompletesTypes ==
  ASSUME TypeInv, NEW d \in Device, DeviceCompletes(d)
  PROVE  TypeInv'
BY DEF DeviceCompletes, TypeInv, Procs, Queues, Msgs, CPU, Saved, Devs,
       procs, queues, msgs

\* A request sent to the SSI keeps TypeInv.
LEMMA RequestTypes == TypeInv /\ Request => TypeInv'
<1> SUFFICES ASSUME TypeInv, Request, ~Break PROVE TypeInv'
  BY BreakTypes
<1>1. current_process \in Pcb
  BY DEF Request, ClientRuns, Executes, TypeInv, CPU
<1>2. PICK r \in Requests :
        /\ Send(current_process, ssi_pcb, r)
        /\ cpu' = AwaitAnswer(r)
        /\ UNCHANGED <<procs, queues, current_process, p_s, dev, mode>>
  BY DEF Request
<1>3. r \in Payload /\ NamesDevice(r)
  BY <1>1, RequestsSound
<1>4. Msgs' /\ readyQueue' \in Seq(Pcb)
  BY <1>1, <1>2, <1>3, SendStep, NucleusAssumption DEF TypeInv
<1>5. Procs' /\ Queues' /\ Saved' /\ Devs'
  BY <1>2 DEF TypeInv, Procs, Queues, Saved, Devs, procs, queues
<1>6. CPU'
  BY <1>1, <1>2, <1>3, <1>4, ControlsAtRest, AtRestIsAtWork DEF TypeInv, CPU
<1> QED  BY <1>4, <1>5, <1>6 DEF TypeInv

\* A message sent to another process keeps TypeInv.
LEMMA SendMessageTypes == TypeInv /\ SendMessage => TypeInv'
<1> SUFFICES ASSUME TypeInv, SendMessage, ~Break PROVE TypeInv'
  BY BreakTypes
<1>1. current_process \in Pcb
  BY DEF SendMessage, ClientRuns, Executes, TypeInv, CPU
<1>2. PICK dest \in Pcb :
        /\ Send(current_process, dest, Nothing)
        /\ UNCHANGED <<procs, queues, current_process, cpu, p_s, dev, mode>>
  BY DEF SendMessage
<1>3. Msgs' /\ readyQueue' \in Seq(Pcb)
  BY <1>1, <1>2, SendStep, NothingIsPayload DEF TypeInv
<1> QED  BY <1>2, <1>3 DEF TypeInv, Procs, Queues, CPU, Saved, Devs, procs, queues

\* A process about to receive keeps TypeInv.
LEMMA WantMessageTypes == TypeInv /\ WantMessage => TypeInv'
<1> SUFFICES ASSUME TypeInv, WantMessage PROVE TypeInv'
  OBVIOUS
<1>1. cpu' \in AtWork
  BY ControlsAtRest, AtRestIsAtWork DEF WantMessage
<1> QED  BY <1>1 DEF WantMessage, TypeInv, Procs, Queues, Msgs, CPU, Saved, Devs,
                     procs, queues, msgs

\* The SSI's answer keeps TypeInv.
LEMMA ReplyTypes == TypeInv /\ Reply => TypeInv'
<1> SUFFICES ASSUME TypeInv, Reply, ~Break PROVE TypeInv'
  BY BreakTypes
<1>1. /\ cpu.op = "reply" /\ Send(ssi_pcb, cpu.who, cpu.val) /\ cpu' = AtLoopHead
      /\ UNCHANGED <<procs, queues, current_process, p_s, dev, mode>>
  BY DEF Reply
<1>2. cpu.who \in Pcb /\ cpu.val \in Payload /\ NamesDevice(cpu.val)
  BY <1>1 DEF TypeInv, CPU, AtWork, Control
<1>3. Msgs' /\ readyQueue' \in Seq(Pcb)
  BY <1>1, <1>2, SendStep, NucleusAssumption DEF TypeInv
<1>4. Procs' /\ Queues' /\ Saved' /\ Devs'
  BY <1>1 DEF TypeInv, Procs, Queues, Saved, Devs, procs, queues
<1>5. CPU'
  BY <1>1, <1>3, ControlsAtRest, AtRestIsAtWork DEF TypeInv, CPU
<1> QED  BY <1>3, <1>4, <1>5 DEF TypeInv

\* popMessage() finds the first matching message of the inbox.
LEMMA FirstMatching ==
  ASSUME Msgs, NEW p \in Pcb, NEW from, Matching(p, from) # {}
  PROVE  /\ Min(Matching(p, from)) \in DOMAIN inbox[p]
         /\ inbox[p][Min(Matching(p, from))] \in SoundMessage
<1>1. inbox[p] \in Seq(SoundMessage)
  BY DEF Msgs
<1>2. Matching(p, from) \in SUBSET Nat
  BY <1>1, LenProperties DEF Matching
<1>3. Min(Matching(p, from)) \in DOMAIN inbox[p]
  BY <1>2, FirstPosition DEF Matching
<1> QED  BY <1>1, <1>3, LenProperties, ElementOfSeq

\* recv() keeps TypeInv.
LEMMA ReceiveTypes == TypeInv /\ Receive => TypeInv'
<1> SUFFICES ASSUME TypeInv, Receive PROVE TypeInv'
  OBVIOUS
<1> DEFINE p == current_process
           M == Matching(p, cpu.who)
           m == inbox[p][Min(M)]
<1>1. p \in Pcb /\ cpu.op = "receive"
  BY DEF Receive, Executes, TypeInv, CPU
<1>2. \/ /\ M # {} /\ TakeMessage(p, Min(M)) /\ cpu' = AfterReceive(m)
         /\ UNCHANGED <<procs, readyQueue, queues, current_process, p_s, dev, mode>>
      \/ /\ M = {} /\ p_s' = [p_s EXCEPT ![p] = cpu]
         /\ UNCHANGED <<procs, queues, msgs, dev>>
         /\ Scheduler(readyQueue)
  BY DEF Receive
<1> HIDE DEF p
<1>3. Procs' /\ Queues' /\ Devs'
  BY <1>2 DEF TypeInv, Procs, Queues, Devs, procs, queues
<1>4. CASE M # {}
  <2>1. /\ TakeMessage(p, Min(M)) /\ cpu' = AfterReceive(m)
        /\ UNCHANGED <<procs, readyQueue, queues, current_process, p_s, dev, mode>>
    BY <1>2, <1>4
  <2>2. Min(M) \in DOMAIN inbox[p] /\ m \in SoundMessage
    BY <1>1, <1>4, FirstMatching DEF TypeInv
  <2>3. Msgs'
    <3>1. RemoveAt(inbox[p], Min(M)) \in Seq(SoundMessage)
      BY <1>1, <2>2, RemoveAtIsSeq DEF TypeInv, Msgs
    <3> QED  BY <1>1, <2>1, <3>1 DEF TakeMessage, TypeInv, Msgs
  <2>4. CPU'
    <3>1. m.sender \in Pcb /\ m.payload \in Payload /\ NamesDevice(m.payload)
      BY <2>2 DEF SoundMessage, Message
    <3>2. cpu' \in AtWork
      BY <2>1, <3>1, ControlsAtWork, ControlsAtRest, AtRestIsAtWork DEF AfterReceive
    <3> QED  BY <2>1, <3>2 DEF TypeInv, CPU
  <2>5. Saved'
    BY <2>1 DEF TypeInv, Saved
  <2> QED  BY <1>3, <2>3, <2>4, <2>5 DEF TypeInv
<1>5. CASE M = {}
  <2>1. /\ p_s' = [p_s EXCEPT ![p] = cpu] /\ UNCHANGED msgs
        /\ Scheduler(readyQueue)
    BY <1>2, <1>5
  <2>2. cpu \in AtRest
    BY <1>1 DEF TypeInv, CPU, AtWork, AtRest
  <2>3. Saved' /\ Msgs'
    BY <2>1, <2>2 DEF TypeInv, Saved, Msgs, msgs
  <2>4. CPU'
    BY <1>3, <2>1, <2>3, SchedulerStep DEF TypeInv, CPU
  <2> QED  BY <1>3, <2>3, <2>4 DEF TypeInv
<1> QED  BY <1>4, <1>5

\* passUpOrDie() keeps TypeInv.
LEMMA TrapTypes == TypeInv /\ Trap => TypeInv'
<1> SUFFICES ASSUME TypeInv, Trap, ~Break PROVE TypeInv'
  BY BreakTypes
<1>1. /\ TerminateProcess(current_process)
      /\ UNCHANGED <<msgs, p_s, dev>>
      /\ Scheduler(readyQueue)
  BY DEF Trap
<1>2. Procs' /\ Queues'
  BY <1>1, TerminateStep DEF TypeInv
<1>3. Msgs' /\ Saved' /\ Devs'
  BY <1>1 DEF TypeInv, Msgs, Saved, Devs, msgs
<1>4. CPU'
  BY <1>1, <1>2, <1>3, SchedulerStep DEF TypeInv, CPU
<1> QED  BY <1>2, <1>3, <1>4 DEF TypeInv

\* The SSI at work: it runs, for a caller, on a sound request.
Serves(p, r) ==
  /\ current_process \in Pcb /\ p \in Pcb /\ r \in Payload /\ NamesDevice(r)

\* An answer to anything but DOIO leaves the SSI sound.
LEMMA AnswerTypes ==
  ASSUME NEW p \in Pcb, NEW r \in Payload, r.service # "DOIO",
         NEW result \in Pcb \cup {NULL}
  PROVE  Replying(p, [service |-> r.service, arg |-> result]) \in AtWork
<1>1. [service |-> r.service, arg |-> result] \in Payload
  BY DEF Payload
<1> QED  BY <1>1, ControlsAtWork DEF NamesDevice

\* createProcess() keeps TypeInv.
LEMMA CreateProcessTypes ==
  ASSUME TypeInv, NEW p, NEW r, Serves(p, r), CreateProcess(p, r)
  PROVE  TypeInv'
<1> SUFFICES ASSUME ~Break PROVE TypeInv'
  BY BreakTypes
<1>1. CASE /\ NoAnswer(p, r)
           /\ UNCHANGED <<procs, readyQueue, queues, msgs, current_process, p_s, dev, mode>>
  BY <1>1, ControlsAtRest, AtRestIsAtWork
     DEF NoAnswer, TypeInv, Procs, Queues, Msgs, CPU, Saved, Devs, procs, queues, msgs
<1>2. CASE ~NoAnswer(p, r)
           \/ ~UNCHANGED <<procs, readyQueue, queues, msgs, current_process, p_s, dev, mode>>
  <2>1. PICK child \in pcbFree_h :
          /\ pcbFree_h' = pcbFree_h \ {child}
          /\ p_parent' = [p_parent EXCEPT ![child] = p]
          /\ inbox' = [inbox EXCEPT ![child] = <<>>]
          /\ p_s' = [p_s EXCEPT ![child] = Running]
          /\ readyQueue' = insertProcQ(readyQueue, child)
          /\ Answer(p, r, child)
    BY <1>2 DEF CreateProcess
  <2>2. /\ processCount' = processCount + 1
        /\ UNCHANGED <<queues, msgFree, current_process, dev, mode>>
        /\ r.service = "CREATEPROCESS"
    BY <1>2 DEF CreateProcess
  <2>3. child \in Pcb
    BY DEF TypeInv, Procs
  <2>4. Procs'
    BY <2>1, <2>2, <2>3 DEF TypeInv, Procs, Serves
  <2>5. Queues' /\ Devs'
    BY <2>2 DEF TypeInv, Queues, Devs, queues
  <2>6. Msgs'
    BY <2>1, <2>2, <2>3, EmptySeq DEF TypeInv, Msgs
  <2>7. Saved'
    BY <2>1, <2>3, ControlsAtRest DEF TypeInv, Saved
  <2>8. CPU'
    <3>1. readyQueue' \in Seq(Pcb)
      BY <2>1, <2>3, AppendAdds DEF TypeInv, CPU, insertProcQ
    <3>2. cpu' \in AtWork
      BY <2>1, <2>2, <2>3, AnswerTypes DEF Answer, Serves
    <3> QED  BY <2>2, <3>1, <3>2 DEF TypeInv, CPU
  <2> QED  BY <2>4, <2>5, <2>6, <2>7, <2>8 DEF TypeInv
<1> QED  BY <1>1, <1>2

\* TERMPROCESS and an unknown service keep TypeInv.
LEMMA TerminateTypes ==
  ASSUME TypeInv, NEW p, NEW r, Serves(p, r), Terminate(p, r) \/ Refuse(p, r)
  PROVE  TypeInv'
<1> SUFFICES ASSUME ~Break PROVE TypeInv'
  BY BreakTypes
<1>1. /\ \E victim : TerminateProcess(victim)
      /\ cpu' \in AtWork
      /\ UNCHANGED <<readyQueue, msgs, current_process, p_s, dev, mode>>
  BY AnswerTypes, ControlsAtRest, AtRestIsAtWork
     DEF Terminate, Refuse, Answer, NoAnswer, Serves
<1>2. Procs' /\ Queues'
  BY <1>1, TerminateStep DEF TypeInv
<1> QED  BY <1>1, <1>2 DEF TypeInv, Msgs, CPU, Saved, Devs, msgs

\* doio() keeps TypeInv.
LEMMA DoIOTypes ==
  ASSUME TypeInv, NEW p, NEW r, Serves(p, r), DoIO(p, r)
  PROVE  TypeInv'
<1> SUFFICES ASSUME ~Break PROVE TypeInv'
  BY BreakTypes
<1>1. /\ softBlockCount' = softBlockCount + 1
      /\ blockedOnDevice' = [blockedOnDevice EXCEPT ![p] = r.arg.no]
      /\ readyQueue' = Without(readyQueue, {p})
      /\ blockedQueue' = [blockedQueue EXCEPT ![r.arg.line] = insertProcQ(@, p)]
      /\ dev' = [dev EXCEPT ![r.arg] = "busy"]
      /\ NoAnswer(p, r)
      /\ UNCHANGED <<procs, pseudoClockQueue, msgs, current_process, p_s, mode>>
  BY DEF DoIO
<1>2. r.arg \in Device /\ r.arg.line \in Line /\ r.arg.no \in 0..7 /\ p \in Pcb
  BY NucleusAssumption DEF DoIO, Serves, NamesDevice
<1>3. insertProcQ(blockedQueue[r.arg.line], p) \in Seq(Pcb)
  BY <1>2, AppendAdds DEF TypeInv, Queues, insertProcQ
<1>4. Queues'
  BY <1>1, <1>2, <1>3 DEF TypeInv, Queues
<1>5. CPU'
  <2>1. readyQueue' \in Seq(Pcb)
    BY <1>1, WithoutKeepsOthers DEF TypeInv, CPU
  <2> QED  BY <1>1, <2>1, ControlsAtRest, AtRestIsAtWork DEF TypeInv, CPU, NoAnswer
<1>6. Procs' /\ Msgs' /\ Saved' /\ Devs'
  BY <1>1, <1>2 DEF TypeInv, Procs, Msgs, Saved, Devs, procs, msgs
<1> QED  BY <1>4, <1>5, <1>6 DEF TypeInv

\* wait4Clock() keeps TypeInv.
LEMMA WaitForClockTypes ==
  ASSUME TypeInv, NEW p, NEW r, Serves(p, r), WaitForClock(p, r)
  PROVE  TypeInv'
<1> SUFFICES ASSUME ~Break PROVE TypeInv'
  BY BreakTypes
<1>1. insertProcQ(pseudoClockQueue, p) \in Seq(Pcb)
  BY AppendAdds DEF TypeInv, Queues, Serves, insertProcQ
<1>2. cpu' \in AtWork
  BY ControlsAtRest, AtRestIsAtWork DEF WaitForClock, NoAnswer
<1> QED  BY <1>1, <1>2 DEF WaitForClock, TypeInv, Procs, Queues, Msgs, CPU, Saved,
                           Devs, procs, msgs

\* The services that only read keep TypeInv.
LEMMA InquireTypes ==
  ASSUME TypeInv, NEW p, NEW r, Serves(p, r), Inquire(p, r)
  PROVE  TypeInv'
<1> SUFFICES ASSUME ~Break PROVE TypeInv'
  BY BreakTypes
<1>1. p_parent[p] \in Pcb \cup {NULL}
  BY DEF TypeInv, Procs, Serves
<1>2. cpu' \in AtWork
  BY <1>1, AnswerTypes DEF Inquire, Answer, Serves
<1>3. UNCHANGED <<procs, readyQueue, queues, msgs, current_process, p_s, dev, mode>>
  BY DEF Inquire
<1> QED  BY <1>2, <1>3 DEF TypeInv, Procs, Queues, Msgs, CPU, Saved, Devs,
                           procs, queues, msgs

\* What the SSI serves is a request of a PCB.
LEMMA SSIServesFor ==
  ASSUME TypeInv, SSIServes
  PROVE  Serves(cpu.who, cpu.val) /\ SSIRequest(cpu.who, cpu.val)
BY DEF SSIServes, Executes, Serves, TypeInv, CPU, AtWork, Control

\* Every service keeps TypeInv.
LEMMA SSIServesTypes == TypeInv /\ SSIServes => TypeInv'
BY SSIServesFor, CreateProcessTypes, TerminateTypes, DoIOTypes, WaitForClockTypes,
   InquireTypes DEF SSIRequest

\* TypeInv is inductive.
LEMMA NextTypes == TypeInv /\ [Next]_vars => TypeInv'
<1>1. TypeInv /\ ProcessStep => TypeInv'
  BY RequestTypes, SendMessageTypes, WantMessageTypes, ReceiveTypes, TrapTypes,
     SSIServesTypes, ReplyTypes DEF ProcessStep
<1>2. TypeInv /\ UNCHANGED vars => TypeInv'
  BY DEF vars, TypeInv, Procs, Queues, Msgs, CPU, Saved, Devs
<1> QED  BY <1>1, <1>2, PLTInterruptTypes, TimerInterruptTypes, DeviceInterruptTypes,
            DeviceCompletesTypes DEF Next, Stopped

\* Every reachable state has the types of the C objects: in particular no queue
\* or inbox ever holds anything but PCBs and messages, and the SSI never serves
\* a request without a caller.
THEOREM TypeInvariant == Spec => []TypeInv
<1> QED  BY InitTypes, NextTypes, PTL DEF Spec

\* Every variable keeps the type of the C object it stands for.
THEOREM TypeCorrect == Spec => []TypeOK
BY TypeInvariant, TypeInvImpliesTypeOK, PTL
-----------------------------------------------------------------------------
(* No lost wake-up.  With TypeInv the property is inductive: only recv() lets  *)
(* the running process go without linking it, after it found no message, and   *)
(* whatever puts a message in an inbox leaves its owner running or ready.      *)

Held(p)   == p = current_process \/ Linked(p)
Asleep(p) == p_s[p].op = "receive" /\ Matching(p, p_s[p].who) = {}

\* What a step has to show of each live process.
StaysAsleep(p) ==
  p \in Live /\ ~Held(p) /\ p_s'[p] = p_s[p] /\ inbox'[p] = inbox[p]

\* A step keeps NoLostWakeup if every process it leaves live is held
\* (running or in a queue) or sleeps on as before.
LEMMA WakeupsKept ==
  ASSUME NoLostWakeup,
         \A p \in Live' : Held(p)' \/ Asleep(p)' \/ StaysAsleep(p)
  PROVE  NoLostWakeup'
<1>1. ASSUME NEW p \in Live', StaysAsleep(p)
      PROVE  Asleep(p)'
  BY <1>1 DEF NoLostWakeup, StaysAsleep, Held, Asleep, Matching
<1> QED  BY <1>1 DEF NoLostWakeup, Held, Asleep

\* Steps that move no process.
LEMMA QuietWakeups ==
  ASSUME NoLostWakeup,
         UNCHANGED <<procs, readyQueue, queues, inbox, current_process, p_s>>
  PROVE  NoLostWakeup'
BY DEF NoLostWakeup, Live, Linked, IsFree, IsReady, SoftBlocked, OnClock, OnDevice,
       Matching, procs, queues

\* A list operation outside its contract loses no wake-up.
LEMMA BreakWakeups == NoLostWakeup /\ Break => NoLostWakeup'
BY QuietWakeups DEF Break, msgs

\* Steps that only send.
LEMMA SendWakeups ==
  ASSUME NoLostWakeup, Msgs, CPU,
         NEW sender \in Pcb, NEW dest \in Pcb, NEW payload \in Payload,
         NamesDevice(payload), Send(sender, dest, payload),
         UNCHANGED <<procs, queues, current_process, p_s>>
  PROVE  NoLostWakeup'
<1>1. /\ \A p \in Pcb : IsReady(p) => IsReady(p)'
      /\ \A p \in Pcb : inbox'[p] # inbox[p] => p = current_process \/ IsReady(p)'
  BY SendStep
<1>2. Live' = Live /\ \A p : /\ IsFree(p)' = IsFree(p)
                             /\ SoftBlocked(p)' = SoftBlocked(p)
  BY DEF Live, IsFree, SoftBlocked, OnClock, OnDevice, procs, queues
<1>3. ASSUME NEW p \in Live'
      PROVE  Held(p)' \/ StaysAsleep(p)
  BY <1>1, <1>2 DEF Held, StaysAsleep, Linked, Live
<1> QED  BY <1>3, WakeupsKept

\* Interrupts: who leaves a queue is made ready, and only its inbox changes.
LEMMA InterruptWakeups ==
  ASSUME NoLostWakeup, CPU, Procs', Saved', NEW ready \in Seq(Pcb), ExitInterrupt(ready),
         UNCHANGED <<procs, p_s>>,
         \A p \in Pcb : IsReady(p) => p \in ToSet(ready),
         \A p \in Pcb : SoftBlocked(p) => SoftBlocked(p)' \/ p \in ToSet(ready),
         \A p \in Pcb : inbox'[p] # inbox[p] => p \in ToSet(ready)
  PROVE  NoLostWakeup'
<1>1. /\ \A p \in ToSet(ready) : p = current_process' \/ IsReady(p)'
      /\ current_process # NULL => current_process' = current_process
  BY ExitInterruptStep
<1>2. Live' = Live /\ (\A p : IsFree(p)' = IsFree(p)) /\ NULL \notin Live
  BY NucleusAssumption DEF Live, IsFree, procs
<1>3. ASSUME NEW p \in Live'
      PROVE  Held(p)' \/ StaysAsleep(p)
  BY <1>1, <1>2 DEF Held, StaysAsleep, Linked, Live
<1> QED  BY <1>3, WakeupsKept

\* An interrupt nobody waits for loses no wake-up.
LEMMA DismissWakeups ==
  ASSUME TypeInv, NoLostWakeup, NEW d \in Device, Dismiss(d)
  PROVE  NoLostWakeup'
<1>1. /\ UNCHANGED <<procs, queues, inbox, p_s>> /\ ExitInterrupt(readyQueue)
      /\ CPU /\ Procs' /\ Saved' /\ readyQueue \in Seq(Pcb)
  BY DismissTypes DEF Dismiss, TypeInv, CPU, msgs
<1>2. \A p : SoftBlocked(p)' = SoftBlocked(p)
  BY <1>1 DEF SoftBlocked, OnClock, OnDevice, queues
<1> QED  BY <1>1, <1>2, InterruptWakeups DEF IsReady

\* The waiter of an interrupt is put on the ready queue with its message.
LEMMA CompleteWakeups ==
  ASSUME TypeInv, NoLostWakeup, NEW d \in Device, Complete(d)
  PROVE  NoLostWakeup'
<1> DEFINE w == Waiter(d)
           ready == insertProcQ(readyQueue, w)
<1>1. /\ blockedQueue' = [blockedQueue EXCEPT ![d.line] = Without(@, {w})]
      /\ inbox' = [inbox EXCEPT ![w] = Append(@, FromSSI(Status(d)))]
      /\ UNCHANGED <<procs, pseudoClockQueue, p_s>> /\ ExitInterrupt(ready)
      /\ CPU /\ Procs' /\ Saved'
  BY CompleteTypes DEF Complete, TypeInv
<1>2. w \in Pcb /\ d.line \in Line
  BY WaiterIsPcb, NucleusAssumption DEF Complete, TypeInv
<1>3. ready \in Seq(Pcb) /\ ToSet(ready) = ToSet(readyQueue) \cup {w}
  BY <1>2, AppendAdds DEF TypeInv, CPU, insertProcQ
<1> HIDE DEF w, ready
<1>4. \A p \in Pcb : inbox'[p] # inbox[p] => p = w
  BY <1>1 DEF TypeInv, Msgs
<1>5. \A l \in Line : ToSet(blockedQueue[l]) \subseteq ToSet(blockedQueue'[l]) \cup {w}
  <2>1. blockedQueue[d.line] \in Seq(Pcb)
    BY <1>2 DEF TypeInv, Queues
  <2>2. ToSet(Without(blockedQueue[d.line], {w})) = ToSet(blockedQueue[d.line]) \ {w}
    BY <2>1, WithoutKeepsOthers
  <2> QED  BY <1>1, <1>2, <2>2 DEF TypeInv, Queues
<1>6. \A p \in Pcb : SoftBlocked(p) => SoftBlocked(p)' \/ p = w
  BY <1>1, <1>5 DEF SoftBlocked, OnClock, OnDevice
<1> QED  BY <1>1, <1>3, <1>4, <1>6, InterruptWakeups DEF IsReady

\* Every process of the pseudo-clock queue is made ready with its message.
LEMMA TimerInterruptWakeups ==
  ASSUME TypeInv, NoLostWakeup, TimerInterrupt
  PROVE  NoLostWakeup'
<1> SUFFICES ASSUME ~Break PROVE NoLostWakeup'
  BY BreakWakeups
<1> DEFINE ready == readyQueue \o pseudoClockQueue
<1>1. /\ inbox' = [p \in Pcb |-> IF OnClock(p) THEN Append(inbox[p], TickMessage)
                                               ELSE inbox[p]]
      /\ UNCHANGED <<procs, blockedQueue, p_s>> /\ ExitInterrupt(ready)
      /\ CPU /\ Procs' /\ Saved'
  BY TimerInterruptTypes DEF TimerInterrupt, TypeInv
<1>2. ready \in Seq(Pcb) /\ ToSet(ready) = ToSet(readyQueue) \cup ToSet(pseudoClockQueue)
  BY ConcatAdds DEF TypeInv, CPU, Queues
<1> HIDE DEF ready
<1>3. \A p \in Pcb : inbox'[p] # inbox[p] => OnClock(p)
  BY <1>1
<1>4. \A p \in Pcb : SoftBlocked(p) => SoftBlocked(p)' \/ OnClock(p)
  BY <1>1 DEF SoftBlocked, OnDevice
<1> QED  BY <1>1, <1>2, <1>3, <1>4, InterruptWakeups DEF IsReady, OnClock

\* The preempted process is put on the ready queue.
LEMMA PLTInterruptWakeups ==
  ASSUME TypeInv, NoLostWakeup, PLTInterrupt
  PROVE  NoLostWakeup'
<1> SUFFICES ASSUME ~Break PROVE NoLostWakeup'
  BY BreakWakeups
<1> DEFINE ready == insertProcQ(readyQueue, current_process)
<1>1. /\ UNCHANGED <<procs, queues, inbox, p_s>> /\ Scheduler(ready)
      /\ Procs' /\ Saved' /\ current_process \in Pcb
  BY PLTInterruptTypes DEF PLTInterrupt, TypeInv, CPU, msgs
<1>2. ready \in Seq(Pcb) /\ ToSet(ready) = ToSet(readyQueue) \cup {current_process}
  BY <1>1, AppendAdds DEF TypeInv, CPU, insertProcQ
<1>3. \A p \in ToSet(ready) : p = current_process' \/ IsReady(p)'
  BY <1>1, <1>2, SchedulerStep
<1>4. Live' = Live /\ \A p : /\ IsFree(p)' = IsFree(p)
                             /\ SoftBlocked(p)' = SoftBlocked(p)
  BY <1>1 DEF Live, IsFree, SoftBlocked, OnClock, OnDevice, procs, queues
<1>5. ASSUME NEW p \in Live'
      PROVE  Held(p)' \/ StaysAsleep(p)
  BY <1>1, <1>2, <1>3, <1>4 DEF Held, StaysAsleep, Linked, IsReady
<1> QED  BY <1>5, WakeupsKept

\* recv() sleeps only after it has found no message in the inbox.
LEMMA ReceiveWakeups ==
  ASSUME TypeInv, NoLostWakeup, Receive
  PROVE  NoLostWakeup'
<1> DEFINE M == Matching(current_process, cpu.who)
<1>1. current_process \in Pcb /\ cpu.op = "receive" /\ Procs' /\ Saved'
  BY ReceiveTypes DEF Receive, Executes, TypeInv, CPU
<1>2. \/ /\ TakeMessage(current_process, Min(M))
         /\ UNCHANGED <<procs, readyQueue, queues, current_process, p_s>>
      \/ /\ M = {} /\ p_s' = [p_s EXCEPT ![current_process] = cpu]
         /\ UNCHANGED <<procs, queues, inbox>>
         /\ Scheduler(readyQueue)
  BY DEF Receive, msgs
<1>3. Live' = Live /\ \A p : /\ IsFree(p)' = IsFree(p)
                             /\ SoftBlocked(p)' = SoftBlocked(p)
  BY <1>2 DEF Live, IsFree, SoftBlocked, OnClock, OnDevice, procs, queues
<1>4. CASE /\ TakeMessage(current_process, Min(M))
           /\ UNCHANGED <<procs, readyQueue, queues, current_process, p_s>>
  <2>1. \A p \in Pcb : p # current_process => inbox'[p] = inbox[p]
    BY <1>4 DEF TakeMessage, TypeInv, Msgs
  <2>2. ASSUME NEW p \in Live'
        PROVE  Held(p)' \/ StaysAsleep(p)
    BY <1>3, <1>4, <2>1 DEF Held, StaysAsleep, Linked, IsReady, Live
  <2> QED  BY <2>2, WakeupsKept
<1>5. CASE /\ M = {} /\ p_s' = [p_s EXCEPT ![current_process] = cpu]
           /\ UNCHANGED <<procs, queues, inbox>>
           /\ Scheduler(readyQueue)
  <2>1. \A p \in Pcb : IsReady(p) => p = current_process' \/ IsReady(p)'
    BY <1>1, <1>5, SchedulerStep DEF TypeInv, CPU, IsReady
  <2>2. ASSUME NEW p, p = current_process
        PROVE  Asleep(p)'
    <3>1. p_s'[p] = cpu /\ inbox' = inbox
      BY <1>1, <1>5, <2>2 DEF TypeInv, Saved
    <3> QED  BY <1>1, <1>5, <2>2, <3>1 DEF Asleep, Matching
  <2>3. \A p \in Pcb : p # current_process => p_s'[p] = p_s[p]
    BY <1>5 DEF TypeInv, Saved
  <2>4. ASSUME NEW p \in Live', p # current_process
        PROVE  Held(p)' \/ StaysAsleep(p)
    BY <1>3, <1>5, <2>1, <2>3, <2>4 DEF Held, StaysAsleep, Linked, Live
  <2> QED  BY <2>2, <2>4, WakeupsKept
<1> QED  BY <1>2, <1>4, <1>5

\* terminateProcess() unlinks only PCBs it frees.
LEMMA TerminateWakeups ==
  ASSUME TypeInv, NoLostWakeup, NEW q, TerminateProcess(q),
         UNCHANGED <<inbox, p_s>>,
         \A p \in Pcb : IsReady(p) => p = current_process' \/ IsReady(p)',
         \/ current_process' = current_process
         \/ current_process \in pcbFree_h'
  PROVE  NoLostWakeup'
<1>1. /\ pcbFree_h \subseteq pcbFree_h'
      /\ \A p \in Pcb : SoftBlocked(p) => SoftBlocked(p)' \/ IsFree(p)'
  BY TerminateStep DEF TypeInv
<1>2. ASSUME NEW p \in Live'
      PROVE  Held(p)' \/ StaysAsleep(p)
  BY <1>1 DEF Held, StaysAsleep, Linked, Live, IsFree
<1> QED  BY <1>2, WakeupsKept

\* A process that dies loses nobody else's wake-up.
LEMMA TrapWakeups ==
  ASSUME TypeInv, NoLostWakeup, Trap
  PROVE  NoLostWakeup'
<1> SUFFICES ASSUME ~Break PROVE NoLostWakeup'
  BY BreakWakeups
<1>1. /\ TerminateProcess(current_process) /\ UNCHANGED <<inbox, p_s>>
      /\ Scheduler(readyQueue) /\ Procs' /\ Saved' /\ current_process \in Pcb
  BY TrapTypes DEF Trap, ClientRuns, Executes, TypeInv, CPU, msgs
<1>2. \A p \in Pcb : IsReady(p) => p = current_process' \/ IsReady(p)'
  BY <1>1, SchedulerStep DEF TypeInv, CPU, IsReady
<1>3. current_process \in pcbFree_h'
  BY <1>1 DEF TerminateProcess, Subtree
<1> QED  BY <1>1, <1>2, <1>3, TerminateWakeups

\* A new process is ready.
LEMMA CreateProcessWakeups ==
  ASSUME TypeInv, NoLostWakeup, NEW p, NEW r, Serves(p, r), CreateProcess(p, r)
  PROVE  NoLostWakeup'
<1> SUFFICES ASSUME ~Break PROVE NoLostWakeup'
  BY BreakWakeups
<1>1. CASE UNCHANGED <<procs, readyQueue, queues, msgs, current_process, p_s>>
  BY <1>1, QuietWakeups DEF msgs
<1>2. CASE ~UNCHANGED <<procs, readyQueue, queues, msgs, current_process, p_s>>
  <2>1. PICK child \in pcbFree_h :
          /\ pcbFree_h' = pcbFree_h \ {child}
          /\ inbox' = [inbox EXCEPT ![child] = <<>>]
          /\ p_s' = [p_s EXCEPT ![child] = Running]
          /\ readyQueue' = insertProcQ(readyQueue, child)
    BY <1>2 DEF CreateProcess
  <2>2. UNCHANGED <<queues, current_process>>
    BY <1>2 DEF CreateProcess
  <2>3. ToSet(readyQueue') = ToSet(readyQueue) \cup {child}
    BY <2>1, AppendAdds DEF TypeInv, Procs, CPU, insertProcQ
  <2>4. \A q \in Pcb : q # child => inbox'[q] = inbox[q] /\ p_s'[q] = p_s[q]
    BY <2>1 DEF TypeInv, Msgs, Saved
  <2>5. \A q : SoftBlocked(q)' = SoftBlocked(q)
    BY <2>2 DEF SoftBlocked, OnClock, OnDevice, queues
  <2>6. ASSUME NEW q \in Live'
        PROVE  Held(q)' \/ StaysAsleep(q)
    BY <2>1, <2>2, <2>3, <2>4, <2>5
       DEF Held, StaysAsleep, Linked, Live, IsFree, IsReady
  <2> QED  BY <2>6, WakeupsKept
<1> QED  BY <1>1, <1>2

\* The processes TERMPROCESS leaves are where they were.
LEMMA TerminateServiceWakeups ==
  ASSUME TypeInv, NoLostWakeup, NEW p, NEW r, Terminate(p, r) \/ Refuse(p, r)
  PROVE  NoLostWakeup'
<1> SUFFICES ASSUME ~Break PROVE NoLostWakeup'
  BY BreakWakeups
<1>1. /\ \E victim : TerminateProcess(victim)
      /\ UNCHANGED <<readyQueue, inbox, current_process, p_s>>
  BY DEF Terminate, Refuse, msgs
<1>2. \A q : IsReady(q) => IsReady(q)'
  BY <1>1 DEF IsReady
<1> QED  BY <1>1, <1>2, TerminateWakeups

\* The caller of doio() moves to a device queue.
LEMMA DoIOWakeups ==
  ASSUME TypeInv, NoLostWakeup, NEW p, NEW r, Serves(p, r), DoIO(p, r)
  PROVE  NoLostWakeup'
<1> SUFFICES ASSUME ~Break PROVE NoLostWakeup'
  BY BreakWakeups
<1> DEFINE l == r.arg.line
<1>1. /\ readyQueue' = Without(readyQueue, {p})
      /\ blockedQueue' = [blockedQueue EXCEPT ![l] = insertProcQ(@, p)]
      /\ UNCHANGED <<procs, pseudoClockQueue, inbox, current_process, p_s>>
  BY DEF DoIO, msgs
<1>2. p \in Pcb /\ l \in Line
  BY NucleusAssumption DEF DoIO, Serves, NamesDevice
<1> HIDE DEF l
<1>3. ToSet(readyQueue') = ToSet(readyQueue) \ {p}
  BY <1>1, WithoutKeepsOthers DEF TypeInv, CPU
<1>4. ToSet(insertProcQ(blockedQueue[l], p)) = ToSet(blockedQueue[l]) \cup {p}
  BY <1>2, AppendAdds DEF TypeInv, Queues, insertProcQ
<1>5. /\ ToSet(blockedQueue'[l]) = ToSet(blockedQueue[l]) \cup {p}
      /\ \A k \in Line : ToSet(blockedQueue[k]) \subseteq ToSet(blockedQueue'[k])
  BY <1>1, <1>2, <1>4 DEF TypeInv, Queues
<1>6. SoftBlocked(p)' /\ \A q : SoftBlocked(q) => SoftBlocked(q)'
  BY <1>1, <1>2, <1>5 DEF SoftBlocked, OnClock, OnDevice
<1>7. ASSUME NEW q \in Live'
      PROVE  Held(q)' \/ StaysAsleep(q)
  BY <1>1, <1>3, <1>6 DEF Held, StaysAsleep, Linked, Live, IsFree, IsReady, procs
<1> QED  BY <1>7, WakeupsKept

\* The caller of wait4Clock() moves to the pseudo-clock queue.
LEMMA WaitForClockWakeups ==
  ASSUME TypeInv, NoLostWakeup, NEW p, NEW r, Serves(p, r), WaitForClock(p, r)
  PROVE  NoLostWakeup'
<1> SUFFICES ASSUME ~Break PROVE NoLostWakeup'
  BY BreakWakeups
<1>1. /\ pseudoClockQueue' = insertProcQ(pseudoClockQueue, p)
      /\ UNCHANGED <<procs, readyQueue, blockedQueue, inbox, current_process, p_s>>
  BY DEF WaitForClock, msgs
<1>2. ToSet(pseudoClockQueue') = ToSet(pseudoClockQueue) \cup {p}
  BY <1>1, AppendAdds DEF TypeInv, Queues, Serves, insertProcQ
<1>3. \A q : SoftBlocked(q) => SoftBlocked(q)'
  BY <1>1, <1>2 DEF SoftBlocked, OnClock, OnDevice
<1>4. ASSUME NEW q \in Live'
      PROVE  Held(q)' \/ StaysAsleep(q)
  BY <1>1, <1>3 DEF Held, StaysAsleep, Linked, Live, IsFree, IsReady, procs
<1> QED  BY <1>4, WakeupsKept

\* A service that only reads loses no wake-up.
LEMMA InquireWakeups ==
  ASSUME NoLostWakeup, NEW p, NEW r, Inquire(p, r)
  PROVE  NoLostWakeup'
BY BreakWakeups, QuietWakeups DEF Inquire, msgs

\* No service loses a wake-up.
LEMMA SSIServesWakeups == TypeInv /\ NoLostWakeup /\ SSIServes => NoLostWakeup'
BY SSIServesFor, CreateProcessWakeups, TerminateServiceWakeups, DoIOWakeups,
   WaitForClockWakeups, InquireWakeups DEF SSIRequest

\* No step of a process, the SSI included, loses a wake-up.
LEMMA ProcessWakeups == TypeInv /\ NoLostWakeup /\ ProcessStep => NoLostWakeup'
<1> SUFFICES ASSUME TypeInv, NoLostWakeup, ProcessStep PROVE NoLostWakeup'
  OBVIOUS
<1>1. CASE Break
  BY <1>1, BreakWakeups
<1>2. CASE Request /\ ~Break
  <2>1. current_process \in Pcb
    BY <1>2 DEF Request, ClientRuns, Executes, TypeInv, CPU
  <2>2. PICK r \in Requests :
          /\ Send(current_process, ssi_pcb, r)
          /\ UNCHANGED <<procs, queues, current_process, p_s>>
    BY <1>2 DEF Request
  <2>3. r \in Payload /\ NamesDevice(r)
    BY <2>1, RequestsSound
  <2> QED  BY <2>1, <2>2, <2>3, SendWakeups, NucleusAssumption DEF TypeInv
<1>3. CASE SendMessage /\ ~Break
  <2>1. current_process \in Pcb
    BY <1>3 DEF SendMessage, ClientRuns, Executes, TypeInv, CPU
  <2>2. PICK dest \in Pcb :
          /\ Send(current_process, dest, Nothing)
          /\ UNCHANGED <<procs, queues, current_process, p_s>>
    BY <1>3 DEF SendMessage
  <2> QED  BY <2>1, <2>2, SendWakeups, NothingIsPayload DEF TypeInv
<1>4. CASE Reply /\ ~Break
  <2>1. /\ cpu.op = "reply" /\ Send(ssi_pcb, cpu.who, cpu.val)
        /\ UNCHANGED <<procs, queues, current_process, p_s>>
    BY <1>4 DEF Reply
  <2>2. cpu.who \in Pcb /\ cpu.val \in Payload /\ NamesDevice(cpu.val)
    BY <2>1 DEF TypeInv, CPU, AtWork, Control
  <2> QED  BY <2>1, <2>2, SendWakeups, NucleusAssumption DEF TypeInv
<1>5. CASE WantMessage
  BY <1>5, QuietWakeups DEF WantMessage, msgs
<1> QED  BY <1>1, <1>2, <1>3, <1>4, <1>5, ReceiveWakeups, TrapWakeups, SSIServesWakeups
         DEF ProcessStep

\* NoLostWakeup is inductive given TypeInv.
LEMMA NextWakeups == TypeInv /\ NoLostWakeup /\ [Next]_vars => NoLostWakeup'
<1> SUFFICES ASSUME TypeInv, NoLostWakeup, [Next]_vars PROVE NoLostWakeup'
  OBVIOUS
<1>1. CASE UNCHANGED vars
  BY <1>1, QuietWakeups DEF vars, procs, queues
<1>2. CASE DeviceInterrupt
  BY <1>2, BreakWakeups, DismissWakeups, CompleteWakeups DEF DeviceInterrupt
<1>3. ASSUME NEW d \in Device, DeviceCompletes(d)
      PROVE  NoLostWakeup'
  BY <1>3, QuietWakeups DEF DeviceCompletes, msgs
<1> QED  BY <1>1, <1>2, <1>3, ProcessWakeups, PLTInterruptWakeups, TimerInterruptWakeups
         DEF Next, Stopped

\* After main() no wake-up is lost.
LEMMA InitWakeups == Init => NoLostWakeup
<1> SUFFICES ASSUME Init PROVE NoLostWakeup
  OBVIOUS
<1>1. ToSet(readyQueue) = {test_pcb}
  BY DEF Init, ToSet
<1> QED  BY <1>1 DEF Init, NoLostWakeup, Live, Linked, IsFree, IsReady

\* No wake-up is ever lost, whatever processes do: a live process that neither
\* runs nor sits in a queue is blocked in recv() and has no message it waits for.
THEOREM NoWakeupIsLost == Spec => []NoLostWakeup
<1>1. Init => TypeInv /\ NoLostWakeup
  BY InitTypes, InitWakeups
<1>2. TypeInv /\ NoLostWakeup /\ [Next]_vars => (TypeInv /\ NoLostWakeup)'
  BY NextTypes, NextWakeups
<1> QED  BY <1>1, <1>2, PTL DEF Spec
=============================================================================
