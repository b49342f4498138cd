---------------------------- MODULE NucleusPlaces ----------------------------
(***************************************************************************)
(* Theorems about Nucleus, for any number of PCBs, devices and messages:   *)
(* every PCB is in one place, the process tree and the two counters agree  *)
(* with those places, and so the scheduler's verdicts are right.  They     *)
(* hold of any behaviour of the processes, prudent or not, that does not   *)
(* ask the SSI to terminate the SSI.  And every message descriptor is on   *)
(* the free list or in a live inbox, if nobody dies or writes to the dead. *)
(*                                                                         *)
(* None of these properties is inductive alone.  That a PCB is in one      *)
(* place (Settled) needs that the SSI is neither blocked on a queue nor    *)
(* a caller or a victim of its own services (SSIStands): terminateProcess  *)
(* and doio() unlink whom they are told, and would unlink the running SSI. *)
(***************************************************************************)
EXTENDS NucleusProofs

\* No process names the SSI in a TERMPROCESS request.
SSISpared == "KILL" \in Behaviour => ssi_pcb \notin Victim

\* Lists that share no PCB and hold none twice: the free list, the ready queue,
\* the pseudo-clock queue, the device queues, and the PCB on the CPU.
Settled(free, ready, clock, blocked, running) ==
  /\ IsInjective(ready) /\ IsInjective(clock)
  /\ \A l \in Line : IsInjective(blocked[l])
  /\ \A p \in Pcb :
       /\ p \in free         => p # running
       /\ p \in ToSet(ready) => p # running /\ p \notin free
       /\ p \in ToSet(clock) => p # running /\ p \notin free /\ p \notin ToSet(ready)
       /\ \A l \in Line :
            p \in ToSet(blocked[l]) =>
              /\ p # running /\ p \notin free
              /\ p \notin ToSet(ready) /\ p \notin ToSet(clock)
              /\ \A k \in Line : p \in ToSet(blocked[k]) => k = l

PlaceInv ==
  Settled(pcbFree_h, readyQueue, pseudoClockQueue, blockedQueue, current_process)

\* A request whose victim, if it names one, is a PCB other than the SSI's.
Spares(r) == r.service = "TERMPROCESS" => r.arg \in (Pcb \ {ssi_pcb}) \cup {NULL}

\* The SSI is a live root process on no device or clock queue, ...
SSILives ==
  ~IsFree(ssi_pcb) /\ p_parent[ssi_pcb] = NULL /\ ~SoftBlocked(ssi_pcb)

\* ... it alone serves, and never itself nor to its own end, ...
SSIServesOthers ==
  cpu.op \in {"serve", "reply"} =>
    current_process = ssi_pcb /\ cpu.who # ssi_pcb /\ Spares(cpu.val)

\* ... and what it will serve is of this kind.
SSIInbox ==
  \A i \in DOMAIN inbox[ssi_pcb] :
    inbox[ssi_pcb][i].sender # ssi_pcb /\ Spares(inbox[ssi_pcb][i].payload)

SSIStands == SSILives /\ SSIServesOthers /\ SSIInbox

\* What the mode says of the counters and of the CPU.
ModeInv ==
  /\ mode \in {"wait", "halt", "panic"} => current_process = NULL /\ readyQueue = <<>>
  /\ mode = "halt"  => processCount = 1
  /\ mode = "panic" => softBlockCount = 0
  /\ mode = "wait"  => softBlockCount # 0
-----------------------------------------------------------------------------
(* Building blocks of the handlers *)

\* scheduler() moves the head of the ready queue to the CPU.
LEMMA SchedulerPlaces ==
  ASSUME NEW ready \in Seq(Pcb), Scheduler(ready),
         Settled(pcbFree_h', ready, pseudoClockQueue', blockedQueue', NULL)
  PROVE  PlaceInv'
<1>1. CASE ready # <<>>
  <2>1. /\ ToSet(ready) = ToSet(Tail(ready)) \cup {Head(ready)}
        /\ IsInjective(Tail(ready)) /\ Head(ready) \notin ToSet(Tail(ready))
    BY <1>1, HeadTaken, TailDistinct DEF Settled
  <2>2. current_process' = Head(ready) /\ readyQueue' = Tail(ready)
    BY <1>1 DEF Scheduler
  <2> QED  BY <2>1, <2>2 DEF Settled, PlaceInv
<1>2. CASE ready = <<>>
  BY <1>2 DEF Scheduler, Settled, PlaceInv
<1> QED  BY <1>1, <1>2

\* The end of an interrupt leaves the interrupted process on the CPU.
LEMMA ExitInterruptPlaces ==
  ASSUME NEW ready \in Seq(Pcb), ExitInterrupt(ready),
         Settled(pcbFree_h', ready, pseudoClockQueue', blockedQueue', current_process)
  PROVE  PlaceInv'
<1>1. CASE current_process = NULL
  BY <1>1, SchedulerPlaces DEF ExitInterrupt
<1>2. CASE current_process # NULL
  BY <1>2 DEF ExitInterrupt, PlaceInv
<1> QED  BY <1>1, <1>2

\* Whom scheduler() runs is not at work on a request.
LEMMA SchedulerServes ==
  ASSUME NEW ready \in Seq(Pcb), Scheduler(ready), Saved'
  PROVE  SSIServesOthers'
<1>1. CASE ready # <<>>
  BY <1>1, HeadTaken DEF Scheduler, Saved, AtRest, SSIServesOthers
<1>2. CASE ready = <<>>
  BY <1>2 DEF Scheduler, Running, SSIServesOthers
<1> QED  BY <1>1, <1>2

\* Nor does the end of an interrupt change who serves.
LEMMA ExitInterruptServes ==
  ASSUME NEW ready \in Seq(Pcb), ExitInterrupt(ready), Saved', SSIServesOthers
  PROVE  SSIServesOthers'
<1>1. CASE current_process # NULL
  BY <1>1 DEF ExitInterrupt, SSIServesOthers
<1>2. CASE current_process = NULL
  BY <1>2, SchedulerServes DEF ExitInterrupt
<1> QED  BY <1>1, <1>2

\* A message added to an inbox that is not the SSI's, or that it may serve.
LEMMA InboxGrows ==
  ASSUME Msgs, SSIInbox, NEW dest \in Pcb, NEW m \in SoundMessage,
         inbox' = [inbox EXCEPT ![dest] = Append(@, m)],
         dest = ssi_pcb => m.sender # ssi_pcb /\ Spares(m.payload)
  PROVE  SSIInbox'
<1>1. ssi_pcb \in Pcb /\ inbox[ssi_pcb] \in Seq(SoundMessage)
  BY NucleusAssumption DEF Msgs
<1>2. CASE dest # ssi_pcb
  BY <1>1, <1>2 DEF Msgs, SSIInbox
<1>3. CASE dest = ssi_pcb
  <2> DEFINE s == inbox[ssi_pcb]
             t == Append(s, m)
  <2>1. /\ Len(s) \in Nat /\ DOMAIN s = 1..Len(s) /\ DOMAIN t = 1..Len(s) + 1
        /\ t[Len(s) + 1] = m /\ \A n \in 1..Len(s) : t[n] = s[n]
    BY <1>1, LenProperties, AppendProperties
  <2>2. inbox'[ssi_pcb] = t
    BY <1>1, <1>3 DEF Msgs
  <2>3. \A n \in DOMAIN s : s[n].sender # ssi_pcb /\ Spares(s[n].payload)
    BY DEF SSIInbox
  <2> HIDE DEF s, t
  <2>4. \A n \in DOMAIN t : n \in DOMAIN s \/ n = Len(s) + 1
    BY <2>1
  <2>5. \A n \in DOMAIN t : t[n].sender # ssi_pcb /\ Spares(t[n].payload)
    BY <1>3, <2>1, <2>3, <2>4
  <2> QED  BY <2>2, <2>5 DEF SSIInbox, Spares
<1> QED  BY <1>2, <1>3

\* send() makes the destination ready only if it is in no other place.
LEMMA SendPlaces ==
  ASSUME TypeInv, PlaceInv, NEW sender, NEW dest \in Pcb, NEW payload,
         Send(sender, dest, payload), ~SendBreaks(dest),
         UNCHANGED <<procs, queues, current_process>>
  PROVE  PlaceInv'
<1>1. CASE readyQueue' = readyQueue
  BY <1>1 DEF PlaceInv, procs, queues
<1>2. CASE readyQueue' # readyQueue
  <2>1. /\ readyQueue' = Append(readyQueue, dest)
        /\ dest # current_process /\ ~Linked(dest)
    BY <1>2 DEF Send, SendBreaks, Wakes, insertProcQ
  <2>2. /\ ToSet(readyQueue') = ToSet(readyQueue) \cup {dest}
        /\ IsInjective(readyQueue')
    BY <2>1, AppendAdds, AppendDistinct
       DEF TypeInv, CPU, PlaceInv, Settled, Linked, IsReady
  <2> QED  BY <2>1, <2>2 DEF PlaceInv, Settled, procs, queues, Linked, IsFree, IsReady,
                             SoftBlocked, OnClock, OnDevice
<1> QED  BY <1>1, <1>2

\* What send() puts in the SSI's inbox, it may serve.
LEMMA SendInbox ==
  ASSUME Msgs, SSIInbox, NEW sender \in Pcb, NEW dest \in Pcb, NEW payload \in Payload,
         NamesDevice(payload), Send(sender, dest, payload),
         dest = ssi_pcb => sender # ssi_pcb /\ Spares(payload)
  PROVE  SSIInbox'
<1>1. CASE inbox' = inbox
  BY <1>1 DEF SSIInbox
<1>2. CASE inbox' # inbox
  <2> DEFINE m == [sender |-> sender, payload |-> payload]
  <2>1. m \in SoundMessage /\ m.sender = sender /\ m.payload = payload
    BY DEF SoundMessage, Message
  <2>2. inbox' = [inbox EXCEPT ![dest] = Append(@, m)]
    BY <1>2 DEF Send, msgs
  <2> HIDE DEF m
  <2> QED  BY <2>1, <2>2, InboxGrows
<1> QED  BY <1>1, <1>2
-----------------------------------------------------------------------------
(* terminateProcess() *)

\* A process and all its progeny: whoever has a parent there is there.
LEMMA SubtreeClosed ==
  ASSUME NEW p \in Pcb
  PROVE  /\ p \in Subtree(p) /\ Subtree(p) \in SUBSET Pcb
         /\ \A c \in Pcb : p_parent[c] \in Subtree(p) => c \in Subtree(p)
BY DEF Subtree

\* The SSI has no parent, and so dies with nobody.
LEMMA SSIOutside ==
  ASSUME Procs, SSILives, NEW p \in Pcb \ {ssi_pcb}
  PROVE  ssi_pcb \notin Subtree(p)
<1> DEFINE S == Pcb \ {ssi_pcb}
<1>1. \A c \in Pcb : p_parent[c] \in S => c \in S
  BY NucleusAssumption DEF SSILives
<1> QED  BY <1>1 DEF Subtree

\* The victims are neither free nor ready, and each blocked one is found.
LEMMA VictimsFound ==
  ASSUME TypeInv, PlaceInv, NEW p \in Pcb, ~TerminateBreaks(p), NEW q \in Subtree(p)
  PROVE  /\ ~IsFree(q) /\ ~IsReady(q)
         /\ q \in FoundBlocked(Subtree(p)) <=> SoftBlocked(q)
         /\ \A l \in Line : q \in ToSet(blockedQueue[l]) => l \in SearchedLines(q)
<1>1. q \in Pcb
  BY SubtreeClosed
<1>2. Linked(q) => q \in FoundBlocked(Subtree(p))
  BY DEF TerminateBreaks
<1>3. q \in FoundBlocked(Subtree(p)) =>
        OnClock(q) \/ \E l \in SearchedLines(q) : l \in Line /\ q \in ToSet(blockedQueue[l])
  BY DEF FoundBlocked, SearchedLines
<1>4. ~IsFree(q) /\ ~IsReady(q)
  BY <1>1, <1>2, <1>3 DEF PlaceInv, Settled, IsFree, IsReady, OnClock, Linked
<1>5. q \in FoundBlocked(Subtree(p)) <=> SoftBlocked(q)
  BY <1>2, <1>3 DEF Linked, SoftBlocked, OnDevice
<1>6. \A l \in Line : q \in ToSet(blockedQueue[l]) => l \in SearchedLines(q)
  BY <1>1, <1>3, <1>5 DEF PlaceInv, Settled, SoftBlocked, OnDevice, OnClock
<1> QED  BY <1>4, <1>5, <1>6

\* The queues hold whom they held but the victims, in the same order.
LEMMA VictimsUnlinked ==
  ASSUME TypeInv, PlaceInv, NEW p \in Pcb, TerminateProcess(p), ~TerminateBreaks(p)
  PROVE  /\ IsInjective(pseudoClockQueue')
         /\ ToSet(pseudoClockQueue') = ToSet(pseudoClockQueue) \ Subtree(p)
         /\ \A l \in Line :
              /\ IsInjective(blockedQueue'[l])
              /\ ToSet(blockedQueue'[l]) = ToSet(blockedQueue[l]) \ Subtree(p)
<1> DEFINE K == Subtree(p)
           Searching(l) == {q \in K : l \in SearchedLines(q)}
<1>1. /\ blockedQueue' = [l \in Line |-> Without(blockedQueue[l], Searching(l))]
      /\ pseudoClockQueue' = Without(pseudoClockQueue, K)
  BY DEF TerminateProcess
<1>2. \A l \in Line : \A q \in K : q \in ToSet(blockedQueue[l]) => q \in Searching(l)
  BY VictimsFound
<1>3. \A l \in Line : Searching(l) \subseteq K
  OBVIOUS
<1> HIDE DEF K, Searching
<1>4. /\ IsInjective(pseudoClockQueue')
      /\ ToSet(pseudoClockQueue') = ToSet(pseudoClockQueue) \ K
  BY <1>1, WithoutKeepsOthers, WithoutDistinct DEF TypeInv, Queues, PlaceInv, Settled
<1>5. ASSUME NEW l \in Line
      PROVE  /\ IsInjective(blockedQueue'[l])
             /\ ToSet(blockedQueue'[l]) = ToSet(blockedQueue[l]) \ K
  <2>1. blockedQueue[l] \in Seq(Pcb) /\ IsInjective(blockedQueue[l])
    BY DEF TypeInv, Queues, PlaceInv, Settled
  <2>2. blockedQueue'[l] = Without(blockedQueue[l], Searching(l))
    BY <1>1
  <2>3. /\ IsInjective(blockedQueue'[l])
        /\ ToSet(blockedQueue'[l]) = ToSet(blockedQueue[l]) \ Searching(l)
    BY <2>1, <2>2, WithoutKeepsOthers, WithoutDistinct
  <2> QED  BY <1>2, <1>3, <2>3
<1> QED  BY <1>4, <1>5 DEF K

\* The victims leave the place they were in for the free list.
LEMMA TerminatePlaces ==
  ASSUME TypeInv, PlaceInv, NEW p \in Pcb, TerminateProcess(p), ~TerminateBreaks(p),
         NEW running \in {current_process, NULL}, running \notin Subtree(p)
  PROVE  Settled(pcbFree_h', readyQueue, pseudoClockQueue', blockedQueue', running)
<1>1. pcbFree_h' = pcbFree_h \cup Subtree(p)
  BY DEF TerminateProcess
<1>2. \A q \in Subtree(p) : q \notin ToSet(readyQueue)
  BY VictimsFound DEF IsReady
<1>3. NULL \notin Pcb
  BY NucleusAssumption
<1> QED  BY <1>1, <1>2, <1>3, VictimsUnlinked DEF PlaceInv, Settled

\* The SSI stands unless it is a victim.
LEMMA TerminateSSI ==
  ASSUME TypeInv, PlaceInv, SSILives, NEW p \in Pcb \ {ssi_pcb}, TerminateProcess(p),
         ~TerminateBreaks(p)
  PROVE  SSILives'
<1>1. ssi_pcb \notin Subtree(p) /\ ssi_pcb \in Pcb
  BY SSIOutside, NucleusAssumption DEF TypeInv
<1>2. ~IsFree(ssi_pcb)' /\ p_parent'[ssi_pcb] = NULL
  BY <1>1 DEF TerminateProcess, SSILives, IsFree
<1>3. ~SoftBlocked(ssi_pcb)'
  BY <1>1, VictimsUnlinked DEF SSILives, SoftBlocked, OnClock, OnDevice
<1> QED  BY <1>2, <1>3 DEF SSILives
-----------------------------------------------------------------------------
(* One place for each PCB, step by step *)

\* The SSI's life depends on the tree and the queues only.
LEMMA QuietSSI ==
  ASSUME SSILives, UNCHANGED <<procs, queues>>
  PROVE  SSILives'
BY DEF SSILives, IsFree, SoftBlocked, OnClock, OnDevice, procs, queues

\* Steps that move no process and send no message.
LEMMA QuietPlaces ==
  ASSUME PlaceInv, SSIStands, SSIServesOthers',
         UNCHANGED <<procs, readyQueue, queues, inbox, current_process>>
  PROVE  PlaceInv' /\ SSIStands'
<1>1. PlaceInv'
  BY DEF PlaceInv, procs, queues
<1>2. SSILives' /\ SSIInbox'
  BY QuietSSI DEF SSIStands, SSIInbox
<1> QED  BY <1>1, <1>2 DEF SSIStands

\* A list operation outside its contract moves nobody.
LEMMA BreakPlaces == PlaceInv /\ SSIStands /\ Break => PlaceInv' /\ SSIStands'
<1> SUFFICES ASSUME PlaceInv, SSIStands, Break PROVE PlaceInv' /\ SSIStands'
  OBVIOUS
<1>1. SSIServesOthers'
  BY DEF Break, SSIStands, SSIServesOthers
<1> QED  BY <1>1, QuietPlaces DEF Break, msgs

\* main() puts two PCBs to use and leaves the others free.
LEMMA InitPlaces == Init => PlaceInv /\ SSIStands
<1> SUFFICES ASSUME Init PROVE PlaceInv /\ SSIStands
  OBVIOUS
<1>1. ToSet(<<test_pcb>>) = {test_pcb} /\ IsInjective(<<test_pcb>>)
  BY DEF ToSet, IsInjective
<1>2. ToSet(<<>>) = {} /\ IsInjective(<<>>)
  BY DEF ToSet, IsInjective
<1>3. PlaceInv
  BY <1>1, <1>2, NucleusAssumption DEF Init, PlaceInv, Settled
<1>4. SSIStands
  BY <1>2, NucleusAssumption
     DEF Init, SSIStands, SSILives, SSIServesOthers, SSIInbox, IsFree, SoftBlocked,
         OnClock, OnDevice, AtLoopHead, ReceiveFrom
<1> QED  BY <1>3, <1>4

\* An interrupt nobody waits for.
LEMMA DismissPlaces ==
  ASSUME TypeInv, TypeInv', PlaceInv, SSIStands, NEW d \in Device, Dismiss(d)
  PROVE  PlaceInv' /\ SSIStands'
<1>1. /\ UNCHANGED <<procs, queues, inbox>> /\ ExitInterrupt(readyQueue)
      /\ readyQueue \in Seq(Pcb)
  BY DEF Dismiss, TypeInv, CPU, msgs
<1>2. PlaceInv'
  BY <1>1, ExitInterruptPlaces DEF PlaceInv, procs, queues
<1>3. SSIStands'
  BY <1>1, QuietSSI, ExitInterruptServes DEF TypeInv, SSIStands, SSIInbox
<1> QED  BY <1>2, <1>3

\* unlockPcbDevNo(): the waiter, which is nowhere else, leaves its device queue.
LEMMA CompleteUnlinks ==
  ASSUME TypeInv, PlaceInv, NEW d \in Device, Complete(d)
  PROVE  LET w == Waiter(d) IN
           /\ w \in Pcb /\ OnDevice(w) /\ w # current_process
           /\ ~IsFree(w) /\ ~IsReady(w) /\ ~OnClock(w)
           /\ \A l \in Line : /\ IsInjective(blockedQueue'[l])
                              /\ ToSet(blockedQueue'[l]) = ToSet(blockedQueue[l]) \ {w}
<1> DEFINE w == Waiter(d)
           line == d.line
<1>1. blockedQueue' = [blockedQueue EXCEPT ![line] = Without(@, {w})]
  BY DEF Complete
<1>2. w \in Pcb /\ line \in Line /\ w \in ToSet(blockedQueue[line])
  BY WaiterIsPcb, NucleusAssumption DEF Complete, TypeInv
<1> HIDE DEF w, line
<1>3. /\ w # current_process /\ w \notin pcbFree_h
      /\ w \notin ToSet(readyQueue) /\ w \notin ToSet(pseudoClockQueue)
      /\ \A k \in Line : w \in ToSet(blockedQueue[k]) => k = line
  BY <1>2 DEF PlaceInv, Settled
<1>4. ASSUME NEW k \in Line
      PROVE  /\ IsInjective(blockedQueue'[k])
             /\ ToSet(blockedQueue'[k]) = ToSet(blockedQueue[k]) \ {w}
  <2>1. blockedQueue[k] \in Seq(Pcb) /\ IsInjective(blockedQueue[k])
    BY DEF TypeInv, Queues, PlaceInv, Settled
  <2>2. CASE k = line
    <3>1. blockedQueue'[k] = Without(blockedQueue[k], {w})
      BY <1>1, <2>2 DEF TypeInv, Queues
    <3> QED  BY <2>1, <3>1, WithoutKeepsOthers, WithoutDistinct
  <2>3. CASE k # line
    <3>1. blockedQueue'[k] = blockedQueue[k] /\ w \notin ToSet(blockedQueue[k])
      BY <1>1, <1>3, <2>3 DEF TypeInv, Queues
    <3> QED  BY <2>1, <3>1
  <2> QED  BY <2>2, <2>3
<1>5. OnDevice(w) /\ ~IsFree(w) /\ ~IsReady(w) /\ ~OnClock(w)
  BY <1>2, <1>3 DEF OnDevice, IsFree, IsReady, OnClock
<1> QED  BY <1>2, <1>3, <1>4, <1>5 DEF w

\* The waiter of an interrupt leaves its device queue for the ready queue.
LEMMA CompletePlaces ==
  ASSUME TypeInv, TypeInv', PlaceInv, SSIStands, NEW d \in Device, Complete(d)
  PROVE  PlaceInv' /\ SSIStands'
<1> DEFINE w == Waiter(d)
           ready == Append(readyQueue, w)
<1>1. /\ inbox' = [inbox EXCEPT ![w] = Append(@, FromSSI(Status(d)))]
      /\ UNCHANGED <<procs, pseudoClockQueue>> /\ ExitInterrupt(ready)
  BY DEF Complete, insertProcQ
<1>2. /\ w \in Pcb /\ OnDevice(w) /\ w # current_process
      /\ w \notin pcbFree_h /\ w \notin ToSet(readyQueue)
      /\ w \notin ToSet(pseudoClockQueue)
  BY CompleteUnlinks DEF IsFree, IsReady, OnClock
<1>3. \A k \in Line : /\ IsInjective(blockedQueue'[k])
                      /\ ToSet(blockedQueue'[k]) = ToSet(blockedQueue[k]) \ {w}
  BY CompleteUnlinks
<1>4. w # ssi_pcb
  BY <1>2 DEF SSIStands, SSILives, SoftBlocked
<1>5. FromSSI(Status(d)) \in SoundMessage
  BY NucleusAssumption
     DEF FromSSI, Status, SoundMessage, Message, Payload, NamesDevice, Service
<1> HIDE DEF w
<1>6. /\ ready \in Seq(Pcb) /\ ToSet(ready) = ToSet(readyQueue) \cup {w}
      /\ IsInjective(ready)
  BY <1>2, AppendAdds, AppendDistinct DEF TypeInv, CPU, PlaceInv, Settled
<1> HIDE DEF ready
<1>7. Settled(pcbFree_h', ready, pseudoClockQueue', blockedQueue', current_process)
  <2>1. \A k \in Line : IsInjective(blockedQueue'[k])
    BY <1>3
  <2>2. ASSUME NEW p \in Pcb, NEW k \in Line, p \in ToSet(blockedQueue'[k])
        PROVE  p # w /\ p \in ToSet(blockedQueue[k])
    BY <1>3, <2>2
  <2>3. pcbFree_h' = pcbFree_h /\ pseudoClockQueue' = pseudoClockQueue
    BY <1>1 DEF procs
  <2> QED  BY <1>2, <1>6, <2>1, <2>2, <2>3 DEF PlaceInv, Settled
<1>8. PlaceInv'
  BY <1>1, <1>6, <1>7, ExitInterruptPlaces
<1>9. SSILives'
  BY <1>1, <1>3 DEF SSIStands, SSILives, IsFree, SoftBlocked, OnClock, OnDevice, procs
<1>10. SSIInbox'
  BY <1>1, <1>2, <1>4, <1>5, InboxGrows DEF TypeInv, SSIStands
<1>11. SSIServesOthers'
  BY <1>1, <1>6, ExitInterruptServes DEF TypeInv, SSIStands
<1> QED  BY <1>8, <1>9, <1>10, <1>11 DEF SSIStands

\* The whole pseudo-clock queue moves behind the ready queue.
LEMMA TimerInterruptPlaces ==
  ASSUME TypeInv, TypeInv', PlaceInv, SSIStands, TimerInterrupt
  PROVE  PlaceInv' /\ SSIStands'
<1> SUFFICES ASSUME ~Break PROVE PlaceInv' /\ SSIStands'
  BY BreakPlaces
<1> DEFINE ready == readyQueue \o pseudoClockQueue
<1>1. /\ inbox' = [p \in Pcb |-> IF OnClock(p) THEN Append(inbox[p], TickMessage)
                                               ELSE inbox[p]]
      /\ pseudoClockQueue' = <<>>
      /\ UNCHANGED <<procs, blockedQueue>> /\ ExitInterrupt(ready)
  BY DEF TimerInterrupt
<1>2. /\ ready \in Seq(Pcb) /\ IsInjective(ready)
      /\ ToSet(ready) = ToSet(readyQueue) \cup ToSet(pseudoClockQueue)
  <2>1. readyQueue \in Seq(Pcb) /\ pseudoClockQueue \in Seq(Pcb)
    BY DEF TypeInv, CPU, Queues
  <2>2. /\ IsInjective(readyQueue) /\ IsInjective(pseudoClockQueue)
        /\ \A p \in Pcb : ~(p \in ToSet(readyQueue) /\ p \in ToSet(pseudoClockQueue))
    BY DEF PlaceInv, Settled
  <2> QED  BY <2>1, <2>2, ConcatAdds, ConcatDistinct
<1> HIDE DEF ready
<1>3. ToSet(pseudoClockQueue') = {} /\ IsInjective(pseudoClockQueue')
  BY <1>1 DEF ToSet, IsInjective
<1>4. Settled(pcbFree_h', ready, pseudoClockQueue', blockedQueue', current_process)
  BY <1>1, <1>2, <1>3 DEF PlaceInv, Settled, procs
<1>5. PlaceInv'
  BY <1>1, <1>2, <1>4, ExitInterruptPlaces
<1>6. SSILives'
  BY <1>1, <1>3 DEF SSIStands, SSILives, IsFree, SoftBlocked, OnClock, OnDevice, procs
<1>7. SSIInbox'
  BY <1>1, NucleusAssumption DEF SSIStands, SSILives, SSIInbox, SoftBlocked
<1>8. SSIServesOthers'
  BY <1>1, <1>2, ExitInterruptServes DEF TypeInv, SSIStands
<1> QED  BY <1>5, <1>6, <1>7, <1>8 DEF SSIStands

\* The preempted process leaves the CPU for the ready queue.
LEMMA PLTInterruptPlaces ==
  ASSUME TypeInv, TypeInv', PlaceInv, SSIStands, PLTInterrupt
  PROVE  PlaceInv' /\ SSIStands'
<1> SUFFICES ASSUME ~Break PROVE PlaceInv' /\ SSIStands'
  BY BreakPlaces
<1> DEFINE ready == Append(readyQueue, current_process)
<1>1. /\ UNCHANGED <<procs, queues, inbox>> /\ Scheduler(ready)
      /\ current_process \in Pcb /\ ~Linked(current_process)
  BY DEF PLTInterrupt, TypeInv, CPU, msgs, insertProcQ
<1>2. /\ ready \in Seq(Pcb) /\ IsInjective(ready)
      /\ ToSet(ready) = ToSet(readyQueue) \cup {current_process}
  BY <1>1, AppendAdds, AppendDistinct
     DEF TypeInv, CPU, PlaceInv, Settled, Linked, IsReady
<1> HIDE DEF ready
<1>3. Settled(pcbFree_h', ready, pseudoClockQueue', blockedQueue', NULL)
  BY <1>1, <1>2, NucleusAssumption DEF PlaceInv, Settled, procs, queues
<1>4. PlaceInv'
  BY <1>1, <1>2, <1>3, SchedulerPlaces
<1>5. SSIStands'
  BY <1>1, <1>2, QuietSSI, SchedulerServes DEF TypeInv, SSIStands, SSIInbox
<1> QED  BY <1>4, <1>5

\* A request makes the SSI ready if it was asleep.
LEMMA RequestPlaces ==
  ASSUME SSISpared, TypeInv, PlaceInv, SSIStands, Request
  PROVE  PlaceInv' /\ SSIStands'
<1> SUFFICES ASSUME ~Break PROVE PlaceInv' /\ SSIStands'
  BY BreakPlaces
<1>1. current_process \in Pcb \ {ssi_pcb}
  BY DEF Request, ClientRuns, Executes, TypeInv, CPU
<1>2. PICK r \in Requests :
        /\ ~SendBreaks(ssi_pcb) /\ Send(current_process, ssi_pcb, r)
        /\ cpu' = AwaitAnswer(r)
        /\ UNCHANGED <<procs, queues, current_process>>
  BY DEF Request
<1>3. r \in Payload /\ NamesDevice(r)
  BY <1>1, RequestsSound
<1>4. Spares(r)
  BY NucleusAssumption DEF Requests, Spares, SSISpared
<1>5. PlaceInv'
  BY <1>2, SendPlaces, NucleusAssumption
<1>6. SSIInbox'
  BY <1>1, <1>2, <1>3, <1>4, SendInbox, NucleusAssumption DEF TypeInv, SSIStands
<1>7. SSIServesOthers'
  BY <1>2 DEF AwaitAnswer, SSIServesOthers
<1> QED  BY <1>2, <1>5, <1>6, <1>7, QuietSSI DEF SSIStands

\* A message to another process makes it ready if it was asleep.
LEMMA SendMessagePlaces ==
  ASSUME TypeInv, PlaceInv, SSIStands, SendMessage
  PROVE  PlaceInv' /\ SSIStands'
<1> SUFFICES ASSUME ~Break PROVE PlaceInv' /\ SSIStands'
  BY BreakPlaces
<1>1. current_process \in Pcb
  BY DEF SendMessage, ClientRuns, Executes, TypeInv, CPU
<1>2. PICK dest \in Pcb \ {ssi_pcb} :
        /\ ~SendBreaks(dest) /\ Send(current_process, dest, Nothing)
        /\ UNCHANGED <<procs, queues, current_process, cpu>>
  BY DEF SendMessage
<1>3. PlaceInv'
  BY <1>2, SendPlaces
<1>4. SSIInbox'
  BY <1>1, <1>2, NothingIsPayload, SendInbox DEF TypeInv, SSIStands
<1>5. SSIServesOthers'
  BY <1>2 DEF SSIStands, SSIServesOthers
<1> QED  BY <1>2, <1>3, <1>4, <1>5, QuietSSI DEF SSIStands

\* The SSI's answer makes its caller ready if it was asleep.
LEMMA ReplyPlaces ==
  ASSUME TypeInv, PlaceInv, SSIStands, Reply
  PROVE  PlaceInv' /\ SSIStands'
<1> SUFFICES ASSUME ~Break PROVE PlaceInv' /\ SSIStands'
  BY BreakPlaces
<1>1. /\ cpu.op = "reply" /\ cpu' = AtLoopHead
      /\ ~SendBreaks(cpu.who) /\ Send(ssi_pcb, cpu.who, cpu.val)
      /\ UNCHANGED <<procs, queues, current_process>>
  BY DEF Reply
<1>2. cpu.who \in Pcb /\ cpu.val \in Payload /\ NamesDevice(cpu.val)
  BY <1>1 DEF TypeInv, CPU, AtWork, Control
<1>3. cpu.who # ssi_pcb
  BY <1>1 DEF SSIStands, SSIServesOthers
<1>4. PlaceInv'
  BY <1>1, <1>2, SendPlaces
<1>5. SSIInbox'
  BY <1>1, <1>2, <1>3, SendInbox, NucleusAssumption DEF TypeInv, SSIStands
<1>6. SSIServesOthers'
  BY <1>1 DEF AtLoopHead, ReceiveFrom, SSIServesOthers
<1> QED  BY <1>1, <1>4, <1>5, <1>6, QuietSSI DEF SSIStands

\* A process about to receive stays where it is.
LEMMA WantMessagePlaces ==
  ASSUME PlaceInv, SSIStands, WantMessage
  PROVE  PlaceInv' /\ SSIStands'
<1>1. SSIServesOthers'
  BY DEF WantMessage, ReceiveFrom, SSIServesOthers
<1> QED  BY <1>1, QuietPlaces DEF WantMessage, msgs

\* popMessage(): the inbox holds what it held, but one.
LEMMA InboxShrinks ==
  ASSUME Msgs, SSIInbox, NEW p \in Pcb, NEW i \in DOMAIN inbox[p],
         inbox' = [inbox EXCEPT ![p] = RemoveAt(@, i)]
  PROVE  SSIInbox'
<1>1. ssi_pcb \in Pcb /\ inbox[ssi_pcb] \in Seq(SoundMessage)
  BY NucleusAssumption DEF Msgs
<1>2. CASE p # ssi_pcb
  BY <1>1, <1>2 DEF Msgs, SSIInbox
<1>3. CASE p = ssi_pcb
  <2> DEFINE s == inbox[ssi_pcb]
             t == RemoveAt(s, i)
  <2>1. Len(s) \in Nat /\ DOMAIN s = 1..Len(s)
    BY <1>1, LenProperties
  <2>2. /\ t \in Seq(SoundMessage) /\ DOMAIN t = 1..Len(s) - 1
        /\ \A n \in 1..Len(s) - 1 : t[n] = IF n < i THEN s[n] ELSE s[n + 1]
    <3>1. t \in Seq(SoundMessage) /\ Len(t) = Len(s) - 1
      BY <1>1, <1>3, RemoveAtIsSeq, RemoveAtMoves
    <3>2. DOMAIN t = 1..Len(t)
      BY <3>1, LenProperties
    <3> QED  BY <1>1, <1>3, <3>1, <3>2, RemoveAtMoves
  <2>3. inbox'[ssi_pcb] = t
    BY <1>1, <1>3 DEF Msgs
  <2>4. \A n \in DOMAIN s : s[n].sender # ssi_pcb /\ Spares(s[n].payload)
    BY DEF SSIInbox
  <2> HIDE DEF s, t
  <2>5. \A n \in DOMAIN t : \E k \in DOMAIN s : t[n] = s[k]
    <3>1. \A n \in 1..Len(s) - 1 : n \in 1..Len(s) /\ n + 1 \in 1..Len(s)
      BY <2>1
    <3> QED  BY <2>1, <2>2, <3>1
  <2>6. \A n \in DOMAIN t : t[n].sender # ssi_pcb /\ Spares(t[n].payload)
    BY <2>4, <2>5
  <2> QED  BY <2>3, <2>6 DEF SSIInbox, Spares
<1> QED  BY <1>2, <1>3

\* recv() keeps the process on the CPU or gives the CPU to the next one.
LEMMA ReceivePlaces ==
  ASSUME TypeInv, TypeInv', PlaceInv, SSIStands, Receive
  PROVE  PlaceInv' /\ SSIStands'
<1> DEFINE p == current_process
           M == Matching(p, cpu.who)
           m == inbox[p][Min(M)]
<1>1. p \in Pcb
  BY DEF Receive, Executes, TypeInv, CPU
<1>2. \/ /\ M # {} /\ TakeMessage(p, Min(M)) /\ cpu' = AfterReceive(m)
         /\ UNCHANGED <<procs, readyQueue, queues, current_process>>
      \/ /\ UNCHANGED <<procs, queues, inbox>>
         /\ Scheduler(readyQueue)
  BY DEF Receive, msgs
<1>3. CASE /\ M # {} /\ TakeMessage(p, Min(M)) /\ cpu' = AfterReceive(m)
           /\ UNCHANGED <<procs, readyQueue, queues, current_process>>
  <2>1. Min(M) \in DOMAIN inbox[p]
    BY <1>1, <1>3, FirstMatching DEF TypeInv
  <2>2. PlaceInv' /\ SSILives'
    BY <1>3, QuietSSI DEF PlaceInv, SSIStands, procs, queues
  <2>3. SSIInbox'
    BY <1>1, <1>3, <2>1, InboxShrinks DEF TakeMessage, TypeInv, SSIStands
  <2>4. p = ssi_pcb => m.sender # ssi_pcb /\ Spares(m.payload)
    BY <2>1 DEF SSIStands, SSIInbox
  <2>5. SSIServesOthers'
    BY <1>3, <2>4 DEF AfterReceive, Serving, Running, SSIServesOthers, Spares
  <2> QED  BY <2>2, <2>3, <2>5 DEF SSIStands
<1>4. CASE UNCHANGED <<procs, queues, inbox>> /\ Scheduler(readyQueue)
  <2>1. readyQueue \in Seq(Pcb) /\ Saved'
    BY DEF TypeInv, CPU
  <2>2. Settled(pcbFree_h', readyQueue, pseudoClockQueue', blockedQueue', NULL)
    BY <1>4, NucleusAssumption DEF PlaceInv, Settled, procs, queues
  <2>3. PlaceInv'
    BY <1>4, <2>1, <2>2, SchedulerPlaces
  <2>4. SSIStands'
    BY <1>4, <2>1, QuietSSI, SchedulerServes DEF SSIStands, SSIInbox
  <2> QED  BY <2>3, <2>4
<1> QED  BY <1>2, <1>3, <1>4

\* A process that dies leaves the CPU for the free list.
LEMMA TrapPlaces ==
  ASSUME TypeInv, TypeInv', PlaceInv, SSIStands, Trap
  PROVE  PlaceInv' /\ SSIStands'
<1> SUFFICES ASSUME ~Break PROVE PlaceInv' /\ SSIStands'
  BY BreakPlaces
<1>1. /\ TerminateProcess(current_process) /\ ~TerminateBreaks(current_process)
      /\ UNCHANGED inbox /\ Scheduler(readyQueue)
      /\ current_process \in Pcb \ {ssi_pcb}
  BY DEF Trap, ClientRuns, Executes, TypeInv, CPU, msgs
<1>2. readyQueue \in Seq(Pcb) /\ Saved' /\ NULL \notin Subtree(current_process)
  BY <1>1, SubtreeClosed, NucleusAssumption DEF TypeInv, CPU
<1>3. Settled(pcbFree_h', readyQueue, pseudoClockQueue', blockedQueue', NULL)
  BY <1>1, <1>2, TerminatePlaces
<1>4. PlaceInv'
  BY <1>1, <1>2, <1>3, SchedulerPlaces
<1>5. SSILives'
  BY <1>1, TerminateSSI DEF SSIStands
<1> QED  BY <1>1, <1>2, <1>4, <1>5, SchedulerServes DEF SSIStands, SSIInbox

\* The SSI at work: for another process, and not to its own end.
ServesAnother(p, r) ==
  Serves(p, r) /\ current_process = ssi_pcb /\ p # ssi_pcb /\ Spares(r)

\* So does the SSI when it serves.
LEMMA SSIServesAnother ==
  ASSUME TypeInv, SSIStands, SSIServes
  PROVE  ServesAnother(cpu.who, cpu.val) /\ SSIRequest(cpu.who, cpu.val)
BY SSIServesFor DEF SSIServes, SSIStands, SSIServesOthers, ServesAnother

\* Its answers go to another process, and are no requests to end the SSI.
LEMMA AnswersOthers ==
  ASSUME NEW p, NEW r, ServesAnother(p, r), UNCHANGED current_process,
         \/ NoAnswer(p, r)
         \/ Answer(p, r, NULL)
         \/ r.service # "TERMPROCESS" /\ \E result : Answer(p, r, result)
  PROVE  SSIServesOthers'
BY NucleusAssumption DEF NoAnswer, Answer, Replying, AtLoopHead, ReceiveFrom,
                         ServesAnother, SSIServesOthers, Spares

\* A free PCB becomes a ready process.
LEMMA CreateProcessPlaces ==
  ASSUME TypeInv, PlaceInv, SSIStands, NEW p, NEW r, ServesAnother(p, r),
         CreateProcess(p, r)
  PROVE  PlaceInv' /\ SSIStands'
<1> SUFFICES ASSUME ~Break PROVE PlaceInv' /\ SSIStands'
  BY BreakPlaces
<1>1. CASE /\ NoAnswer(p, r)
           /\ UNCHANGED <<procs, readyQueue, queues, msgs, current_process, p_s, dev, mode>>
  BY <1>1, AnswersOthers, QuietPlaces DEF msgs
<1>2. CASE ~NoAnswer(p, r)
           \/ ~UNCHANGED <<procs, readyQueue, queues, msgs, current_process, p_s, dev, mode>>
  <2>1. PICK child \in pcbFree_h :
          /\ pcbFree_h' = pcbFree_h \ {child}
          /\ p_parent' = [p_parent EXCEPT ![child] = p]
          /\ inbox' = [inbox EXCEPT ![child] = <<>>]
          /\ readyQueue' = Append(readyQueue, child)
          /\ Answer(p, r, child)
    BY <1>2 DEF CreateProcess, insertProcQ
  <2>2. UNCHANGED <<queues, current_process>> /\ r.service = "CREATEPROCESS"
    BY <1>2 DEF CreateProcess
  <2>3. child \in Pcb /\ child # ssi_pcb
    BY DEF TypeInv, Procs, SSIStands, SSILives, IsFree
  <2>4. child \notin ToSet(readyQueue) /\ child # current_process
    BY <2>3 DEF PlaceInv, Settled
  <2>5. /\ ToSet(readyQueue') = ToSet(readyQueue) \cup {child}
        /\ IsInjective(readyQueue')
    BY <2>1, <2>3, <2>4, AppendAdds, AppendDistinct DEF TypeInv, CPU, PlaceInv, Settled
  <2>6. PlaceInv'
    BY <2>1, <2>2, <2>3, <2>4, <2>5 DEF PlaceInv, Settled, queues
  <2>7. SSILives'
    BY <2>1, <2>2, <2>3, NucleusAssumption
       DEF SSIStands, SSILives, TypeInv, Procs, IsFree, SoftBlocked, OnClock, OnDevice,
           queues
  <2>8. SSIInbox'
    BY <2>1, <2>3, NucleusAssumption DEF SSIStands, SSIInbox, TypeInv, Msgs
  <2>9. SSIServesOthers'
    BY <2>1, <2>2, AnswersOthers
  <2> QED  BY <2>6, <2>7, <2>8, <2>9 DEF SSIStands
<1> QED  BY <1>1, <1>2

\* TERMPROCESS and an unknown service free the victim and its progeny; the SSI
\* goes on running.
LEMMA TerminateServicePlaces ==
  ASSUME TypeInv, PlaceInv, SSIStands, NEW p, NEW r, ServesAnother(p, r),
         Terminate(p, r) \/ Refuse(p, r)
  PROVE  PlaceInv' /\ SSIStands'
<1> SUFFICES ASSUME ~Break PROVE PlaceInv' /\ SSIStands'
  BY BreakPlaces
<1>1. PICK victim \in Pcb \ {ssi_pcb} :
        /\ TerminateProcess(victim) /\ ~TerminateBreaks(victim)
        /\ NoAnswer(p, r) \/ Answer(p, r, NULL)
        /\ UNCHANGED <<readyQueue, inbox, current_process>>
  BY DEF Terminate, Refuse, msgs, ServesAnother, Serves, Spares
<1>2. ssi_pcb \notin Subtree(victim) /\ current_process = ssi_pcb
  BY SSIOutside DEF TypeInv, SSIStands, ServesAnother
<1>3. PlaceInv'
  BY <1>1, <1>2, TerminatePlaces DEF PlaceInv
<1>4. SSILives'
  BY <1>1, TerminateSSI DEF SSIStands
<1>5. SSIServesOthers'
  BY <1>1, AnswersOthers
<1> QED  BY <1>1, <1>3, <1>4, <1>5 DEF SSIStands, SSIInbox

\* doio(): its caller, which is blocked nowhere yet, joins the device's queue.
LEMMA DoIOLinks ==
  ASSUME TypeInv, PlaceInv, NEW p, NEW r, Serves(p, r), DoIO(p, r), ~Break
  PROVE  LET l == r.arg.line IN
           /\ l \in Line /\ p \in Pcb /\ ~IsFree(p) /\ ~SoftBlocked(p)
           /\ \A k \in Line :
                /\ IsInjective(blockedQueue'[k])
                /\ ToSet(blockedQueue'[k]) =
                     IF k = l THEN ToSet(blockedQueue[k]) \cup {p} ELSE ToSet(blockedQueue[k])
<1> DEFINE l == r.arg.line
<1>1. /\ blockedQueue' = [blockedQueue EXCEPT ![l] = Append(@, p)]
      /\ ~IsFree(p) /\ ~SoftBlocked(p)
  BY DEF DoIO, insertProcQ
<1>2. p \in Pcb /\ l \in Line
  BY NucleusAssumption DEF DoIO, Serves, NamesDevice
<1> HIDE DEF l
<1>3. \A k \in Line : p \notin ToSet(blockedQueue[k])
  BY <1>1 DEF SoftBlocked, OnDevice
<1>4. ASSUME NEW k \in Line
      PROVE  /\ IsInjective(blockedQueue'[k])
             /\ ToSet(blockedQueue'[k]) =
                  IF k = l THEN ToSet(blockedQueue[k]) \cup {p} ELSE ToSet(blockedQueue[k])
  <2>1. blockedQueue[k] \in Seq(Pcb) /\ IsInjective(blockedQueue[k])
    BY DEF TypeInv, Queues, PlaceInv, Settled
  <2>2. blockedQueue'[k] = IF k = l THEN Append(blockedQueue[k], p) ELSE blockedQueue[k]
    BY <1>1, <1>2 DEF TypeInv, Queues
  <2>3. /\ IsInjective(Append(blockedQueue[k], p))
        /\ ToSet(Append(blockedQueue[k], p)) = ToSet(blockedQueue[k]) \cup {p}
    BY <1>2, <1>3, <2>1, AppendAdds, AppendDistinct
  <2> QED  BY <2>1, <2>2, <2>3
<1> QED  BY <1>1, <1>2, <1>4 DEF l

\* The caller of doio() leaves the ready queue, if it was there.
LEMMA DoIOPlaces ==
  ASSUME TypeInv, PlaceInv, SSIStands, NEW p, NEW r, ServesAnother(p, r), DoIO(p, r)
  PROVE  PlaceInv' /\ SSIStands'
<1> SUFFICES ASSUME ~Break PROVE PlaceInv' /\ SSIStands'
  BY BreakPlaces
<1> DEFINE l == r.arg.line
<1>1. /\ readyQueue' = Without(readyQueue, {p}) /\ NoAnswer(p, r)
      /\ UNCHANGED <<procs, pseudoClockQueue, inbox, current_process>>
  BY DEF DoIO, msgs
<1>2. /\ l \in Line /\ p \in Pcb /\ ~IsFree(p) /\ ~SoftBlocked(p)
      /\ \A k \in Line :
           /\ IsInjective(blockedQueue'[k])
           /\ ToSet(blockedQueue'[k]) =
                IF k = l THEN ToSet(blockedQueue[k]) \cup {p} ELSE ToSet(blockedQueue[k])
  BY DoIOLinks DEF ServesAnother
<1> HIDE DEF l
<1>3. p # ssi_pcb /\ current_process = ssi_pcb
  BY DEF ServesAnother
<1>4. ToSet(readyQueue') = ToSet(readyQueue) \ {p} /\ IsInjective(readyQueue')
  BY <1>1, WithoutKeepsOthers, WithoutDistinct DEF TypeInv, CPU, PlaceInv, Settled
<1>5. PlaceInv'
  <2>1. /\ p \notin ToSet(pseudoClockQueue) /\ p \notin pcbFree_h
        /\ \A k \in Line : p \notin ToSet(blockedQueue[k])
    BY <1>2 DEF IsFree, SoftBlocked, OnClock, OnDevice
  <2>2. ASSUME NEW q \in Pcb, NEW k \in Line, q \in ToSet(blockedQueue'[k])
        PROVE  q \in ToSet(blockedQueue[k]) \/ (q = p /\ k = l)
    BY <1>2, <2>2
  <2>3. \A q \in ToSet(readyQueue') : q \in ToSet(readyQueue) /\ q # p
    BY <1>4
  <2>4. /\ pcbFree_h' = pcbFree_h /\ pseudoClockQueue' = pseudoClockQueue
        /\ current_process' = current_process /\ current_process # p
    BY <1>1, <1>3 DEF procs
  <2>5. \A k \in Line : IsInjective(blockedQueue'[k])
    BY <1>2
  <2> QED  BY <1>4, <2>1, <2>2, <2>3, <2>4, <2>5 DEF PlaceInv, Settled
<1>6. SSILives'
  BY <1>1, <1>2, <1>3
     DEF SSIStands, SSILives, IsFree, SoftBlocked, OnClock, OnDevice, procs
<1>7. SSIServesOthers'
  BY <1>1, AnswersOthers
<1> QED  BY <1>1, <1>5, <1>6, <1>7 DEF SSIStands, SSIInbox

\* The caller of wait4Clock() moves to the pseudo-clock queue.
LEMMA WaitForClockPlaces ==
  ASSUME TypeInv, PlaceInv, SSIStands, NEW p, NEW r, ServesAnother(p, r),
         WaitForClock(p, r)
  PROVE  PlaceInv' /\ SSIStands'
<1> SUFFICES ASSUME ~Break PROVE PlaceInv' /\ SSIStands'
  BY BreakPlaces
<1>1. /\ pseudoClockQueue' = Append(pseudoClockQueue, p)
      /\ ~Linked(p) /\ NoAnswer(p, r)
      /\ UNCHANGED <<procs, readyQueue, blockedQueue, inbox, current_process>>
  BY DEF WaitForClock, msgs, insertProcQ
<1>2. p \in Pcb /\ p # ssi_pcb /\ current_process = ssi_pcb
  BY DEF ServesAnother, Serves
<1>3. /\ p \notin ToSet(pseudoClockQueue) /\ p \notin pcbFree_h
      /\ p \notin ToSet(readyQueue)
      /\ \A k \in Line : p \notin ToSet(blockedQueue[k])
  BY <1>1 DEF Linked, IsFree, IsReady, SoftBlocked, OnClock, OnDevice
<1>4. /\ ToSet(pseudoClockQueue') = ToSet(pseudoClockQueue) \cup {p}
      /\ IsInjective(pseudoClockQueue')
  BY <1>1, <1>2, <1>3, AppendAdds, AppendDistinct
     DEF TypeInv, Queues, PlaceInv, Settled
<1>5. PlaceInv'
  BY <1>1, <1>2, <1>3, <1>4 DEF PlaceInv, Settled, procs
<1>6. SSILives'
  BY <1>1, <1>2, <1>4
     DEF SSIStands, SSILives, IsFree, SoftBlocked, OnClock, OnDevice, procs
<1>7. SSIServesOthers'
  BY <1>1, AnswersOthers
<1> QED  BY <1>1, <1>5, <1>6, <1>7 DEF SSIStands, SSIInbox

\* The services that only read move nobody.
LEMMA InquirePlaces ==
  ASSUME PlaceInv, SSIStands, NEW p, NEW r, ServesAnother(p, r), Inquire(p, r)
  PROVE  PlaceInv' /\ SSIStands'
<1> SUFFICES ASSUME ~Break PROVE PlaceInv' /\ SSIStands'
  BY BreakPlaces
<1>1. /\ UNCHANGED <<procs, readyQueue, queues, msgs, current_process>>
      /\ r.service # "TERMPROCESS" /\ \E result : Answer(p, r, result)
  BY DEF Inquire
<1> QED  BY <1>1, AnswersOthers, QuietPlaces DEF msgs

\* Every service keeps each PCB in one place.
LEMMA SSIServesPlaces ==
  TypeInv /\ PlaceInv /\ SSIStands /\ SSIServes => PlaceInv' /\ SSIStands'
BY SSIServesAnother, CreateProcessPlaces, TerminateServicePlaces, DoIOPlaces,
   WaitForClockPlaces, InquirePlaces DEF SSIRequest

\* A step that leaves PCBs, queues, inboxes and the CPU alone.
LEMMA IdlePlaces ==
  ASSUME PlaceInv, SSIStands,
         UNCHANGED <<procs, readyQueue, queues, inbox, current_process, cpu>>
  PROVE  PlaceInv' /\ SSIStands'
<1>1. SSIServesOthers'
  BY DEF SSIStands, SSIServesOthers
<1> QED  BY <1>1, QuietPlaces

\* Every step keeps each PCB in one place.
LEMMA NextPlaces ==
  ASSUME SSISpared, TypeInv, PlaceInv, SSIStands, [Next]_vars
  PROVE  PlaceInv' /\ SSIStands'
<1>1. TypeInv'
  BY NextTypes
<1>2. CASE ProcessStep
  BY <1>1, <1>2, RequestPlaces, SendMessagePlaces, WantMessagePlaces, ReceivePlaces,
     TrapPlaces, SSIServesPlaces, ReplyPlaces DEF ProcessStep
<1>3. CASE PLTInterrupt \/ TimerInterrupt
  BY <1>1, <1>3, PLTInterruptPlaces, TimerInterruptPlaces
<1>4. CASE DeviceInterrupt
  BY <1>1, <1>4, BreakPlaces, DismissPlaces, CompletePlaces DEF DeviceInterrupt
<1>5. ASSUME NEW d \in Device, DeviceCompletes(d)
      PROVE  PlaceInv' /\ SSIStands'
  BY <1>5, IdlePlaces DEF DeviceCompletes, msgs
<1>6. CASE UNCHANGED vars
  BY <1>6, IdlePlaces DEF vars, procs, queues
<1> QED  BY <1>2, <1>3, <1>4, <1>5, <1>6 DEF Next, Stopped

\* PlaceInv says that each PCB has at most one place.
LEMMA PlaceInvGivesOnePlace == PlaceInv => OnePlace
<1> SUFFICES ASSUME PlaceInv, NEW p \in Pcb
             PROVE  Cardinality(Places(p)) <= 1
  BY DEF OnePlace
<1> DEFINE R == Positions("ready", readyQueue, p)
           C == Positions("clock", pseudoClockQueue, p)
           B(l) == Positions(l, blockedQueue[l], p)
           D == UNION {B(l) : l \in Line}
           X == {<<"cpu", 0>> : c \in {current_process} \cap {p}}
           F == {<<"free", 0>> : f \in pcbFree_h \cap {p}}
<1>1. Places(p) = R \cup C \cup D \cup X \cup F
  BY DEF Places
<1>2. /\ R # {} => p \in ToSet(readyQueue)
      /\ C # {} => p \in ToSet(pseudoClockQueue)
      /\ \A l \in Line : B(l) # {} => p \in ToSet(blockedQueue[l])
      /\ X # {} => p = current_process
      /\ F # {} => p \in pcbFree_h
  BY DEF ToSet, Positions
<1>3. /\ \A x, y \in R : x = y
      /\ \A x, y \in C : x = y
      /\ \A l \in Line : \A x, y \in B(l) : x = y
      /\ \A x, y \in X : x = y
      /\ \A x, y \in F : x = y
  BY DEF PlaceInv, Settled, IsInjective, Positions
<1> HIDE DEF R, C, B, X, F
<1>4. /\ p \in pcbFree_h => p # current_process
      /\ p \in ToSet(readyQueue) => p # current_process /\ p \notin pcbFree_h
      /\ p \in ToSet(pseudoClockQueue) =>
           p # current_process /\ p \notin pcbFree_h /\ p \notin ToSet(readyQueue)
      /\ \A l \in Line : p \in ToSet(blockedQueue[l]) =>
           /\ p # current_process /\ p \notin pcbFree_h
           /\ p \notin ToSet(readyQueue) /\ p \notin ToSet(pseudoClockQueue)
           /\ \A k \in Line : p \in ToSet(blockedQueue[k]) => k = l
  BY DEF PlaceInv, Settled
<1>5. D # {} => \E l \in Line : p \in ToSet(blockedQueue[l])
  BY <1>2
<1>6. \A x, y \in D : x = y
  <2> SUFFICES ASSUME NEW k \in Line, NEW l \in Line, NEW x \in B(k), NEW y \in B(l)
               PROVE  x = y
    OBVIOUS
  <2>1. p \in ToSet(blockedQueue[k]) /\ p \in ToSet(blockedQueue[l])
    BY <1>2
  <2>2. k = l
    BY <1>4, <2>1
  <2> QED  BY <1>3, <2>2
<1> HIDE DEF D
<1>7. \A x, y \in Places(p) : x = y
  <2>1. CASE p \in ToSet(readyQueue)
    BY <1>2, <1>3, <1>4, <1>5, <1>1, <2>1
  <2>2. CASE p \in ToSet(pseudoClockQueue)
    BY <1>2, <1>3, <1>4, <1>5, <1>1, <2>2
  <2>3. CASE \E l \in Line : p \in ToSet(blockedQueue[l])
    BY <1>2, <1>4, <1>6, <1>1, <2>3
  <2>4. CASE p \in pcbFree_h \/ p = current_process
    BY <1>2, <1>3, <1>4, <1>5, <1>1, <2>4
  <2>5. CASE /\ p \notin ToSet(readyQueue) /\ p \notin ToSet(pseudoClockQueue)
             /\ ~\E l \in Line : p \in ToSet(blockedQueue[l])
             /\ p \notin pcbFree_h /\ p # current_process
    BY <1>2, <1>5, <1>1, <2>5
  <2> QED  BY <2>1, <2>2, <2>3, <2>4, <2>5
<1>8. CASE Places(p) = {}
  BY <1>8, FS_EmptySet
<1>9. CASE Places(p) # {}
  <2>1. PICK x : Places(p) = {x}
    BY <1>7, <1>9
  <2>2. Cardinality({x}) = 1
    BY FS_Singleton
  <2> QED  BY <2>1, <2>2
<1> QED  BY <1>8, <1>9

\* "PCB's can't hide": whatever processes do, as long as none asks the SSI to
\* terminate the SSI, no PCB is ever in two places - on two lists, twice on one,
\* or on a list while it runs.
THEOREM EveryPcbInOnePlace == ASSUME SSISpared PROVE Spec => []OnePlace
<1>1. Init => TypeInv /\ PlaceInv /\ SSIStands
  BY InitTypes, InitPlaces
<1>2. TypeInv /\ PlaceInv /\ SSIStands /\ [Next]_vars
        => (TypeInv /\ PlaceInv /\ SSIStands)'
  BY NextTypes, NextPlaces
<1> QED  BY <1>1, <1>2, PlaceInvGivesOnePlace, PTL DEF Spec
-----------------------------------------------------------------------------
(* The process tree *)

\* Steps that change no PCB's place in the tree.
LEMMA QuietTree == NoOrphans /\ UNCHANGED procs => NoOrphans'
BY DEF NoOrphans, IsFree, procs

\* The children of the dead are dead: the victims leave no orphan.
LEMMA TerminateTree ==
  ASSUME TypeInv, NoOrphans, NEW p, TerminateProcess(p)
  PROVE  NoOrphans'
<1> DEFINE K == Subtree(p)
<1>1. /\ pcbFree_h' = pcbFree_h \cup K
      /\ p_parent' = [q \in Pcb |-> IF q \in K THEN NULL ELSE p_parent[q]]
  BY DEF TerminateProcess
<1>2. \A c \in Pcb : p_parent[c] \in K => c \in K
  BY DEF Subtree
<1> HIDE DEF K
<1> QED  BY <1>1, <1>2 DEF NoOrphans, IsFree

\* A new process is the child of a live one, and has no child.
LEMMA CreateTree ==
  ASSUME TypeInv, NoOrphans, NEW p, NEW r, Serves(p, r), CreateProcess(p, r)
  PROVE  NoOrphans'
<1>1. CASE UNCHANGED procs
  BY <1>1, QuietTree
<1>2. CASE ~UNCHANGED procs
  <2>1. PICK child \in pcbFree_h :
          /\ pcbFree_h' = pcbFree_h \ {child}
          /\ p_parent' = [p_parent EXCEPT ![child] = p]
    BY <1>2 DEF CreateProcess, Break
  <2>2. ~IsFree(p)
    BY <1>2 DEF CreateProcess, Break
  <2>3. child \in Pcb /\ child # p
    BY <2>2 DEF TypeInv, Procs, IsFree
  <2>4. \A q \in Pcb : p_parent'[q] = IF q = child THEN p ELSE p_parent[q]
    BY <2>1, <2>3 DEF TypeInv, Procs
  <2>5. p # NULL
    BY NucleusAssumption DEF Serves
  <2> QED  BY <2>1, <2>2, <2>3, <2>4, <2>5 DEF NoOrphans, IsFree
<1> QED  BY <1>1, <1>2

\* No step leaves an orphan.
LEMMA NextTree == TypeInv /\ NoOrphans /\ [Next]_vars => NoOrphans'
<1> SUFFICES ASSUME TypeInv, NoOrphans, [Next]_vars, ~UNCHANGED procs PROVE NoOrphans'
  BY QuietTree
<1>1. CASE Trap
  BY <1>1, TerminateTree DEF Trap, Break
<1>2. CASE SSIServes
  <2>1. Serves(cpu.who, cpu.val) /\ SSIRequest(cpu.who, cpu.val)
    BY <1>2, SSIServesFor
  <2>2. CASE CreateProcess(cpu.who, cpu.val)
    BY <2>1, <2>2, CreateTree
  <2>3. CASE Terminate(cpu.who, cpu.val) \/ Refuse(cpu.who, cpu.val)
    BY <2>3, TerminateTree DEF Terminate, Refuse, Break
  <2> QED  BY <2>1, <2>2, <2>3 DEF SSIRequest, DoIO, WaitForClock, Inquire, Break
<1>3. CASE Request \/ SendMessage \/ WantMessage \/ Receive \/ Reply
  BY <1>3 DEF Request, SendMessage, WantMessage, Receive, Reply, Break
<1>4. CASE PLTInterrupt \/ TimerInterrupt \/ DeviceInterrupt
  BY <1>4 DEF PLTInterrupt, TimerInterrupt, DeviceInterrupt, Dismiss, Complete, Break
<1> QED  BY <1>1, <1>2, <1>3, <1>4 DEF Next, ProcessStep, DeviceCompletes, Stopped, vars, procs

\* Whatever processes do, a live process has a live parent or none, and no dead
\* one is left in the tree: terminateProcess() misses no descendant.
THEOREM NobodyOrphaned == Spec => []NoOrphans
<1>1. Init => TypeInv /\ NoOrphans
  <2>1. Init => NoOrphans
    BY DEF Init, NoOrphans
  <2> QED  BY <2>1, InitTypes
<1>2. TypeInv /\ NoOrphans /\ [Next]_vars => (TypeInv /\ NoOrphans)'
  BY NextTypes, NextTree
<1> QED  BY <1>1, <1>2, PTL DEF Spec
-----------------------------------------------------------------------------
(* The counters *)

Blocked == {p \in Pcb : SoftBlocked(p)}

\* The sets the counters count are finite.
LEMMA CountedSetsFinite ==
  ASSUME Procs
  PROVE  /\ IsFiniteSet(Live) /\ Cardinality(Live) \in Nat
         /\ IsFiniteSet(Blocked) /\ Cardinality(Blocked) \in Nat
<1>1. Live \in SUBSET Pcb /\ Blocked \in SUBSET Pcb
  BY DEF Live, Blocked
<1> QED  BY <1>1, FS_Subset, FS_CardinalityType, NucleusAssumption

\* Steps that move no PCB from or to the free list and the wait queues.
LEMMA QuietCounters == CountersAccurate /\ UNCHANGED <<procs, queues>> => CountersAccurate'
BY DEF CountersAccurate, Live, SoftBlocked, OnClock, OnDevice, procs, queues

\* One process joins a wait queue, and is counted.
LEMMA BlockCounts ==
  ASSUME Procs, CountersAccurate, UNCHANGED procs,
         NEW p \in Pcb \ Blocked, softBlockCount' = softBlockCount + 1,
         \A q \in Pcb : SoftBlocked(q)' <=> SoftBlocked(q) \/ q = p
  PROVE  CountersAccurate'
<1>1. {q \in Pcb : SoftBlocked(q)'} = Blocked \cup {p}
  BY DEF Blocked
<1>2. Cardinality(Blocked \cup {p}) = Cardinality(Blocked) + 1
  BY CountedSetsFinite, FS_AddElement
<1> QED  BY <1>1, <1>2 DEF CountersAccurate, Blocked, Live, procs

\* The processes of K leave the wait queues, and are discounted.
LEMMA UnblockCounts ==
  ASSUME Procs, CountersAccurate, NEW K \in SUBSET Blocked,
         softBlockCount' = softBlockCount - Cardinality(K),
         \A q \in Pcb : SoftBlocked(q)' <=> SoftBlocked(q) /\ q \notin K
  PROVE  softBlockCount' = Cardinality({q \in Pcb : SoftBlocked(q)'})
<1>1. {q \in Pcb : SoftBlocked(q)'} = Blocked \ K /\ Blocked \cap K = K
  BY DEF Blocked
<1>2. Cardinality(Blocked \ K) = Cardinality(Blocked) - Cardinality(K)
  BY <1>1, CountedSetsFinite, FS_Difference
<1> QED  BY <1>1, <1>2 DEF CountersAccurate, Blocked

\* The waiter of an interrupt is discounted.
LEMMA CompleteCounters ==
  ASSUME TypeInv, PlaceInv, CountersAccurate, NEW d \in Device, Complete(d)
  PROVE  CountersAccurate'
<1> DEFINE w == Waiter(d)
<1>1. /\ softBlockCount' = softBlockCount - 1
      /\ UNCHANGED <<procs, pseudoClockQueue>>
  BY DEF Complete
<1>2. /\ w \in Pcb /\ OnDevice(w) /\ ~OnClock(w)
      /\ \A l \in Line : ToSet(blockedQueue'[l]) = ToSet(blockedQueue[l]) \ {w}
  BY CompleteUnlinks
<1> HIDE DEF w
<1>3. \A q \in Pcb : SoftBlocked(q)' <=> SoftBlocked(q) /\ q \notin {w}
  BY <1>1, <1>2 DEF SoftBlocked, OnClock, OnDevice
<1>4. {w} \in SUBSET Blocked /\ Cardinality({w}) = 1
  BY <1>2, FS_Singleton DEF Blocked, SoftBlocked
<1>5. softBlockCount' = Cardinality({q \in Pcb : SoftBlocked(q)'})
  BY <1>1, <1>3, <1>4, UnblockCounts DEF TypeInv
<1> QED  BY <1>1, <1>5 DEF CountersAccurate, Live, procs

\* So is the whole pseudo-clock queue.
LEMMA TimerInterruptCounters ==
  ASSUME TypeInv, PlaceInv, CountersAccurate, TimerInterrupt, ~Break
  PROVE  CountersAccurate'
<1> DEFINE K == ToSet(pseudoClockQueue)
<1>1. /\ softBlockCount' = softBlockCount - Len(pseudoClockQueue)
      /\ pseudoClockQueue' = <<>> /\ UNCHANGED <<procs, blockedQueue>>
  BY DEF TimerInterrupt
<1>2. Cardinality(K) = Len(pseudoClockQueue)
  BY LengthCounts DEF TypeInv, Queues, PlaceInv, Settled
<1>3. K \in SUBSET Blocked
  <2>1. \A i \in DOMAIN pseudoClockQueue : pseudoClockQueue[i] \in Pcb
    BY ElementOfSeq, LenProperties DEF TypeInv, Queues
  <2> QED  BY <2>1 DEF Blocked, SoftBlocked, OnClock, ToSet
<1>4. ToSet(pseudoClockQueue') = {}
  BY <1>1 DEF ToSet
<1>5. \A q \in Pcb : q \in K => \A l \in Line : q \notin ToSet(blockedQueue[l])
  BY DEF PlaceInv, Settled
<1>6. \A q \in Pcb : SoftBlocked(q)' <=> SoftBlocked(q) /\ q \notin K
  BY <1>1, <1>4, <1>5 DEF SoftBlocked, OnClock, OnDevice
<1> HIDE DEF K
<1>7. softBlockCount' = Cardinality({q \in Pcb : SoftBlocked(q)'})
  BY <1>1, <1>2, <1>3, <1>6, UnblockCounts DEF TypeInv
<1> QED  BY <1>1, <1>7 DEF CountersAccurate, Live, procs

\* So are the victims of terminateProcess(), on both counters.
LEMMA TerminateCounters ==
  ASSUME TypeInv, PlaceInv, CountersAccurate, NEW p \in Pcb, TerminateProcess(p),
         ~TerminateBreaks(p)
  PROVE  CountersAccurate'
<1> DEFINE K == Subtree(p)
           B == FoundBlocked(K)
<1>1. /\ pcbFree_h' = pcbFree_h \cup K
      /\ processCount' = processCount - Cardinality(K)
      /\ softBlockCount' = softBlockCount - Cardinality(B)
  BY DEF TerminateProcess
<1>2. /\ K \in SUBSET Pcb
      /\ \A q \in K : ~IsFree(q) /\ (q \in B <=> SoftBlocked(q))
  BY SubtreeClosed, VictimsFound
<1>3. B \subseteq K
  BY DEF FoundBlocked
<1>4. \A q \in Pcb : SoftBlocked(q)' <=> SoftBlocked(q) /\ q \notin K
  BY VictimsUnlinked DEF SoftBlocked, OnClock, OnDevice
<1> HIDE DEF K, B
<1>5. processCount' = Cardinality(Live')
  <2>1. Live' = Live \ K /\ Live \cap K = K
    BY <1>1, <1>2 DEF Live, IsFree
  <2>2. Cardinality(Live \ K) = Cardinality(Live) - Cardinality(K)
    BY <2>1, CountedSetsFinite, FS_Difference DEF TypeInv
  <2> QED  BY <1>1, <2>1, <2>2 DEF CountersAccurate
<1>6. softBlockCount' = Cardinality({q \in Pcb : SoftBlocked(q)'})
  <2>1. B \in SUBSET Blocked
    BY <1>2, <1>3 DEF Blocked
  <2>2. \A q \in Pcb : SoftBlocked(q)' <=> SoftBlocked(q) /\ q \notin B
    BY <1>2, <1>3, <1>4
  <2> QED  BY <1>1, <2>1, <2>2, UnblockCounts DEF TypeInv
<1> QED  BY <1>5, <1>6 DEF CountersAccurate

\* A new process is counted.
LEMMA CreateCounters ==
  ASSUME TypeInv, CountersAccurate, NEW p, NEW r, CreateProcess(p, r)
  PROVE  CountersAccurate'
<1>1. CASE UNCHANGED <<procs, queues>>
  BY <1>1, QuietCounters
<1>2. CASE ~UNCHANGED <<procs, queues>>
  <2>1. PICK child \in pcbFree_h : pcbFree_h' = pcbFree_h \ {child}
    BY <1>2 DEF CreateProcess, Break
  <2>2. processCount' = processCount + 1 /\ UNCHANGED queues
    BY <1>2 DEF CreateProcess, Break
  <2>3. Live' = Live \cup {child} /\ child \notin Live
    BY <2>1 DEF TypeInv, Procs, Live
  <2>4. Cardinality(Live \cup {child}) = Cardinality(Live) + 1
    BY <2>3, CountedSetsFinite, FS_AddElement DEF TypeInv
  <2> QED  BY <2>2, <2>3, <2>4
           DEF CountersAccurate, SoftBlocked, OnClock, OnDevice, queues
<1> QED  BY <1>1, <1>2

\* The callers of doio() and wait4Clock() are counted.
LEMMA DoIOCounters ==
  ASSUME TypeInv, PlaceInv, CountersAccurate, NEW p, NEW r, Serves(p, r), DoIO(p, r),
         ~Break
  PROVE  CountersAccurate'
<1> DEFINE l == r.arg.line
<1>1. softBlockCount' = softBlockCount + 1 /\ UNCHANGED <<procs, pseudoClockQueue>>
  BY DEF DoIO
<1>2. /\ l \in Line /\ p \in Pcb /\ ~SoftBlocked(p)
      /\ \A k \in Line : ToSet(blockedQueue'[k]) =
           IF k = l THEN ToSet(blockedQueue[k]) \cup {p} ELSE ToSet(blockedQueue[k])
  BY DoIOLinks
<1> HIDE DEF l
<1>3. \A q \in Pcb : SoftBlocked(q)' <=> SoftBlocked(q) \/ q = p
  BY <1>1, <1>2 DEF SoftBlocked, OnClock, OnDevice
<1> QED  BY <1>1, <1>2, <1>3, BlockCounts DEF TypeInv, Blocked

\* wait4Clock() counts its caller.
LEMMA WaitForClockCounters ==
  ASSUME TypeInv, CountersAccurate, NEW p, NEW r, Serves(p, r), WaitForClock(p, r),
         ~Break
  PROVE  CountersAccurate'
<1>1. /\ pseudoClockQueue' = Append(pseudoClockQueue, p) /\ ~SoftBlocked(p)
      /\ softBlockCount' = softBlockCount + 1 /\ UNCHANGED <<procs, blockedQueue>>
  BY DEF WaitForClock, insertProcQ, Linked
<1>2. p \in Pcb /\ ToSet(pseudoClockQueue') = ToSet(pseudoClockQueue) \cup {p}
  BY <1>1, AppendAdds DEF Serves, TypeInv, Queues
<1>3. \A q \in Pcb : SoftBlocked(q)' <=> SoftBlocked(q) \/ q = p
  BY <1>1, <1>2 DEF SoftBlocked, OnClock, OnDevice
<1> QED  BY <1>1, <1>2, <1>3, BlockCounts DEF TypeInv, Blocked

\* Every step keeps the counters right.
LEMMA NextCounters ==
  ASSUME TypeInv, PlaceInv, SSIStands, CountersAccurate, [Next]_vars
  PROVE  CountersAccurate'
<1> SUFFICES ASSUME ~Break, ~UNCHANGED <<procs, queues>> PROVE CountersAccurate'
  BY QuietCounters DEF Break
<1>1. CASE Trap
  BY <1>1, TerminateCounters DEF Trap, ClientRuns, Executes, TypeInv, CPU
<1>2. CASE SSIServes
  <2> DEFINE p == cpu.who
             r == cpu.val
  <2>1. ServesAnother(p, r) /\ Serves(p, r) /\ SSIRequest(p, r)
    BY <1>2, SSIServesAnother DEF ServesAnother
  <2> HIDE DEF p, r
  <2>2. CASE CreateProcess(p, r)
    BY <2>2, CreateCounters
  <2>3. CASE Terminate(p, r) \/ Refuse(p, r)
    <3>1. PICK victim \in Pcb : TerminateProcess(victim) /\ ~TerminateBreaks(victim)
      BY <2>1, <2>3 DEF Terminate, Refuse, ServesAnother, Serves, Spares
    <3> QED  BY <3>1, TerminateCounters
  <2>4. CASE DoIO(p, r)
    BY <2>1, <2>4, DoIOCounters
  <2>5. CASE WaitForClock(p, r)
    BY <2>1, <2>5, WaitForClockCounters
  <2>6. CASE Inquire(p, r)
    BY <2>6 DEF Inquire
  <2> QED  BY <2>1, <2>2, <2>3, <2>4, <2>5, <2>6 DEF SSIRequest
<1>3. CASE Request \/ SendMessage \/ WantMessage \/ Receive \/ Reply
  BY <1>3 DEF Request, SendMessage, WantMessage, Receive, Reply
<1>4. CASE TimerInterrupt
  BY <1>4, TimerInterruptCounters
<1>5. CASE PLTInterrupt
  BY <1>5 DEF PLTInterrupt
<1>6. CASE DeviceInterrupt
  BY <1>6, CompleteCounters DEF DeviceInterrupt, Dismiss
<1> QED  BY <1>1, <1>2, <1>3, <1>4, <1>5, <1>6
         DEF Next, ProcessStep, DeviceCompletes, Stopped, vars, procs, queues

\* main() counts the SSI and the first process.
LEMMA InitCounters == Init => CountersAccurate
<1> SUFFICES ASSUME Init PROVE CountersAccurate
  OBVIOUS
<1>1. Live = {ssi_pcb} \cup {test_pcb}
  BY NucleusAssumption DEF Init, Live
<1>2. Cardinality({ssi_pcb} \cup {test_pcb}) = 2
  <2>1. test_pcb \notin {ssi_pcb}
    BY NucleusAssumption
  <2>2. IsFiniteSet({ssi_pcb}) /\ Cardinality({ssi_pcb}) = 1
    BY FS_Singleton
  <2>3. Cardinality({ssi_pcb} \cup {test_pcb}) = Cardinality({ssi_pcb}) + 1
    BY <2>1, <2>2, FS_AddElement
  <2> QED  BY <2>2, <2>3
<1>3. {p \in Pcb : SoftBlocked(p)} = {}
  <2>1. ToSet(<<>>) = {}
    BY DEF ToSet
  <2> QED  BY <2>1 DEF Init, SoftBlocked, OnClock, OnDevice
<1> QED  BY <1>1, <1>2, <1>3, FS_EmptySet DEF Init, CountersAccurate

\* Whatever processes do, as long as none asks the SSI to terminate the SSI, the
\* scheduler's two counters are the number of live processes and the number of
\* those on a device or clock queue.
THEOREM CountersAreAccurate == ASSUME SSISpared PROVE Spec => []CountersAccurate
<1> DEFINE Inv == TypeInv /\ PlaceInv /\ SSIStands /\ CountersAccurate
<1>1. Init => Inv
  BY InitTypes, InitPlaces, InitCounters
<1>2. Inv /\ [Next]_vars => Inv'
  BY NextTypes, NextPlaces, NextCounters
<1> QED  BY <1>1, <1>2, PTL DEF Spec
-----------------------------------------------------------------------------
(* The scheduler's verdicts.  ModeInv holds of any behaviour; it says what  *)
(* the counters said when the mode was left, and that they have not moved   *)
(* since.  The properties above say what the counters mean.                 *)

\* scheduler() decides by the counters when nobody is ready.
LEMMA SchedulerMode ==
  ASSUME NEW ready, Scheduler(ready)
  PROVE  ModeInv'
BY DEF Scheduler, Verdict, ModeInv

\* A system that waits has no interrupted process to go back to.
LEMMA ExitInterruptMode ==
  ASSUME ModeInv, NEW ready, ExitInterrupt(ready)
  PROVE  ModeInv'
<1>1. CASE current_process # NULL
  BY <1>1 DEF ExitInterrupt, ModeInv
<1>2. CASE current_process = NULL
  BY <1>2, SchedulerMode DEF ExitInterrupt
<1> QED  BY <1>1, <1>2

\* Only scheduler() leaves the mode "run", and only an interrupt leaves "wait".
LEMMA NextMode == ModeInv /\ [Next]_vars => ModeInv'
<1> SUFFICES ASSUME ModeInv, [Next]_vars, ~Break, mode' \in {"wait", "halt", "panic"}
             PROVE  ModeInv'
  BY DEF Break, ModeInv
<1>1. CASE Receive \/ Trap
  BY <1>1, SchedulerMode DEF Receive, Trap, Executes
<1>2. CASE Request \/ SendMessage \/ WantMessage \/ Reply
  BY <1>2 DEF Request, SendMessage, WantMessage, Reply, ClientRuns, Executes
<1>3. CASE SSIServes
  BY <1>3 DEF SSIServes, Executes, SSIRequest, CreateProcess, Terminate, Refuse, DoIO,
              WaitForClock, Inquire
<1>4. CASE PLTInterrupt \/ TimerInterrupt
  BY <1>4, SchedulerMode, ExitInterruptMode DEF PLTInterrupt, TimerInterrupt
<1>5. CASE DeviceInterrupt
  BY <1>5, ExitInterruptMode DEF DeviceInterrupt, Dismiss, Complete
<1>6. CASE UNCHANGED <<processCount, readyQueue, softBlockCount, current_process, mode>>
  BY <1>6 DEF ModeInv
<1> QED  BY <1>1, <1>2, <1>3, <1>4, <1>5, <1>6
         DEF Next, ProcessStep, DeviceCompletes, Stopped, vars, procs, queues

\* What the verdicts rest on.
LEMMA VerdictsFollow ==
  ASSUME TypeInv, PlaceInv, SSIStands, NoLostWakeup, CountersAccurate, ModeInv
  PROVE  VerdictSound
<1>1. IsFiniteSet(Live) /\ IsFiniteSet(Blocked)
  BY CountedSetsFinite DEF TypeInv
<1>2. processCount = Cardinality(Live) /\ softBlockCount = Cardinality(Blocked)
  BY DEF CountersAccurate, Blocked
<1>3. ASSUME mode = "halt" PROVE Live = {ssi_pcb}
  <2>1. PICK p : Live = {p}
    BY <1>1, <1>2, <1>3, FS_Singleton DEF ModeInv
  <2>2. ssi_pcb \in Live
    BY NucleusAssumption DEF SSIStands, SSILives, IsFree, Live
  <2> QED  BY <2>1, <2>2
<1>4. ASSUME mode = "panic", NEW p \in Live
      PROVE  /\ ~IsReady(p) /\ ~SoftBlocked(p)
             /\ p_s[p].op = "receive" /\ Matching(p, p_s[p].who) = {}
  <2>1. Blocked = {}
    BY <1>1, <1>2, <1>4, FS_EmptySet DEF ModeInv
  <2>2. ToSet(readyQueue) = {} /\ current_process = NULL
    BY <1>4 DEF ModeInv, ToSet
  <2>3. p \in Pcb /\ ~IsFree(p) /\ ~IsReady(p) /\ ~SoftBlocked(p)
    BY <2>1, <2>2 DEF Live, IsFree, IsReady, Blocked
  <2>4. p # current_process /\ ~Linked(p)
    BY <2>2, <2>3, NucleusAssumption DEF Linked
  <2> QED  BY <2>3, <2>4 DEF NoLostWakeup
<1>5. ASSUME mode = "wait" PROVE \E p \in Live : SoftBlocked(p)
  <2>1. PICK p \in Pcb : SoftBlocked(p)
    BY <1>1, <1>2, <1>5, FS_EmptySet DEF ModeInv, Blocked
  <2>2. p \notin pcbFree_h
    BY <2>1 DEF PlaceInv, Settled, SoftBlocked, OnClock, OnDevice
  <2> QED  BY <2>1, <2>2 DEF Live
<1> QED  BY <1>3, <1>4, <1>5 DEF VerdictSound

\* main() calls the scheduler with the SSI ready.
LEMMA InitMode == Init => ModeInv
BY DEF Init, ModeInv

\* Whatever processes do, as long as none asks the SSI to terminate the SSI,
\* scheduler() halts only when the SSI alone is left, panics only when no process
\* can ever run again, and waits only when some process is on a wait queue.
THEOREM VerdictsAreSound == ASSUME SSISpared PROVE Spec => []VerdictSound
<1> DEFINE Inv == /\ TypeInv /\ PlaceInv /\ SSIStands /\ NoLostWakeup
                  /\ CountersAccurate /\ ModeInv
<1>1. Init => Inv
  BY InitTypes, InitPlaces, InitWakeups, InitCounters, InitMode
<1>2. Inv /\ [Next]_vars => Inv'
  BY NextTypes, NextPlaces, NextWakeups, NextCounters, NextMode
<1>3. Inv => VerdictSound
  BY VerdictsFollow
<1> QED  BY <1>1, <1>2, <1>3, PTL DEF Spec
-----------------------------------------------------------------------------
(* Message descriptors *)

\* Nobody dies, and no message goes to whom nobody knows to be alive: only such a
\* message, and an inbox its owner leaves behind, take descriptors for ever.
NobodyLost ==
  {"TERMPROCESS", "INVALID", "KILL", "TRAP", "SENDMESSAGE"} \cap Behaviour = {}

\* Then a request is a live process', and for the end of nobody.
Harmless(p, r) == ~IsFree(p) /\ r.service \notin {"TERMPROCESS", "INVALID"}
HarmlessCPU    == cpu.op \in {"serve", "reply"} => Harmless(cpu.who, cpu.val)
HarmlessInbox  == \A i \in DOMAIN inbox[ssi_pcb] :
                    Harmless(inbox[ssi_pcb][i].sender, inbox[ssi_pcb][i].payload)

\* The invariant: and the descriptors in use can be counted.
PoolWhole == HarmlessCPU /\ HarmlessInbox /\ IsFiniteSet(InUse) /\ PoolAccounted

\* Who is dispatched or goes on is not newly at work on a request.
LEMMA DispatchHarmless ==
  ASSUME NEW ready \in Seq(Pcb), Saved', HarmlessCPU, UNCHANGED pcbFree_h,
         Scheduler(ready) \/ ExitInterrupt(ready)
  PROVE  HarmlessCPU'
<1>1. CASE Scheduler(ready)
  <2>1. CASE ready # <<>>
    BY <1>1, <2>1, HeadTaken DEF Scheduler, Saved, AtRest, HarmlessCPU
  <2>2. CASE ready = <<>>
    BY <1>1, <2>2 DEF Scheduler, Running, HarmlessCPU
  <2> QED  BY <2>1, <2>2
<1>2. CASE UNCHANGED cpu
  BY <1>2 DEF HarmlessCPU, Harmless, IsFree
<1> QED  BY <1>1, <1>2 DEF ExitInterrupt

\* Messages that stay, with the processes that sent them, are as they were.
LEMMA QuietPool ==
  ASSUME PoolWhole, HarmlessCPU', UNCHANGED <<pcbFree_h, msgs>>
  PROVE  PoolWhole'
BY DEF PoolWhole, HarmlessInbox, Harmless, IsFree, InUse, Live, PoolAccounted, msgs

\* A message is in use at each position of each live process' inbox.
LEMMA UsedPositions ==
  ASSUME NEW x
  PROVE  x \in InUse <=> \E p \in Live : \E i \in DOMAIN inbox[p] : x = <<p, i>>
BY DEF InUse

\* send() to a live process takes a descriptor into use.
LEMMA UseGrows ==
  ASSUME Msgs, PoolWhole, NEW dest \in Live, NEW m \in SoundMessage, UNCHANGED pcbFree_h,
         inbox' = [inbox EXCEPT ![dest] = Append(@, m)],
         dest = ssi_pcb => Harmless(m.sender, m.payload)
  PROVE  /\ IsFiniteSet(InUse') /\ Cardinality(InUse') = Cardinality(InUse) + 1
         /\ HarmlessInbox'
<1>1. /\ dest \in Pcb /\ Live' = Live /\ Live \subseteq Pcb
      /\ \A p \in Pcb : inbox'[p] = IF p = dest THEN Append(inbox[p], m) ELSE inbox[p]
  BY DEF Live, Msgs
<1>2. PICK s : s = inbox[dest]
  OBVIOUS
<1>3. /\ Len(s) \in Nat /\ DOMAIN s = 1..Len(s) /\ DOMAIN Append(s, m) = 1..Len(s) + 1
      /\ Append(s, m)[Len(s) + 1] = m /\ \A n \in 1..Len(s) : Append(s, m)[n] = s[n]
  BY <1>1, <1>2, LenProperties, AppendProperties DEF Msgs
<1>4. DOMAIN inbox'[dest] = DOMAIN inbox[dest] \cup {Len(s) + 1}
  <2>1. DOMAIN Append(s, m) = DOMAIN s \cup {Len(s) + 1}
    BY <1>3
  <2> QED  BY <2>1, <1>1, <1>2
<1>5. InUse' = InUse \cup {<<dest, Len(s) + 1>>}
  BY <1>1, <1>4 DEF InUse
<1>6. <<dest, Len(s) + 1>> \notin InUse
  BY <1>2, <1>3 DEF InUse
<1>7. HarmlessInbox'
  <2>1. CASE dest = ssi_pcb
    <3>1. \A i \in DOMAIN Append(s, m) :
            Harmless(Append(s, m)[i].sender, Append(s, m)[i].payload)
      BY <1>2, <1>3, <2>1 DEF PoolWhole, HarmlessInbox
    <3> QED  BY <3>1, <2>1, <1>1, <1>2 DEF HarmlessInbox, Harmless, IsFree
  <2>2. CASE dest # ssi_pcb
    BY <2>2, <1>1, NucleusAssumption DEF PoolWhole, HarmlessInbox, Harmless, IsFree
  <2> QED  BY <2>1, <2>2
<1> QED  BY <1>5, <1>6, <1>7, FS_AddElement DEF PoolWhole

\* recv() puts one back.
LEMMA UseShrinks ==
  ASSUME Msgs, PoolWhole, NEW p \in Live, NEW i \in DOMAIN inbox[p], UNCHANGED pcbFree_h,
         inbox' = [inbox EXCEPT ![p] = RemoveAt(@, i)]
  PROVE  /\ IsFiniteSet(InUse') /\ Cardinality(InUse') = Cardinality(InUse) - 1
         /\ HarmlessInbox'
<1>1. /\ p \in Pcb /\ Live' = Live /\ Live \subseteq Pcb
      /\ \A q \in Pcb : inbox'[q] = IF q = p THEN RemoveAt(inbox[q], i) ELSE inbox[q]
  BY DEF Live, Msgs
<1>2. PICK s : s = inbox[p]
  OBVIOUS
<1>3. PICK t : t = RemoveAt(s, i)
  OBVIOUS
<1>4. /\ s \in Seq(SoundMessage) /\ i \in DOMAIN s
      /\ Len(s) \in Nat /\ DOMAIN s = 1..Len(s)
  BY <1>1, <1>2, LenProperties DEF Msgs
<1>5. /\ DOMAIN t = 1..Len(s) - 1
      /\ \A n \in 1..Len(s) - 1 : t[n] = IF n < i THEN s[n] ELSE s[n + 1]
  <2>1. t \in Seq(SoundMessage) /\ Len(t) = Len(s) - 1
    BY <1>3, <1>4, RemoveAtIsSeq, RemoveAtMoves
  <2>2. DOMAIN t = 1..Len(t)
    BY <2>1, LenProperties
  <2> QED  BY <1>3, <1>4, <2>1, <2>2, RemoveAtMoves
<1>6. DOMAIN t = DOMAIN s \ {Len(s)} /\ Len(s) \in DOMAIN s
  BY <1>4, <1>5
<1>7. InUse' = InUse \ {<<p, Len(s)>>} /\ <<p, Len(s)>> \in InUse
  BY <1>1, <1>2, <1>3, <1>6 DEF InUse
<1>8. HarmlessInbox'
  <2>1. \A n \in DOMAIN t : \E k \in DOMAIN s : t[n] = s[k]
    <3>1. \A n \in 1..Len(s) - 1 : n \in 1..Len(s) /\ n + 1 \in 1..Len(s)
      BY <1>4
    <3> QED  BY <1>4, <1>5, <3>1
  <2>2. CASE p = ssi_pcb
    <3>1. \A n \in DOMAIN t : Harmless(t[n].sender, t[n].payload)
      BY <2>1, <2>2, <1>2 DEF PoolWhole, HarmlessInbox
    <3> QED  BY <3>1, <2>2, <1>1, <1>2, <1>3 DEF HarmlessInbox, Harmless, IsFree
  <2>3. CASE p # ssi_pcb
    BY <2>3, <1>1, NucleusAssumption DEF PoolWhole, HarmlessInbox, Harmless, IsFree
  <2> QED  BY <2>2, <2>3
<1> QED  BY <1>7, <1>8, FS_RemoveElement DEF PoolWhole

\* A tick takes one into use for each process that waits for it.
LEMMA TimerInterruptPool ==
  ASSUME TypeInv, TypeInv', PlaceInv, SSIStands, PoolWhole, TimerInterrupt, ~Break
  PROVE  PoolWhole'
<1>1. PICK K : K = ToSet(pseudoClockQueue)
  OBVIOUS
<1>2. /\ inbox' = [p \in Pcb |-> IF p \in K THEN Append(inbox[p], TickMessage) ELSE inbox[p]]
      /\ msgFree' = msgFree - Len(pseudoClockQueue)
      /\ UNCHANGED pcbFree_h /\ ExitInterrupt(readyQueue \o pseudoClockQueue)
      /\ readyQueue \o pseudoClockQueue \in Seq(Pcb)
  BY <1>1, ConcatAdds DEF TimerInterrupt, procs, OnClock, TypeInv, CPU, Queues
<1>3. IsFiniteSet(K) /\ Cardinality(K) = Len(pseudoClockQueue)
  BY <1>1, LengthCounts DEF TypeInv, Queues, PlaceInv, Settled
<1>4. K \subseteq Live /\ ssi_pcb \notin K
  <2>1. \A i \in DOMAIN pseudoClockQueue : pseudoClockQueue[i] \in Pcb
    BY ElementOfSeq, LenProperties DEF TypeInv, Queues
  <2>2. K \subseteq Pcb
    BY <1>1, <2>1 DEF ToSet
  <2> QED
    BY <1>1, <2>2 DEF PlaceInv, Settled, Live, SSIStands, SSILives, SoftBlocked, OnClock
<1>5. PICK last : last = [p \in K |-> <<p, Len(inbox[p]) + 1>>]
  OBVIOUS
<1>6. PICK New : New = {last[p] : p \in K}
  OBVIOUS
<1>7. IsFiniteSet(New) /\ Cardinality(New) = Cardinality(K)
  <2>1. last \in Bijection(K, New)
    BY <1>5, <1>6 DEF Bijection, Injection, Surjection, IsInjective
  <2>2. ExistsBijection(K, New)
    BY <2>1 DEF ExistsBijection
  <2> QED  BY <2>2, <1>3, FS_Bijection
<1>8. \A p \in K : /\ DOMAIN inbox'[p] = DOMAIN inbox[p] \cup {Len(inbox[p]) + 1}
                   /\ Len(inbox[p]) + 1 \notin DOMAIN inbox[p]
  <2> TAKE p \in K
  <2>1. p \in Pcb /\ inbox'[p] = Append(inbox[p], TickMessage)
    BY <1>2, <1>4 DEF Live
  <2>2. Len(inbox[p]) \in Nat /\ DOMAIN inbox[p] = 1..Len(inbox[p])
    BY <2>1, LenProperties DEF TypeInv, Msgs
  <2>3. DOMAIN Append(inbox[p], TickMessage) = 1..Len(inbox[p]) + 1
    BY <2>1, LenProperties DEF TypeInv, Msgs
  <2> QED  BY <2>1, <2>2, <2>3
<1>9. \A p \in Live : p \notin K => inbox'[p] = inbox[p]
  BY <1>2 DEF Live
<1>10. InUse' = InUse \cup New /\ InUse \cap New = {}
  <2>1. Live' = Live
    BY <1>2 DEF Live
  <2>2. ASSUME NEW x PROVE x \in InUse' <=> x \in InUse \/ x \in New
    <3>1. x \in InUse' <=> \E p \in Live : \E i \in DOMAIN inbox'[p] : x = <<p, i>>
      BY <2>1 DEF InUse
    <3>2. x \in New <=> \E p \in K : x = <<p, Len(inbox[p]) + 1>>
      BY <1>5, <1>6
    <3> QED  BY <3>1, <3>2, <1>4, <1>8, <1>9, UsedPositions
  <2>3. ASSUME NEW x \in InUse, x \in New PROVE FALSE
    BY <2>3, <1>5, <1>6, <1>8, UsedPositions
  <2> QED  BY <2>2, <2>3
<1>11. /\ IsFiniteSet(InUse') /\ PoolAccounted'
  <2>1. /\ IsFiniteSet(InUse \cup New)
        /\ Cardinality(InUse \cup New) = Cardinality(InUse) + Cardinality(New) - Cardinality({})
    BY <1>7, <1>10, FS_Union DEF PoolWhole
  <2>2. Cardinality({}) = 0 /\ Cardinality(InUse) \in Nat /\ Cardinality(New) \in Nat
    BY <1>7, FS_EmptySet, FS_CardinalityType DEF PoolWhole
  <2> QED
    BY <2>1, <2>2, <1>2, <1>3, <1>7, <1>10, NucleusAssumption
    DEF PoolWhole, PoolAccounted, TypeInv, Msgs
<1>12. HarmlessInbox'
  BY <1>2, <1>4, NucleusAssumption DEF PoolWhole, HarmlessInbox, Harmless, IsFree
<1>13. HarmlessCPU'
  BY <1>2, DispatchHarmless DEF PoolWhole, TypeInv
<1> QED  BY <1>11, <1>12, <1>13 DEF PoolWhole

\* A message of a live process reaches a live process.
LEMMA SendPool ==
  ASSUME TypeInv, TypeInv', PoolWhole, NEW sender \in Pcb, NEW dest \in Live,
         NEW payload \in Payload, NamesDevice(payload), UNCHANGED pcbFree_h,
         dest = ssi_pcb => Harmless(sender, payload), HarmlessCPU',
         \/ Send(sender, dest, payload)
         \/ /\ msgFree' = msgFree - 1
            /\ inbox' = [inbox EXCEPT ![dest] =
                           Append(@, [sender |-> sender, payload |-> payload])]
  PROVE  PoolWhole'
<1>1. CASE UNCHANGED msgs
  BY <1>1, QuietPool
<1>2. PICK m : m = [sender |-> sender, payload |-> payload]
  OBVIOUS
<1>3. CASE /\ msgFree' = msgFree - 1
           /\ inbox' = [inbox EXCEPT ![dest] = Append(@, m)]
  <2>1. m \in SoundMessage /\ m.sender = sender /\ m.payload = payload
    BY <1>2 DEF SoundMessage, Message
  <2>2. /\ IsFiniteSet(InUse') /\ Cardinality(InUse') = Cardinality(InUse) + 1
        /\ HarmlessInbox'
    BY <2>1, <1>3, UseGrows DEF TypeInv
  <2>3. Cardinality(InUse) \in Nat
    BY FS_CardinalityType DEF PoolWhole
  <2>4. PoolAccounted'
    BY <2>2, <2>3, <1>3, NucleusAssumption DEF PoolWhole, PoolAccounted, TypeInv, Msgs
  <2> QED  BY <2>2, <2>4 DEF PoolWhole
<1> QED  BY <1>1, <1>2, <1>3 DEF Send, IsFree, Live, msgs

\* A service that ends nobody takes no message, and answers its caller.
LEMMA ServicePool ==
  ASSUME TypeInv, PoolWhole, SSIServes, ~Break
  PROVE  PoolWhole'
<1>1. PICK p, r : p = cpu.who /\ r = cpu.val
  OBVIOUS
<1>2. Harmless(p, r) /\ SSIRequest(p, r)
  BY <1>1 DEF SSIServes, PoolWhole, HarmlessCPU
<1>3. ASSUME NoAnswer(p, r) \/ \E result : Answer(p, r, result), pcbFree_h' \subseteq pcbFree_h
      PROVE  HarmlessCPU'
  BY <1>2, <1>3
  DEF NoAnswer, Answer, Replying, AtLoopHead, ReceiveFrom, HarmlessCPU, Harmless, IsFree
<1>4. CASE DoIO(p, r) \/ WaitForClock(p, r) \/ Inquire(p, r)
  <2>1. UNCHANGED <<pcbFree_h, msgs>> /\ (NoAnswer(p, r) \/ \E result : Answer(p, r, result))
    BY <1>4 DEF DoIO, WaitForClock, Inquire, procs
  <2> QED  BY <2>1, <1>3, QuietPool
<1>5. CASE CreateProcess(p, r)
  <2>1. CASE UNCHANGED <<pcbFree_h, msgs>> /\ NoAnswer(p, r)
    BY <2>1, <1>3, QuietPool
  <2>2. CASE \E child \in pcbFree_h :
               /\ pcbFree_h' = pcbFree_h \ {child} /\ inbox' = [inbox EXCEPT ![child] = <<>>]
               /\ Answer(p, r, child) /\ UNCHANGED msgFree
    <3>1. PICK child \in pcbFree_h :
            /\ pcbFree_h' = pcbFree_h \ {child} /\ inbox' = [inbox EXCEPT ![child] = <<>>]
            /\ Answer(p, r, child)
      BY <2>2
    <3>2. child \in Pcb /\ Live' = Live \cup {child} /\ child \notin Live
      BY <3>1 DEF Live, TypeInv, Procs
    <3>3. inbox'[child] = <<>> /\ \A q \in Live : inbox'[q] = inbox[q]
      BY <3>1, <3>2 DEF Live, TypeInv, Msgs
    <3>4. InUse' = InUse
      BY <3>2, <3>3 DEF InUse
    <3>5. HarmlessInbox'
      BY <3>1, <3>2, NucleusAssumption DEF PoolWhole, HarmlessInbox, Harmless, IsFree, TypeInv, Msgs
    <3> QED
      BY <3>1, <3>4, <3>5, <2>2, <1>3 DEF PoolWhole, PoolAccounted
  <2> QED  BY <2>1, <2>2, <1>5 DEF CreateProcess, procs
<1> QED  BY <1>2, <1>4, <1>5 DEF SSIRequest, Terminate, Refuse, Harmless

\* No step loses a descriptor.
LEMMA NextPool ==
  ASSUME NobodyLost, TypeInv, TypeInv', PlaceInv, SSIStands, PoolWhole, [Next]_vars
  PROVE  PoolWhole'
<1>1. ASSUME UNCHANGED <<pcbFree_h, msgs>>,
             cpu'.op \in {"serve", "reply"} => UNCHANGED cpu
      PROVE  PoolWhole'
  BY <1>1, QuietPool DEF PoolWhole, HarmlessCPU, Harmless, IsFree
<1>2. ASSUME UNCHANGED <<pcbFree_h, msgs>>, NEW ready \in Seq(Pcb),
             Scheduler(ready) \/ ExitInterrupt(ready)
      PROVE  PoolWhole'
  BY <1>2, QuietPool, DispatchHarmless DEF PoolWhole, TypeInv
<1>3. CASE Break \/ UNCHANGED vars \/ WantMessage \/ \E d \in Device : DeviceCompletes(d)
  BY <1>1, <1>3
  DEF Break, vars, WantMessage, ReceiveFrom, DeviceCompletes, procs, msgs
<1>4. mode = "run" => current_process \in Live
  BY DEF TypeInv, CPU, PlaceInv, Settled, Live
<1>5. ssi_pcb \in Live
  BY NucleusAssumption DEF SSIStands, SSILives, IsFree, Live
<1>6. CASE Request /\ ~Break
  <2>1. PICK r \in Requests : Send(current_process, ssi_pcb, r) /\ cpu' = AwaitAnswer(r)
    BY <1>6 DEF Request
  <2>2. current_process \in Live /\ current_process \in Pcb /\ UNCHANGED pcbFree_h
    BY <1>4, <1>6 DEF Request, ClientRuns, Executes, Live, procs
  <2>3. r \in Payload /\ NamesDevice(r)
    BY <2>2, RequestsSound
  <2>4. Harmless(current_process, r)
    <3>1. r.service \notin {"TERMPROCESS", "INVALID"}
      BY DEF Requests, NobodyLost
    <3> QED  BY <3>1, <2>2 DEF Harmless, IsFree, Live
  <2>5. HarmlessCPU'
    BY <2>1 DEF AwaitAnswer, HarmlessCPU
  <2> QED  BY <2>1, <2>2, <2>3, <2>4, <2>5, <1>5, SendPool
<1>7. CASE Receive
  <2> DEFINE M == Matching(current_process, cpu.who)
  <2>1. current_process \in Live /\ current_process \in Pcb
    BY <1>4, <1>7 DEF Receive, Executes, Live
  <2>2. CASE M = {}
    BY <2>2, <1>2, <1>7 DEF Receive, procs, TypeInv, CPU
  <2>3. CASE M # {}
    <3>1. PICK i : i = Min(M)
      OBVIOUS
    <3>2. i \in DOMAIN inbox[current_process]
      BY <2>1, <2>3, <3>1, FirstMatching DEF TypeInv
    <3>3. /\ inbox' = [inbox EXCEPT ![current_process] = RemoveAt(@, i)]
          /\ msgFree' = msgFree + 1 /\ cpu' = AfterReceive(inbox[current_process][i])
          /\ UNCHANGED pcbFree_h
      BY <1>7, <2>3, <3>1 DEF Receive, TakeMessage, procs
    <3>4. /\ IsFiniteSet(InUse') /\ Cardinality(InUse') = Cardinality(InUse) - 1
          /\ HarmlessInbox'
      BY <2>1, <3>2, <3>3, UseShrinks DEF TypeInv
    <3>5. HarmlessCPU'
      BY <3>2, <3>3
      DEF AfterReceive, Serving, Running, PoolWhole, HarmlessInbox, HarmlessCPU, Harmless, IsFree
    <3>6. Cardinality(InUse) \in Nat
      BY FS_CardinalityType DEF PoolWhole
    <3> QED
      BY <3>3, <3>4, <3>5, <3>6, NucleusAssumption DEF PoolWhole, PoolAccounted, TypeInv, Msgs
  <2> QED  BY <2>2, <2>3
<1>8. CASE Reply /\ ~Break
  <2>1. /\ cpu.op = "reply" /\ Send(ssi_pcb, cpu.who, cpu.val) /\ cpu' = AtLoopHead
        /\ UNCHANGED pcbFree_h
    BY <1>8 DEF Reply, procs
  <2>2. /\ cpu.who \in Live /\ cpu.who # ssi_pcb
        /\ cpu.val \in Payload /\ NamesDevice(cpu.val)
    BY <2>1 DEF TypeInv, CPU, AtWork, Control, PoolWhole, HarmlessCPU, Harmless, IsFree, Live,
                SSIStands, SSIServesOthers
  <2>3. HarmlessCPU'
    BY <2>1 DEF AtLoopHead, ReceiveFrom, HarmlessCPU
  <2> QED  BY <2>1, <2>2, <2>3, NucleusAssumption, SendPool
<1>9. CASE DeviceInterrupt /\ ~Break
  <2>1. PICK d \in Device : Dismiss(d) \/ Complete(d)
    BY <1>9 DEF DeviceInterrupt
  <2>2. CASE Dismiss(d)
    BY <2>2, <1>2 DEF Dismiss, procs, TypeInv, CPU
  <2>3. CASE Complete(d)
    <3>1. PICK w : w = Waiter(d)
      OBVIOUS
    <3>2. w \in Live /\ w # ssi_pcb /\ insertProcQ(readyQueue, w) \in Seq(Pcb)
      BY <2>3, <3>1, CompleteUnlinks, AppendAdds
      DEF Live, IsFree, SSIStands, SSILives, SoftBlocked, insertProcQ, TypeInv, CPU
    <3>3. /\ msgFree' = msgFree - 1 /\ UNCHANGED pcbFree_h
          /\ inbox' = [inbox EXCEPT ![w] = Append(@, [sender |-> ssi_pcb, payload |-> Status(d)])]
          /\ ExitInterrupt(insertProcQ(readyQueue, w))
      BY <2>3, <3>1 DEF Complete, FromSSI, procs
    <3>4. Status(d) \in Payload /\ NamesDevice(Status(d))
      BY NucleusAssumption DEF Status, Payload, NamesDevice, Service
    <3>5. HarmlessCPU'
      BY <3>2, <3>3, DispatchHarmless DEF PoolWhole, TypeInv
    <3> QED  BY <3>2, <3>3, <3>4, <3>5, NucleusAssumption, SendPool
  <2> QED  BY <2>1, <2>2, <2>3
<1>10. CASE PLTInterrupt /\ ~Break
  <2>1. insertProcQ(readyQueue, current_process) \in Seq(Pcb)
    BY <1>10, AppendAdds DEF PLTInterrupt, insertProcQ, TypeInv, CPU
  <2> QED  BY <2>1, <1>2, <1>10 DEF PLTInterrupt, procs
<1>11. ~SendMessage /\ ~Trap
  BY DEF SendMessage, Trap, NobodyLost
<1> QED
  BY <1>3, <1>6, <1>7, <1>8, <1>9, <1>10, <1>11, TimerInterruptPool, ServicePool
  DEF Next, ProcessStep, Stopped

\* At the start every descriptor is free.
LEMMA InitPool == Init => PoolWhole
<1> SUFFICES ASSUME Init PROVE PoolWhole
  OBVIOUS
<1>1. \A p \in Pcb : DOMAIN inbox[p] = {}
  BY DEF Init
<1>2. InUse = {}
  BY <1>1 DEF InUse, Live
<1>3. HarmlessCPU /\ HarmlessInbox
  BY <1>1, NucleusAssumption DEF Init, AtLoopHead, ReceiveFrom, HarmlessCPU, HarmlessInbox
<1> QED
  BY <1>2, <1>3, FS_EmptySet, NucleusAssumption DEF Init, PoolWhole, PoolAccounted

\* As long as nobody dies and only calls are made, no interleaving of sends, receives,
\* services, answers, ticks and preemptions loses a message descriptor or counts one as
\* free that is in an inbox.
THEOREM PoolIsAccounted == ASSUME NobodyLost PROVE Spec => []PoolAccounted
<1> DEFINE All == TypeInv /\ PlaceInv /\ SSIStands /\ PoolWhole
<1>1. Init => All
  BY InitTypes, InitPlaces, InitPool
<1>2. SSISpared
  BY DEF NobodyLost, SSISpared
<1>3. All /\ [Next]_vars => All'
  BY <1>2, NextTypes, NextPlaces, NextPool
<1>4. All => PoolAccounted
  BY DEF PoolWhole
<1> QED  BY <1>1, <1>3, <1>4, PTL DEF Spec
=============================================================================
