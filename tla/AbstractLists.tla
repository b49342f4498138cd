---------------------------- MODULE AbstractLists ----------------------------
(***************************************************************************)
(* What phase 1 promises to the nucleus: process queues, inboxes, lists of *)
(* children and pools are sequences.  This is the level at which Nucleus   *)
(* describes them.                                                         *)
(***************************************************************************)
EXTENDS ProcQueues

CONSTANTS pcbTable, msgTable, DevNo, NULL

Pcb     == Range(pcbTable)
Msg     == Range(msgTable)
ssi_pcb == pcbTable[1]

VARIABLES queue,            \* the PCBs in each queue, the free and the ready ones included
          child,            \* the children of each PCB, the oldest first
          p_parent,
          inbox,            \* the messages for each PCB
          msgFree,          \* the free messages
          m_sender,
          blockedOnDevice,
          current_process

vars == <<queue, child, p_parent, inbox, msgFree, m_sender, blockedOnDevice, current_process>>

Free == Range(queue["pcbFree_h"])

Descendants(p) ==
  LET down[n \in Nat] ==
        IF n = 0 THEN {p} ELSE LET up == down[n - 1] IN up \cup {c \in Pcb : p_parent[c] \in up}
  IN  down[Cardinality(Pcb)]

-----------------------------------------------------------------------------
(* How a handler ends, with the queues qs: it goes back to the process, or *)
(* the scheduler takes the next one.                                       *)

Returns(qs) == queue' = qs /\ UNCHANGED current_process

Schedules(qs) ==
  IF qs["readyQueue"] = <<>>
  THEN queue' = qs /\ current_process' = NULL
  ELSE /\ queue' = [qs EXCEPT !["readyQueue"] = Tail(@)]
       /\ current_process' = Head(qs["readyQueue"])

Resumes(qs) == IF current_process = NULL THEN Schedules(qs) ELSE Returns(qs)

Added(qs, q, s) == [x \in DOMAIN qs |-> IF x = q THEN qs[x] \o s ELSE qs[x]]
Readied(qs, s)  == Added(qs, "readyQueue", s)
Unqueued(qs, K) == [q \in DOMAIN qs |-> Without(qs[q], K)]

-----------------------------------------------------------------------------
Preempt ==
  /\ current_process \notin {NULL, ssi_pcb}
  /\ Schedules(Readied(queue, <<current_process>>))
  /\ UNCHANGED <<child, p_parent, inbox, msgFree, m_sender, blockedOnDevice>>

\* A message for a free PCB is taken from the pool and lost.
Send(p) ==
  /\ current_process # NULL /\ msgFree # <<>>
  /\ msgFree' = Tail(msgFree)
  /\ m_sender' = [m_sender EXCEPT ![Head(msgFree)] = current_process]
  /\ inbox' = IF p \in Free THEN inbox ELSE [inbox EXCEPT ![p] = Append(@, Head(msgFree))]
  /\ Returns(IF p \in Free \cup Range(queue["readyQueue"]) \cup {current_process}
             THEN queue ELSE Readied(queue, <<p>>))
  /\ UNCHANGED <<child, p_parent, blockedOnDevice>>

\* The i-th message of the inbox is the first one from p, or the first one.
Receive(p) ==
  LET own == inbox[current_process]
  IN  /\ current_process # NULL
      /\ UNCHANGED <<p_parent, m_sender, blockedOnDevice, current_process>>
      /\ \E i \in DOMAIN own :
           /\ p \in {NULL, m_sender[own[i]]}
           /\ \A j \in 1..(i - 1) : p \notin {NULL, m_sender[own[j]]}
           /\ msgFree' = Append(msgFree, own[i])
           /\ inbox' = [inbox EXCEPT ![current_process] = RemoveAt(@, i)]
      /\ UNCHANGED <<queue, child>>

Block ==
  /\ current_process # NULL
  /\ Schedules(queue)
  /\ UNCHANGED <<child, p_parent, inbox, msgFree, m_sender, blockedOnDevice>>

\* The process and its descendants go to the free list in some order.
Terminate(p) ==
  LET dead == Descendants(p)
  IN  /\ UNCHANGED <<m_sender, blockedOnDevice>>
      /\ p_parent' = [x \in Pcb |-> IF x \in dead THEN NULL ELSE p_parent[x]]
      /\ \E order \in SetToSeqs(dead) :
           /\ queue'["pcbFree_h"] = queue["pcbFree_h"] \o order
           /\ LET qs == Added(Unqueued(queue, dead), "pcbFree_h", order)
              IN  IF p = current_process THEN Schedules(qs) ELSE Returns(qs)
      /\ child' = [x \in Pcb |-> IF x \in dead THEN <<>> ELSE Without(child[x], dead)]
      /\ UNCHANGED <<inbox, msgFree>>

Create(prnt) ==
  LET p == Head(queue["pcbFree_h"])
  IN  /\ UNCHANGED <<m_sender, blockedOnDevice>>
      /\ Free # {}
      /\ p_parent' = [p_parent EXCEPT ![p] = prnt]
      /\ Returns(Readied(Unqueued(queue, {p}), <<p>>))
      /\ child' = [child EXCEPT ![prnt] = Append(@, p)]
      /\ inbox' = [inbox EXCEPT ![p] = <<>>]
      /\ UNCHANGED msgFree

\* The process p goes to the queue q.
WaitsIn(q, p) ==
  /\ UNCHANGED <<p_parent, m_sender, current_process>>
  /\ queue'[q] = Append(queue[q], p)
  /\ \A x \in DOMAIN queue \ {q} : queue'[x] = Without(queue[x], {p})
  /\ UNCHANGED <<child, inbox, msgFree>>

WaitForClock(p) == WaitsIn("pseudoClockQueue", p) /\ UNCHANGED blockedOnDevice

WaitForDevice(p, d) ==
  /\ blockedOnDevice' = [blockedOnDevice EXCEPT ![p] = d]
  /\ WaitsIn("blockedDiskQueue", p)

\* Each PCB of s, where none is twice, gets the next free message, from the SSI, and is
\* ready.
Awaken(s) ==
  LET given == {i \in DOMAIN msgFree : i <= Len(s)}
  IN  /\ UNCHANGED <<p_parent, blockedOnDevice>>
      /\ msgFree' = SubSeq(msgFree, Len(s) + 1, Len(msgFree))
      /\ Len(s) <= Len(msgFree)
      /\ m_sender' = [m \in Msg |-> IF \E i \in given : msgFree[i] = m THEN ssi_pcb ELSE m_sender[m]]
      /\ inbox' = [p \in Pcb |-> IF \E i \in given : s[i] = p
                                 THEN Append(inbox[p], msgFree[CHOOSE i \in given : s[i] = p])
                                 ELSE inbox[p]]
      /\ Resumes(Readied(Unqueued(queue, Range(s)), s))
      /\ UNCHANGED child

Tick == Awaken(queue["pseudoClockQueue"])

\* The device d has ended the operation of the first PCB that waits for it.
DeviceDone(d) ==
  LET blocked == queue["blockedDiskQueue"]
      waiting == {i \in DOMAIN blocked : blockedOnDevice[blocked[i]] = d}
  IN  Awaken(IF waiting = {} THEN <<>> ELSE <<blocked[Min(waiting)]>>)

-----------------------------------------------------------------------------
(* The SSI and the first process are ready, nothing has been sent.         *)
Init ==
  /\ queue = [pcbFree_h |-> SubSeq(pcbTable, 3, Len(pcbTable)), readyQueue |-> SubSeq(pcbTable, 1, 2),
              pseudoClockQueue |-> <<>>, blockedDiskQueue |-> <<>>]
  /\ child = [p \in Pcb |-> <<>>]
  /\ p_parent = [p \in Pcb |-> NULL]
  /\ inbox = [p \in Pcb |-> <<>>]
  /\ msgFree = Reverse(msgTable)
  /\ m_sender = [m \in Msg |-> NULL]
  /\ blockedOnDevice = [p \in Pcb |-> 0]
  /\ current_process = NULL

\* The CPU was idle and something is ready.
Dispatch ==
  /\ current_process = NULL
  /\ Schedules(queue)
  /\ UNCHANGED <<child, p_parent, inbox, msgFree, m_sender, blockedOnDevice>>

Next ==
  \/ Block \/ Preempt \/ Dispatch \/ Tick
  \/ \E d \in DevNo : DeviceDone(d)
  \/ \E p \in Pcb \cup {NULL} : Receive(p)
  \/ \E p \in Pcb : \/ Send(p) \/ Terminate(p) \/ Create(p) \/ WaitForClock(p)
                    \/ \E d \in DevNo : WaitForDevice(p, d)

Spec == Init /\ [][Next]_vars
=============================================================================
