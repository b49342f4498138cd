----------------------------- MODULE LinkedLists -----------------------------
(***************************************************************************)
(* Phase 1 as the nucleus drives it: the handlers and the services of      *)
(* phase 2, with everything they do to lists and nothing else.  A step is  *)
(* a handler or a service, with no interrupt inside a service.             *)
(*                                                                         *)
(* phase 1 does not check its callers.  A comment "Contract" names the     *)
(* guards that are not in the code but what phase 1 expects of its         *)
(* callers; Nucleus shows when they keep to it (its NotBroken).            *)
(***************************************************************************)
EXTENDS ListHeap

CONSTANTS DevNo,
          Talk,    \* who sends messages to whom, pairs of PCBs
          Crowd    \* bound: PCBs in use and messages not lost, together

VARIABLES heap, p_parent, m_sender, blockedOnDevice, current_process

vars == <<heap, p_parent, m_sender, blockedOnDevice, current_process>>

\* main() takes two PCBs for itself.
ASSUME ListsAssumption ==
  /\ pcbTable \in Seq(Pcb) /\ IsInjective(pcbTable) /\ Len(pcbTable) >= 2
  /\ msgTable \in Seq(Msg) /\ IsInjective(msgTable)
  /\ NULL \notin Pcb \cup Msg
  /\ Talk \subseteq Pcb \X Pcb

ssi_pcb == pcbTable[1]

Queued(p, head) == OnList(heap, p_list(p), head)
IsFree(p)       == Queued(p, pcbFree_h)
Blocked(p)      == Queued(p, pseudoClockQueue) \/ Queued(p, blockedDiskQueue)
Idle(p)         == ~ \E q \in ProcQ : Queued(p, head_of(q))

-----------------------------------------------------------------------------
(* How a handler ends, with the heap h. *)

Returns(h) == heap' = h /\ UNCHANGED current_process

Schedules(h) ==
  /\ heap' = removeProcQ(h, readyQueue)
  /\ current_process' = IF list_empty(h, readyQueue) THEN NULL ELSE First(h, readyQueue)

exitInterruptHandler(h) == IF current_process = NULL THEN Schedules(h) ELSE Returns(h)

\* The steps of delivering a message from `from' to p: allocMsg() and insertMessage(),
\* on a heap and the senders together.
Deliver(s, from, p) ==
  LET m == First(s.heap, msgFree_h)
  IN  [heap |-> insertMessage(allocMsg(s.heap), msg_inbox(p), m), sender |-> [s.sender EXCEPT ![m] = from]]

\* A handler takes p off its queue, sends it a message of the SSI and readies it.
Awaken(s, p) ==
  LET t == Deliver([s EXCEPT !.heap = list_del(@, p_list(p))], ssi_pcb, p)
  IN  [t EXCEPT !.heap = insertProcQ(@, readyQueue, p)]

\* The pool has a message for each of n.
PoolHas(n) == n <= Len(Walk(heap.next, msgFree_h))

-----------------------------------------------------------------------------
(* exceptions.c, interrupts.c *)

PLTHandler ==
  /\ current_process \notin {NULL, ssi_pcb}
  /\ Schedules(insertProcQ(heap, readyQueue, current_process))
  /\ UNCHANGED <<p_parent, m_sender, blockedOnDevice>>

\* Contract: the destination is not on a device or clock queue.
send(p) ==
  LET t == Deliver([heap |-> heap, sender |-> m_sender], current_process, p)
  IN  /\ <<current_process, p>> \in Talk /\ ~list_empty(heap, msgFree_h) /\ ~Blocked(p)
      /\ m_sender' = t.sender
      /\ \/ /\ searchProcQ(heap, p, pcbFree_h)
            /\ Returns(allocMsg(heap))
         \/ /\ ~searchProcQ(heap, p, pcbFree_h)
            /\ p # current_process /\ ~searchProcQ(heap, p, readyQueue)
            /\ Returns(insertProcQ(t.heap, readyQueue, p))
         \/ /\ ~searchProcQ(heap, p, pcbFree_h)
            /\ p = current_process \/ searchProcQ(heap, p, readyQueue)
            /\ Returns(t.heap)
      /\ UNCHANGED <<p_parent, blockedOnDevice>>

\* p is NULL for ANYMESSAGE.
recv(p) ==
  LET found == Matching(heap, msg_inbox(current_process), m_sender, p)
  IN  /\ current_process # NULL
      /\ IF found = NULL THEN Schedules(heap)
         ELSE Returns(freeMsg(popMessage(heap, found), found))
      /\ UNCHANGED <<p_parent, m_sender, blockedOnDevice>>

\* Contract: a message for each waiting PCB.
intervalTimerHandler ==
  LET waiting == Len(Walk(heap.next, pseudoClockQueue))
      after[n \in 0..waiting] ==
        IF n = 0 THEN [heap |-> heap, sender |-> m_sender]
        ELSE Awaken(after[n - 1], First(after[n - 1].heap, pseudoClockQueue))
      t == after[waiting]
  IN  /\ PoolHas(waiting)
      /\ exitInterruptHandler(t.heap)
      /\ m_sender' = t.sender
      /\ UNCHANGED <<p_parent, blockedOnDevice>>

deviceHandler(d) ==
  LET waiting == Unlocked(heap, blockedDiskQueue, blockedOnDevice, d)
      t == Awaken([heap |-> heap, sender |-> m_sender], waiting)
  IN  /\ IF waiting = NULL THEN exitInterruptHandler(heap) /\ UNCHANGED m_sender
         ELSE PoolHas(1) /\ exitInterruptHandler(t.heap) /\ m_sender' = t.sender
      /\ UNCHANGED <<p_parent, blockedOnDevice>>

-----------------------------------------------------------------------------
(* ssi.c *)

\* A message sent to a free PCB, or forgotten in the inbox of one, is lost.
InUse   == {p \in Pcb : ~IsFree(p)}
NotLost == {m \in Msg : \/ OnList(heap, m_list(m), msgFree_h)
                        \/ \E p \in InUse : OnList(heap, m_list(m), msg_inbox(p))}

createProcess(prnt) ==
  LET p == First(heap, pcbFree_h)
  IN  /\ current_process = ssi_pcb /\ prnt # ssi_pcb /\ ~IsFree(prnt)
      /\ ~list_empty(heap, pcbFree_h)
      /\ Cardinality(InUse) + Cardinality(NotLost) < Crowd
      /\ Returns(insertChild(insertProcQ(allocPcb(heap), readyQueue, p), prnt, p))
      /\ p_parent' = [p_parent EXCEPT ![p] = prnt]
      /\ UNCHANGED <<m_sender, blockedOnDevice>>

Killed(p) == Terminated(heap, p_parent, p)

\* The PCBs below p in the tree of lists.
Below(p) ==
  LET down[n \in Nat] ==
        IF n = 0 THEN {p} ELSE LET up == down[n - 1]
                               IN  up \cup {c \in Pcb : \E x \in up : OnList(heap, p_sib(c), p_child(x))}
  IN  down[Cardinality(Pcb)]

\* Contract: no victim is ready or waits for a device (the nucleus does not look
\* there, or looks in the wrong queue); the SSI is nobody's child.
terminateProcess(p) ==
  /\ \/ current_process = ssi_pcb /\ p # ssi_pcb /\ ~IsFree(p)
     \/ current_process = p /\ p # ssi_pcb
  /\ \A x \in Below(p) : ~Queued(x, readyQueue) /\ ~Queued(x, blockedDiskQueue)
  /\ IF p = current_process THEN Schedules(Killed(p).heap) ELSE Returns(Killed(p).heap)
  /\ p_parent' = Killed(p).parent
  /\ UNCHANGED <<m_sender, blockedOnDevice>>

\* Contract: the caller is waiting for its answer, in no queue.
wait4Clock(p) ==
  /\ current_process = ssi_pcb /\ p # ssi_pcb /\ Idle(p)
  /\ Returns(insertProcQ(heap, pseudoClockQueue, p))
  /\ UNCHANGED <<p_parent, m_sender, blockedOnDevice>>

\* Contract: the caller is waiting for its answer, in no queue or still ready.
doio(p, d) ==
  /\ current_process = ssi_pcb /\ p # ssi_pcb /\ (Idle(p) \/ Queued(p, readyQueue))
  /\ Returns(insertProcQ(outProcQ(heap, readyQueue, p), blockedDiskQueue, p))
  /\ blockedOnDevice' = [blockedOnDevice EXCEPT ![p] = d]
  /\ UNCHANGED <<p_parent, m_sender>>

-----------------------------------------------------------------------------
\* main(): the SSI and the first process take the first two PCBs.
Init ==
  /\ heap = LET h == Initialised
            IN  insertProcQ(allocPcb(insertProcQ(allocPcb(h), readyQueue, pcbTable[1])), readyQueue, pcbTable[2])
  /\ p_parent = [p \in Pcb |-> NULL]
  /\ m_sender = [m \in Msg |-> NULL]
  /\ blockedOnDevice = [p \in Pcb |-> 0]
  /\ current_process = NULL

Next ==
  \/ current_process = NULL /\ Schedules(heap) /\ UNCHANGED <<p_parent, m_sender, blockedOnDevice>>
  \/ PLTHandler
  \/ intervalTimerHandler
  \/ \E d \in DevNo : deviceHandler(d)
  \/ \E p \in Pcb : \/ send(p) \/ createProcess(p) \/ terminateProcess(p) \/ wait4Clock(p)
                    \/ \E d \in DevNo : doio(p, d)
  \/ \E p \in Pcb \cup {NULL} : recv(p)

Spec == Init /\ [][Next]_vars

-----------------------------------------------------------------------------
\* The lists in use: a free PCB's inbox is forgotten when it is allocated.
Lists ==
  {head_of(q) : q \in ProcQ} \cup {msgFree_h} \cup {p_child(p) : p \in Pcb}
    \cup {msg_inbox(p) : p \in InUse}
Elements(l) == Walk(heap.next, l)

\* Every list comes back to its head both ways, through the same elements, though
\* unlinked elements keep their pointers, freeMsg() unlinks a message again and
\* terminateProcess() a child again (listx.h, msg.c, pcb.c).
RingsWhole ==
  \A l \in Lists :
    /\ Len(Elements(l)) < Cardinality(list_head)
    /\ Walk(heap.prev, l) = Reverse(Elements(l))

\* A PCB is in the list of children of its p_parent and in no other, whatever
\* removeChild() and outChild() leave behind; a free PCB is outside the tree (pcb.c).
TreeAgrees ==
  \A p, c \in Pcb :
    /\ OnList(heap, p_sib(c), p_child(p)) <=> p_parent[c] = p
    /\ p_parent[c] = p => ~IsFree(p) /\ ~IsFree(c)

-----------------------------------------------------------------------------
(* The sequences that the pointers stand for. *)
Queues   == [q \in ProcQ |-> Owners(Walk(heap.next, head_of(q)))]
Children == [p \in Pcb |-> Owners(Walk(heap.next, p_child(p)))]
Inboxes  == [p \in Pcb |-> Owners(Walk(heap.next, msg_inbox(p)))]
FreeMsgs == Owners(Walk(heap.next, msgFree_h))

Sequences == INSTANCE AbstractLists
  WITH queue <- Queues, child <- Children, inbox <- Inboxes, msgFree <- FreeMsgs

\* The pointers implement the sequences: each handler and each service does to the
\* contents of all lists what its abstract operation says, and no more (phase1/).
ImplementsSequences == Sequences!Spec
=============================================================================
