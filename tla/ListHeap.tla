------------------------------ MODULE ListHeap -------------------------------
(***************************************************************************)
(* The intrusive doubly linked lists of phase 1 as memory: which list_head *)
(* each next and prev field points to.  An operation of listx.h, pcb.c or  *)
(* msg.c is a function from the memory before it to the memory after it,   *)
(* store by store.  An element that leaves a list keeps its old pointers,  *)
(* as list_del() leaves them.                                              *)
(***************************************************************************)
EXTENDS Integers, Sequences, FiniteSets, SequencesExt

CONSTANTS pcbTable,   \* the static table of PCBs, as the sequence of its elements
          msgTable,   \* the static table of messages
          NULL

Pcb == Range(pcbTable)
Msg == Range(msgTable)

\* A list_head is a field of a PCB, of a message, or a variable of its own.
\* container_of() is the field "of".
p_list(p)    == [at |-> "p_list",    of |-> p]
p_child(p)   == [at |-> "p_child",   of |-> p]
p_sib(p)     == [at |-> "p_sib",     of |-> p]
msg_inbox(p) == [at |-> "msg_inbox", of |-> p]
m_list(m)    == [at |-> "m_list",    of |-> m]
head_of(q)     == [at |-> "head",      of |-> q]

\* One device queue stands for the six of them.
ProcQ == {"pcbFree_h", "readyQueue", "pseudoClockQueue", "blockedDiskQueue"}

pcbFree_h        == head_of("pcbFree_h")
msgFree_h        == head_of("msgFree_h")
readyQueue       == head_of("readyQueue")
pseudoClockQueue == head_of("pseudoClockQueue")
blockedDiskQueue == head_of("blockedDiskQueue")

list_head ==
  [at : {"p_list", "p_child", "p_sib", "msg_inbox"}, of : Pcb]
    \cup [at : {"m_list"}, of : Msg]
    \cup [at : {"head"}, of : ProcQ \cup {"msgFree_h"}]

\* struct list_head: the two fields of each.
Heap == [next : [list_head -> list_head], prev : [list_head -> list_head]]

-----------------------------------------------------------------------------
(* listx.h *)

\* INIT_LIST_HEAD() of every list head in L.
Emptied(h, L) ==
  [next |-> [l \in list_head |-> IF l \in L THEN l ELSE h.next[l]],
   prev |-> [l \in list_head |-> IF l \in L THEN l ELSE h.prev[l]]]

AddBetween(h, new, prev, next) ==
  [h EXCEPT !.prev[next] = new, !.next[new] = next, !.prev[new] = prev, !.next[prev] = new]

list_add(h, new, head)      == AddBetween(h, new, head, h.next[head])
list_add_tail(h, new, head) == AddBetween(h, new, h.prev[head], head)

DelBetween(h, prev, next) == [h EXCEPT !.prev[next] = prev, !.next[prev] = next]

list_del(h, entry) == DelBetween(h, h.prev[entry], h.next[entry])

list_empty(h, head) == h.next[head] = head

\* What list_for_each() visits along the pointers next before it comes back to head;
\* list_for_each_prev() goes along prev.  A walk as long as there are list heads has
\* left its list and never comes back.
Walk(next, head) ==
  LET from[n \in Nat] ==
        [l \in list_head |-> IF l = head \/ n = 0 THEN <<>> ELSE <<l>> \o from[n - 1][next[l]]]
  IN  from[Cardinality(list_head)][next[head]]

OnList(h, entry, head) == entry \in Range(Walk(h.next, head))

\* container_of() along a walk.
Owners(path) == [i \in DOMAIN path |-> path[i].of]
First(h, head) == h.next[head].of

\* Where a walk stops that looks for a member of K: NULL if it meets none.
FirstIn(K, path) ==
  LET found == {i \in DOMAIN path : path[i] \in K}
  IN  IF found = {} THEN NULL ELSE path[Min(found)]

-----------------------------------------------------------------------------
(* pcb.c: queues *)

freePcb(h, p) == list_add_tail(h, p_list(p), pcbFree_h)

\* allocPcb() of the first free PCB, with initPcbValues().
allocPcb_KeepsInbox(h) ==
  LET p == First(h, pcbFree_h)
  IN  Emptied(list_del(h, p_list(p)), {p_list(p), p_child(p), p_sib(p)})
allocPcb(h) ==
  LET p == First(h, pcbFree_h)
  IN  Emptied(list_del(h, p_list(p)), {p_list(p), p_child(p), p_sib(p), msg_inbox(p)})

insertProcQ(h, head, p) == list_add_tail(h, p_list(p), head)

removeProcQ(h, head) ==
  IF list_empty(h, head) THEN h ELSE list_del(h, h.next[head])

outProcQ_KeepsIt(h, head, p) == h
outProcQ(h, head, p) == IF OnList(h, p_list(p), head) THEN list_del(h, p_list(p)) ELSE h

\* searchProcQ() gives up after MAXPROC + 2 elements.
searchProcQ(h, p, head) ==
  LET path == Walk(h.next, head)
  IN  \E i \in DOMAIN path : i <= Cardinality(Pcb) + 2 /\ path[i] = p_list(p)

\* The PCB that unlockPcbDevNo() takes off the queue, NULL if none waits for the device.
Unlocked(h, head, blockedOnDevice, devNo) ==
  FirstIn({p \in Pcb : blockedOnDevice[p] = devNo}, Owners(Walk(h.next, head)))

-----------------------------------------------------------------------------
(* pcb.c: the process tree; p_parent is beside the heap *)

insertChild(h, prnt, p) == list_add_tail(h, p_sib(p), p_child(prnt))

emptyChild(h, p) == list_empty(h, p_child(p))

\* The child keeps its p_parent.
removeChild(h, p) == IF emptyChild(h, p) THEN h ELSE list_del(h, h.next[p_child(p)])

outChild_ClearsOnly(h, p_parent, p) == h
outChild(h, p_parent, p) == IF p_parent[p] = NULL THEN h ELSE list_del(h, p_sib(p))

\* One level of terminateProcess() on s = [heap, parent, stack, freed, awake]: the
\* first child of the PCB on the stack is unlinked and its turn comes, or the PCB
\* has none left, leaves the pseudo-clock queue if it is there, and is freed.
Kill(s) ==
  LET p == Head(s.stack)
  IN  CASE s.stack = <<>> -> s
        [] s.stack # <<>> /\ ~emptyChild(s.heap, p) ->
             [s EXCEPT !.heap = removeChild(@, p), !.stack = <<First(s.heap, p_child(p))>> \o @]
        [] OTHER ->
             [heap   |-> freePcb(outChild(outProcQ(s.heap, pseudoClockQueue, p), s.parent, p), p),
              parent |-> [s.parent EXCEPT ![p] = NULL],
              stack  |-> Tail(s.stack),
              freed  |-> Append(s.freed, p),
              awake  |-> IF OnList(s.heap, p_list(p), pseudoClockQueue) THEN s.awake + 1 ELSE s.awake]

\* All of it: each PCB is pushed once and popped once.
Terminated(h, p_parent, p) ==
  LET after[n \in Nat] ==
        IF n = 0
        THEN [heap |-> h, parent |-> p_parent, stack |-> <<p>>, freed |-> <<>>, awake |-> 0]
        ELSE Kill(after[n - 1])
  IN  after[2 * Cardinality(Pcb)]

-----------------------------------------------------------------------------
(* msg.c *)

\* freeMsg() unlinks the message first, though popMessage() has just done so.
freeMsg(h, m) == list_add_tail(list_del(h, m_list(m)), m_list(m), msgFree_h)

allocMsg(h) ==
  LET m == First(h, msgFree_h)
  IN  Emptied(list_del(h, m_list(m)), {m_list(m)})

insertMessage(h, head, m) == list_add_tail(h, m_list(m), head)

\* The message that popMessage() takes: the first one from p, NULL for anybody's, or
\* NULL.  (Two PCBs in use have two p_pid, so p_pid stands for the PCB.)
Matching(h, head, m_sender, p) ==
  FirstIn({m \in Msg : p \in {NULL, m_sender[m]}}, Owners(Walk(h.next, head)))

popMessage(h, m) == list_del(h, m_list(m))

-----------------------------------------------------------------------------
\* initPcbs(), initMsgs() and main()'s mkEmptyProcQ().  The PCBs are added to the
\* front from the last to the first, the messages from the first to the last.
Initialised ==
  LET pcbs[n \in 0..Len(pcbTable)] ==
        IF n = 0 THEN [next |-> [l \in list_head |-> l], prev |-> [l \in list_head |-> l]]
        ELSE list_add(pcbs[n - 1], p_list(pcbTable[Len(pcbTable) - n + 1]), pcbFree_h)
      msgs[n \in 0..Len(msgTable)] ==
        IF n = 0 THEN pcbs[Len(pcbTable)] ELSE list_add(msgs[n - 1], m_list(msgTable[n]), msgFree_h)
  IN  msgs[Len(msgTable)]
=============================================================================
