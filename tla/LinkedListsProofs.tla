------------------------- MODULE LinkedListsProofs --------------------------
(***************************************************************************)
(* The pointers of phase 1 under the handlers and services of phase 2: the *)
(* lists are whole, agree with p_parent, and do what AbstractLists says of *)
(* sequences, for tables of any size.                                      *)
(***************************************************************************)
EXTENDS LinkedLists, ListFacts

\* What the tables are.
LEMMA Tables ==
  /\ IsFiniteSet(Pcb) /\ IsFiniteSet(Msg) /\ IsFiniteSet(list_head)
  /\ NULL \notin Pcb /\ NULL \notin Msg /\ ssi_pcb \in Pcb /\ Talk \subseteq Pcb \X Pcb
<1>1. ASSUME NEW S, NEW r \in Seq(S), IsInjective(r)
      PROVE  IsFiniteSet(Range(r))
  <2>1. IsFiniteSet(ToSet(r))
    BY <1>1, LengthCounts
  <2> QED
    BY <2>1 DEF ToSet, Range
<1>2. /\ pcbTable \in Seq(Pcb) /\ IsInjective(pcbTable) /\ Len(pcbTable) >= 2
      /\ msgTable \in Seq(Msg) /\ IsInjective(msgTable)
      /\ NULL \notin Pcb \cup Msg /\ Talk \subseteq Pcb \X Pcb
  BY ListsAssumption
<1>3. IsFiniteSet(Pcb) /\ IsFiniteSet(Msg)
  BY <1>1, <1>2 DEF Pcb, Msg
<1>4. ssi_pcb \in Pcb
  <2>1. 1 \in 1..Len(pcbTable)
    BY <1>2, LenProperties
  <2> QED
    BY <1>2, <2>1, ElementOfSeq DEF ssi_pcb
<1> QED
  BY <1>2, <1>3, <1>4, MemoryFinite

-----------------------------------------------------------------------------
(* The invariant, of memory h that holds the lists s.                      *)
Free(s, p)      == p_list(p) \in ToSet(s[pcbFree_h])
Queueless(s, p) == \A q \in ProcQ : p_list(p) \notin ToSet(s[head_of(q)])

\* A free PCB is outside the tree, and the SSI is neither free nor anybody's child.
Core(h, s, par) ==
  /\ par \in [Pcb -> Pcb \cup {NULL}]
  /\ Stands(h, s)
  /\ Tree(s, par)
  /\ \A p, c \in Pcb : par[c] = p => ~Free(s, p) /\ ~Free(s, c)
  /\ Acyclic(par)
  /\ par[ssi_pcb] = NULL /\ ~Free(s, ssi_pcb)

\* The process that runs is in no queue.
Safe(h, s, par, cur) ==
  /\ Core(h, s, par)
  /\ cur \in Pcb \cup {NULL}
  /\ cur # NULL => Queueless(s, cur)

\* A PCB in no queue can be put in one.
LEMMA QueuelessLoose ==
  ASSUME NEW h, NEW s, Stands(h, s), NEW p \in Pcb, Queueless(s, p)
  PROVE  ~Linked(s, p_list(p)) /\ ~Free(s, p)
<1>1. ASSUME NEW l \in Heads, p_list(p) \in ToSet(s[l])
      PROVE  FALSE
  <2>1. Field(l) = "p_list"
    <3>1. p_list(p).at = Field(l)
      BY <1>1, ListIs
    <3> QED
      BY <3>1 DEF p_list
  <2>2. l.at = "head" /\ l.of \in ProcQ
    BY <2>1 DEF Field
  <2>3. l = head_of(l.of)
    BY <2>2 DEF head_of, Heads, list_head
  <2> QED
    BY <1>1, <2>2, <2>3 DEF Queueless
<1>2. pcbFree_h \in Heads
  BY Fields DEF ProcQ, pcbFree_h
<1> QED
  BY <1>1, <1>2 DEF Linked, Free

\* The queues are heads, each another.
LEMMA QueueHeads ==
  /\ {pcbFree_h, readyQueue, pseudoClockQueue, blockedDiskQueue, msgFree_h} \subseteq Heads
  /\ pcbFree_h = head_of("pcbFree_h") /\ readyQueue = head_of("readyQueue")
  /\ pseudoClockQueue = head_of("pseudoClockQueue")
  /\ blockedDiskQueue = head_of("blockedDiskQueue")
  /\ {"pcbFree_h", "readyQueue", "pseudoClockQueue", "blockedDiskQueue"} = ProcQ
  /\ pcbFree_h # readyQueue /\ pcbFree_h # pseudoClockQueue /\ pcbFree_h # blockedDiskQueue
  /\ readyQueue # pseudoClockQueue /\ readyQueue # blockedDiskQueue
  /\ pseudoClockQueue # blockedDiskQueue
  /\ \A q \in ProcQ : head_of(q) # msgFree_h /\ head_of(q) \in Heads
  /\ \A p \in Pcb : /\ \A q \in ProcQ : p_child(p) # head_of(q) /\ msg_inbox(p) # head_of(q)
                    /\ p_child(p) # msgFree_h /\ msg_inbox(p) # msgFree_h
                    /\ \A c \in Pcb : p_child(p) # msg_inbox(c)
                    /\ p_child(p) \in Heads /\ msg_inbox(p) \in Heads
<1>1. {pcbFree_h, readyQueue, pseudoClockQueue, blockedDiskQueue, msgFree_h} \subseteq Heads
  BY Fields DEF ProcQ, pcbFree_h, readyQueue, pseudoClockQueue, blockedDiskQueue
<1>2. /\ pcbFree_h = head_of("pcbFree_h") /\ readyQueue = head_of("readyQueue")
      /\ pseudoClockQueue = head_of("pseudoClockQueue")
      /\ blockedDiskQueue = head_of("blockedDiskQueue")
      /\ {"pcbFree_h", "readyQueue", "pseudoClockQueue", "blockedDiskQueue"} = ProcQ
  BY DEF ProcQ, pcbFree_h, readyQueue, pseudoClockQueue, blockedDiskQueue
<1>3. /\ pcbFree_h # readyQueue /\ pcbFree_h # pseudoClockQueue /\ pcbFree_h # blockedDiskQueue
      /\ readyQueue # pseudoClockQueue /\ readyQueue # blockedDiskQueue
      /\ pseudoClockQueue # blockedDiskQueue
  BY DEF pcbFree_h, readyQueue, pseudoClockQueue, blockedDiskQueue, head_of
<1>4. ASSUME NEW q \in ProcQ
      PROVE  head_of(q) # msgFree_h /\ head_of(q) \in Heads
  BY Fields DEF msgFree_h, head_of, ProcQ
<1>5. ASSUME NEW p \in Pcb
      PROVE  /\ \A q \in ProcQ : p_child(p) # head_of(q) /\ msg_inbox(p) # head_of(q)
             /\ p_child(p) # msgFree_h /\ msg_inbox(p) # msgFree_h
             /\ \A c \in Pcb : p_child(p) # msg_inbox(c)
             /\ p_child(p) \in Heads /\ msg_inbox(p) \in Heads
  BY Fields DEF msgFree_h, head_of, p_child, msg_inbox
<1> QED
  BY <1>1, <1>2, <1>3, <1>4, <1>5

\* Steps that leave the lists of children and the free PCBs alone.
LEMMA CoreKept ==
  ASSUME NEW h, NEW s, NEW par, Core(h, s, par), NEW g, NEW t, Stands(g, t),
         \A p \in Pcb : t[p_child(p)] = s[p_child(p)],
         ToSet(t[pcbFree_h]) = ToSet(s[pcbFree_h])
  PROVE  Core(g, t, par)
  BY DEF Core, Tree, Free

\* What the lists are when the scheduler has taken a process.
Scheduled(s) == IF s[readyQueue] = <<>> THEN s ELSE [s EXCEPT ![readyQueue] = Tail(@)]
NextOne(s)   == IF s[readyQueue] = <<>> THEN NULL ELSE Head(s[readyQueue]).of

\* scheduler() leaves the lists sound, and its process in no queue.
LEMMA SchedulesSafely ==
  ASSUME NEW h, NEW s, NEW par, Core(h, s, par), Schedules(h)
  PROVE  Safe(heap', Scheduled(s), par, current_process') /\ current_process' = NextOne(s)
<1> DEFINE t == Scheduled(s)
<1>1. Stands(h, s) /\ readyQueue \in Heads /\ "readyQueue" \in ProcQ /\ DOMAIN s = Heads
  BY QueueHeads DEF Core, Stands, Holds
<1>2. CASE s[readyQueue] = <<>>
  <2>1. removeProcQ(h, readyQueue) = h /\ list_empty(h, readyQueue)
    BY <1>1, <1>2, QueueNotRemoved, QueueHeads, Tables
  <2> QED
    BY <1>2, <2>1 DEF Schedules, Scheduled, NextOne, Safe
<1>3. CASE s[readyQueue] # <<>>
  <2> DEFINE p == First(h, readyQueue)
             u == [s EXCEPT ![readyQueue] = Tail(@)]
  <2>1. /\ Stands(removeProcQ(h, readyQueue), u) /\ p \in Pcb
        /\ p_list(p) = Head(s[readyQueue]) /\ p_list(p) \in ToSet(s[readyQueue])
        /\ ~Linked(u, p_list(p))
    BY <1>1, <1>3, QueueRemoved, QueueHeads, Tables
  <2>2. ~list_empty(h, readyQueue)
    BY <1>1, <1>3, ListRead, Tables
  <2>3. heap' = removeProcQ(h, readyQueue) /\ current_process' = p
    BY <2>2 DEF Schedules
  <2>4. t = u /\ NextOne(s) = p
    BY <1>3, <2>1 DEF Scheduled, NextOne, p_list
  <2>5. \A l \in Heads : l # readyQueue => u[l] = s[l]
    BY <1>1
  <2> HIDE DEF p, u, t
  <2>6. Core(heap', u, par)
    <3>1. (\A x \in Pcb : u[p_child(x)] = s[p_child(x)]) /\ u[pcbFree_h] = s[pcbFree_h]
      BY <2>5, QueueHeads
    <3> QED
      BY <2>1, <2>3, <3>1, CoreKept
  <2>7. Queueless(u, p)
    BY <2>1, QueueHeads DEF Queueless, Linked
  <2> QED
    BY <2>1, <2>3, <2>4, <2>6, <2>7 DEF Safe, t
<1> QED
  BY <1>2, <1>3

\* When the interrupted process goes on, it is still in no queue.
LEMMA ReturnsSafely ==
  ASSUME NEW h, NEW s, NEW t, NEW par, Safe(heap, s, p_parent, current_process),
         Core(h, t, par), Returns(h),
         current_process # NULL => Queueless(t, current_process)
  PROVE  Safe(heap', t, par, current_process')
  BY DEF Returns, Safe

-----------------------------------------------------------------------------
(* What the handlers and services are made of, as functions of the lists.  *)
Enqueued(s, q, p) == [s EXCEPT ![head_of(q)] = Append(@, p_list(p))]
Dequeued(s, q, p) == [s EXCEPT ![head_of(q)] = Without(@, {p_list(p)})]
Taken(s)          == [s EXCEPT ![msgFree_h] = Tail(@)]
Delivered(s, p)   ==
  [s EXCEPT ![msgFree_h] = Tail(@), ![msg_inbox(p)] = Append(@, Head(s[msgFree_h]))]

\* insertProcQ() of a PCB in no queue, into one of those in use.
LEMMA EnqueuesSafely ==
  ASSUME NEW h, NEW s, NEW par, Core(h, s, par), NEW q \in ProcQ, q # "pcbFree_h",
         NEW p \in Pcb, Queueless(s, p)
  PROVE  /\ Core(insertProcQ(h, head_of(q), p), Enqueued(s, q, p), par)
         /\ \A x \in Pcb : x # p /\ Queueless(s, x) => Queueless(Enqueued(s, q, p), x)
<1> DEFINE t == Enqueued(s, q, p)
<1>1. Stands(h, s) /\ DOMAIN s = Heads /\ head_of(q) \in Heads /\ ~Linked(s, p_list(p))
  BY QueueHeads, QueuelessLoose DEF Core, Stands, Holds
<1>2. Stands(insertProcQ(h, head_of(q), p), t)
  BY <1>1, QueueInserted DEF Enqueued
<1>3. \A l \in Heads : t[l] = IF l = head_of(q) THEN Append(s[l], p_list(p)) ELSE s[l]
  BY <1>1 DEF Enqueued
<1>4. pcbFree_h # head_of(q)
  BY DEF pcbFree_h, head_of
<1> HIDE DEF t
<1>5. (\A x \in Pcb : t[p_child(x)] = s[p_child(x)]) /\ t[pcbFree_h] = s[pcbFree_h]
  BY <1>3, <1>4, QueueHeads
<1>6. Core(insertProcQ(h, head_of(q), p), t, par)
  BY <1>2, <1>5, CoreKept
<1>7. ASSUME NEW x \in Pcb, x # p, Queueless(s, x)
      PROVE  Queueless(t, x)
  <2> SUFFICES ASSUME NEW k \in ProcQ, p_list(x) \in ToSet(t[head_of(k)])
               PROVE  FALSE
    BY DEF Queueless
  <2>1. s[head_of(k)] \in Seq(list_head \ Heads) /\ p_list(p) \in list_head \ Heads
    BY <1>1, QueueHeads, ListIs, Fields
  <2>2. ToSet(t[head_of(k)]) \subseteq ToSet(s[head_of(k)]) \cup {p_list(p)}
    <3>1. ToSet(Append(s[head_of(k)], p_list(p))) = ToSet(s[head_of(k)]) \cup {p_list(p)}
      BY <2>1, AppendAdds
    <3> QED
      BY <1>3, <3>1, QueueHeads
  <2>3. p_list(x) # p_list(p)
    BY <1>7 DEF p_list
  <2> QED
    BY <1>7, <2>2, <2>3 DEF Queueless
<1> QED
  BY <1>6, <1>7 DEF t

\* outProcQ() or list_del() of a PCB that may be in the queue: it is in no queue then.
LEMMA DequeuesSafely ==
  ASSUME NEW h, NEW s, NEW par, Core(h, s, par), NEW q \in ProcQ, q # "pcbFree_h",
         NEW p \in Pcb, Queueless(s, p) \/ p_list(p) \in ToSet(s[head_of(q)])
  PROVE  /\ Core(outProcQ(h, head_of(q), p), Dequeued(s, q, p), par)
         /\ p_list(p) \in ToSet(s[head_of(q)]) =>
              outProcQ(h, head_of(q), p) = list_del(h, p_list(p))
         /\ Queueless(Dequeued(s, q, p), p)
         /\ \A x \in Pcb : Queueless(s, x) => Queueless(Dequeued(s, q, p), x)
<1> DEFINE t == Dequeued(s, q, p)
<1>1. Stands(h, s) /\ DOMAIN s = Heads /\ head_of(q) \in Heads /\ IsFiniteSet(list_head)
  BY QueueHeads, Tables DEF Core, Stands, Holds
<1>2. Stands(outProcQ(h, head_of(q), p), t)
  BY <1>1, QueueLeft DEF Dequeued
<1>3. \A l \in Heads : t[l] = IF l = head_of(q) THEN Without(s[l], {p_list(p)}) ELSE s[l]
  BY <1>1 DEF Dequeued
<1>4. pcbFree_h # head_of(q)
  BY DEF pcbFree_h, head_of
<1>5. p_list(p) \in ToSet(s[head_of(q)]) =>
        outProcQ(h, head_of(q), p) = list_del(h, p_list(p))
  BY <1>1, ListRead DEF outProcQ
<1> HIDE DEF t
<1>6. (\A x \in Pcb : t[p_child(x)] = s[p_child(x)]) /\ t[pcbFree_h] = s[pcbFree_h]
  BY <1>3, <1>4, QueueHeads
<1>7. Core(outProcQ(h, head_of(q), p), t, par)
  BY <1>2, <1>6, CoreKept
<1>8. ToSet(Without(s[head_of(q)], {p_list(p)})) = ToSet(s[head_of(q)]) \ {p_list(p)}
  <2>1. s[head_of(q)] \in Seq(list_head \ Heads)
    BY <1>1, ListIs
  <2> QED
    BY <2>1, WithoutKeepsOthers
<1>9. ASSUME NEW k \in ProcQ
      PROVE  /\ ToSet(t[head_of(k)]) \subseteq ToSet(s[head_of(k)])
             /\ p_list(p) \notin ToSet(t[head_of(k)])
  <2>1. CASE head_of(k) = head_of(q)
    BY <1>1, <1>3, <1>8, <2>1
  <2>2. CASE head_of(k) # head_of(q)
    <3>1. head_of(k) \in Heads /\ t[head_of(k)] = s[head_of(k)]
      BY <1>3, <2>2, QueueHeads
    <3>2. p_list(p) \notin ToSet(s[head_of(k)])
      BY <1>1, <2>2, <3>1, OneList DEF Queueless
    <3> QED
      BY <3>1, <3>2
  <2> QED
    BY <2>1, <2>2
<1> QED
  BY <1>5, <1>7, <1>9 DEF Queueless, t

\* A message of the pool, for nobody.
LEMMA TakesSafely ==
  ASSUME NEW h, NEW s, NEW par, Core(h, s, par), s[msgFree_h] # <<>>
  PROVE  /\ Core(allocMsg(h), Taken(s), par)
         /\ \A q \in ProcQ : Taken(s)[head_of(q)] = s[head_of(q)]
<1> DEFINE t == Taken(s)
<1>1. Stands(h, s) /\ DOMAIN s = Heads /\ IsFiniteSet(list_head)
  BY Tables DEF Core, Stands, Holds
<1>2. Stands(allocMsg(h), t)
  BY <1>1, MessageAllocated DEF Taken
<1>3. \A l \in Heads : l # msgFree_h => t[l] = s[l]
  BY <1>1 DEF Taken
<1> HIDE DEF t
<1>4. \A q \in ProcQ : t[head_of(q)] = s[head_of(q)]
  BY <1>3, QueueHeads
<1>5. \A x \in Pcb : t[p_child(x)] = s[p_child(x)]
  BY <1>3, QueueHeads
<1>6. t[pcbFree_h] = s[pcbFree_h]
  BY <1>3, QueueHeads
<1>7. Core(allocMsg(h), t, par)
  BY <1>2, <1>5, <1>6, CoreKept
<1> QED
  BY <1>4, <1>7 DEF t

\* The first free message is signed.
Signed(senders, s, from) == [senders EXCEPT ![Head(s[msgFree_h]).of] = from]

\* Deliver(): a message of the pool, in the inbox of p.
LEMMA DeliversSafely ==
  ASSUME NEW x, NEW s, NEW par, Core(x.heap, s, par), s[msgFree_h] # <<>>, NEW from, NEW p \in Pcb
  PROVE  /\ Core(Deliver(x, from, p).heap, Delivered(s, p), par)
         /\ \A q \in ProcQ : Delivered(s, p)[head_of(q)] = s[head_of(q)]
         /\ Deliver(x, from, p).sender = Signed(x.sender, s, from)
         /\ Head(s[msgFree_h]).of \in Msg
<1> DEFINE t == Delivered(s, p)
           h == x.heap
           m == First(h, msgFree_h)
           g == insertMessage(allocMsg(h), msg_inbox(p), m)
<1>1. Stands(h, s) /\ DOMAIN s = Heads /\ IsFiniteSet(list_head)
  BY Tables DEF Core, Stands, Holds
<1>2. Stands(g, t) /\ m \in Msg /\ m_list(m) = Head(s[msgFree_h])
  <2> HIDE DEF h
  <2> QED
    BY <1>1, MessageDelivered DEF Delivered
<1>3. Deliver(x, from, p).heap = g /\ Deliver(x, from, p).sender = [x.sender EXCEPT ![m] = from]
  BY DEF Deliver
<1>4. Head(s[msgFree_h]).of = m
  <2>1. m_list(m).of = m
    BY DEF m_list
  <2> QED
    BY <1>2, <2>1
<1>5. \A l \in Heads : l # msgFree_h /\ l # msg_inbox(p) => t[l] = s[l]
  BY <1>1 DEF Delivered
<1> HIDE DEF t, g, m
<1>6. \A q \in ProcQ : t[head_of(q)] = s[head_of(q)]
  BY <1>5, QueueHeads
<1>7. \A y \in Pcb : t[p_child(y)] = s[p_child(y)]
  BY <1>5, QueueHeads
<1>8. t[pcbFree_h] = s[pcbFree_h]
  BY <1>6, QueueHeads
<1>9. Core(g, t, par)
  <2>1. Core(h, s, par)
    OBVIOUS
  <2> HIDE DEF h
  <2> QED
    BY <1>2, <1>7, <1>8, <2>1, CoreKept
<1> QED
  BY <1>2, <1>3, <1>4, <1>6, <1>9 DEF t, Signed

-----------------------------------------------------------------------------
(* The steps: what memory holds after each.                                *)

\* The CPU was idle.
LEMMA DispatchSafe ==
  ASSUME NEW s, Safe(heap, s, p_parent, current_process), Schedules(heap)
  PROVE  Safe(heap', Scheduled(s), p_parent, current_process') /\ current_process' = NextOne(s)
  BY SchedulesSafely DEF Safe

\* The end of a time slice.
LEMMA PLTHandlerSafe ==
  ASSUME NEW s, Safe(heap, s, p_parent, current_process), PLTHandler
  PROVE  LET t == Enqueued(s, "readyQueue", current_process)
         IN  /\ Safe(heap', Scheduled(t), p_parent, current_process')
             /\ current_process' = NextOne(t)
<1> DEFINE t == Enqueued(s, "readyQueue", current_process)
<1>1. /\ current_process \in Pcb /\ Queueless(s, current_process) /\ Core(heap, s, p_parent)
      /\ readyQueue = head_of("readyQueue") /\ "readyQueue" \in ProcQ
  BY QueueHeads DEF Safe, PLTHandler
<1>2. Core(insertProcQ(heap, readyQueue, current_process), t, p_parent)
  BY <1>1, EnqueuesSafely
<1> HIDE DEF t
<1>3. Schedules(insertProcQ(heap, readyQueue, current_process))
  BY DEF PLTHandler
<1>4. Safe(heap', Scheduled(t), p_parent, current_process') /\ current_process' = NextOne(t)
  BY <1>2, <1>3, SchedulesSafely
<1> QED
  BY <1>4 DEF t

\* What a message does to the lists: a free PCB does not get it, and one that is in no
\* queue is readied.
Sent(s, p, cur) ==
  IF Free(s, p) THEN Taken(s)
  ELSE IF p = cur \/ p_list(p) \in ToSet(s[readyQueue]) THEN Delivered(s, p)
  ELSE Enqueued(Delivered(s, p), "readyQueue", p)

\* SYS1.
LEMMA SendSafe ==
  ASSUME NEW s, Safe(heap, s, p_parent, current_process), NEW p, send(p)
  PROVE  /\ Safe(heap', Sent(s, p, current_process), p_parent, current_process')
         /\ p \in Pcb /\ current_process \in Pcb /\ current_process' = current_process
         /\ s[msgFree_h] # <<>>
         /\ m_sender' = Signed(m_sender, s, current_process)
         /\ Head(s[msgFree_h]).of \in Msg
<1> DEFINE x == [heap |-> heap, sender |-> m_sender]
           t == Deliver(x, current_process, p)
           u == Delivered(s, p)
<1>1. /\ current_process \in Pcb /\ p \in Pcb /\ Core(heap, s, p_parent) /\ current_process # NULL
      /\ Queueless(s, current_process)
  BY Tables DEF Safe, send
<1>2. Stands(heap, s) /\ IsFiniteSet(list_head) /\ IsFiniteSet(Pcb) /\ msgFree_h \in Heads
  BY <1>1, Tables, QueueHeads DEF Core
<1>3. /\ s[msgFree_h] # <<>> /\ m_sender' = t.sender /\ current_process' = current_process
  BY <1>2, ListRead DEF send, Returns
<1>4. \A q \in ProcQ : /\ searchProcQ(heap, p, head_of(q)) <=> p_list(p) \in ToSet(s[head_of(q)])
                       /\ OnList(heap, p_list(p), head_of(q)) <=> p_list(p) \in ToSet(s[head_of(q)])
  BY <1>1, <1>2, QueueSearched, ListRead, QueueHeads
<1>5. /\ searchProcQ(heap, p, pcbFree_h) <=> Free(s, p)
      /\ searchProcQ(heap, p, readyQueue) <=> p_list(p) \in ToSet(s[readyQueue])
      /\ Blocked(p) <=> \/ p_list(p) \in ToSet(s[pseudoClockQueue])
                        \/ p_list(p) \in ToSet(s[blockedDiskQueue])
  BY <1>4, QueueHeads DEF Free, Blocked, Queued
<1>6. /\ Core(t.heap, u, p_parent)
      /\ \A q \in ProcQ : u[head_of(q)] = s[head_of(q)]
      /\ t.sender = Signed(x.sender, s, current_process)
      /\ Head(s[msgFree_h]).of \in Msg
  <2>1. Core(x.heap, s, p_parent) /\ p \in Pcb /\ s[msgFree_h] # <<>>
    BY <1>1, <1>3
  <2> HIDE DEF x
  <2>2. /\ Core(Deliver(x, current_process, p).heap, Delivered(s, p), p_parent)
        /\ \A q \in ProcQ : Delivered(s, p)[head_of(q)] = s[head_of(q)]
        /\ Deliver(x, current_process, p).sender = Signed(x.sender, s, current_process)
        /\ Head(s[msgFree_h]).of \in Msg
    BY <2>1, DeliversSafely
  <2> QED
    BY <2>2
<1>7. /\ Core(allocMsg(heap), Taken(s), p_parent)
      /\ \A q \in ProcQ : Taken(s)[head_of(q)] = s[head_of(q)]
  BY <1>1, <1>3, TakesSafely
<1>8. m_sender' = Signed(m_sender, s, current_process)
  BY <1>3, <1>6
<1> HIDE DEF u, t, x
<1>9. CASE Free(s, p)
  <2>1. Returns(allocMsg(heap))
    BY <1>5, <1>9 DEF send
  <2>2. Queueless(Taken(s), current_process)
    BY <1>1, <1>7 DEF Queueless
  <2> QED
    BY <1>1, <1>3, <1>6, <1>7, <1>8, <1>9, <2>1, <2>2, ReturnsSafely DEF Sent
<1>10. CASE ~Free(s, p) /\ (p = current_process \/ p_list(p) \in ToSet(s[readyQueue]))
  <2>1. Returns(t.heap)
    BY <1>5, <1>10 DEF send, t, x
  <2>2. Queueless(u, current_process)
    BY <1>1, <1>6 DEF Queueless
  <2>3. Sent(s, p, current_process) = u
    BY <1>10 DEF Sent, u
  <2> QED
    BY <1>1, <1>3, <1>6, <1>8, <2>1, <2>2, <2>3, ReturnsSafely
<1>11. CASE ~Free(s, p) /\ p # current_process /\ p_list(p) \notin ToSet(s[readyQueue])
  <2>1. Returns(insertProcQ(t.heap, readyQueue, p))
    BY <1>5, <1>11 DEF send, t, x
  <2>2. Queueless(u, current_process)
    BY <1>1, <1>6 DEF Queueless
  <2>3. Sent(s, p, current_process) = Enqueued(u, "readyQueue", p)
    BY <1>11 DEF Sent, u
  <2>4. Queueless(s, p)
    <3>1. ~Blocked(p)
      BY DEF send
    <3> QED
      BY <1>5, <1>11, <3>1, QueueHeads DEF Queueless, Free
  <2>5. Queueless(u, p)
    BY <1>6, <2>4 DEF Queueless
  <2> DEFINE g == t.heap
  <2>6. Core(g, u, p_parent) /\ Returns(insertProcQ(g, readyQueue, p))
    BY <1>6, <2>1
  <2> HIDE DEF g
  <2>7. /\ Core(insertProcQ(g, readyQueue, p), Enqueued(u, "readyQueue", p), p_parent)
        /\ Queueless(Enqueued(u, "readyQueue", p), current_process)
    BY <1>1, <1>11, <2>2, <2>5, <2>6, EnqueuesSafely, QueueHeads
  <2>8. Safe(heap', Enqueued(u, "readyQueue", p), p_parent, current_process')
    BY <2>6, <2>7, ReturnsSafely
  <2> QED
    BY <1>1, <1>3, <1>6, <1>8, <2>3, <2>8
<1> QED
  BY <1>9, <1>10, <1>11

\* What a message received does to the lists.
Received(s, p, m) ==
  [s EXCEPT ![msg_inbox(p)] = Without(@, {m_list(m)}), ![msgFree_h] = Append(@, m_list(m))]

\* The i-th message of the inbox is the first that p waits for.
Awaited(s, cur, p, senders, i) ==
  /\ i \in DOMAIN s[msg_inbox(cur)]
  /\ p \in {NULL, senders[s[msg_inbox(cur)][i].of]}
  /\ \A j \in DOMAIN s[msg_inbox(cur)] : j < i => p \notin {NULL, senders[s[msg_inbox(cur)][j].of]}

\* SYS2: the caller waits, or its message is free again.
LEMMA RecvSafe ==
  ASSUME NEW s, Safe(heap, s, p_parent, current_process), NEW p, recv(p)
  PROVE  /\ current_process \in Pcb
         /\ \/ /\ Safe(heap', Scheduled(s), p_parent, current_process')
               /\ current_process' = NextOne(s)
            \/ \E i : LET m == s[msg_inbox(current_process)][i].of
                      IN  /\ Awaited(s, current_process, p, m_sender, i)
                          /\ m \in Msg /\ m_list(m) = s[msg_inbox(current_process)][i]
                          /\ current_process' = current_process
                          /\ Safe(heap', Received(s, current_process, m), p_parent, current_process')
<1> DEFINE cur == current_process
           l == msg_inbox(cur)
           K == {m \in Msg : p \in {NULL, m_sender[m]}}
           path == Owners(Walk(heap.next, l))
           found == FirstIn(K, path)
<1>1. cur \in Pcb /\ Core(heap, s, p_parent) /\ Queueless(s, cur) /\ NULL \notin K
  BY Tables DEF Safe, recv
<1>2. /\ Stands(heap, s) /\ l \in Heads /\ Field(l) = "m_list" /\ DOMAIN s = Heads
      /\ IsFiniteSet(list_head) /\ msgFree_h \in Heads /\ l # msgFree_h
  BY <1>1, Fields, Tables, QueueHeads DEF Core, Stands, Holds
<1>3. Walk(heap.next, l) = s[l]
  BY <1>2, ListRead
<1>4. \A i \in DOMAIN s[l] : s[l][i].of \in Msg /\ m_list(s[l][i].of) = s[l][i]
  <2> TAKE i \in DOMAIN s[l]
  <2>1. s[l][i] \in ToSet(s[l])
    BY DEF ToSet
  <2>2. s[l][i] \in list_head /\ s[l][i].at = "m_list"
    BY <1>2, <2>1, ListIs
  <2> QED
    BY <2>2, Fields
<1>5. path \in Seq(Msg) /\ DOMAIN path = DOMAIN s[l] /\ \A i \in DOMAIN path : path[i] = s[l][i].of
  <2> DEFINE r == s[l]
  <2>1. r \in Seq(list_head \ Heads)
    BY <1>2, ListIs
  <2>2. r \in Seq(list_head) /\ \A y \in ToSet(r) : y.of \in Msg
    BY <1>4, <2>1 DEF ToSet
  <2>3. path = Owners(r)
    BY <1>3
  <2> HIDE DEF r, path
  <2>4. /\ Owners(r) \in Seq(Msg) /\ DOMAIN Owners(r) = DOMAIN r
        /\ \A i \in DOMAIN r : Owners(r)[i] = r[i].of
    BY <2>2, OwnersAre
  <2> QED
    BY <2>3, <2>4 DEF r
<1>6. /\ IF found = NULL THEN Schedules(heap)
         ELSE Returns(freeMsg(popMessage(heap, found), found))
  BY DEF recv, Matching
<1>7. \/ found = NULL
      \/ \E i \in DOMAIN path : /\ found = path[i] /\ path[i] \in K
                                /\ \A j \in DOMAIN path : j < i => path[j] \notin K
  <2> HIDE DEF K, path
  <2> QED
    BY <1>1, <1>5, FirstFound
<1>8. CASE found = NULL
  <2>1. Schedules(heap)
    BY <1>6, <1>8
  <2>2. Safe(heap', Scheduled(s), p_parent, current_process') /\ current_process' = NextOne(s)
    BY <1>1, <2>1, SchedulesSafely
  <2> QED
    BY <1>1, <2>2
<1>9. CASE found # NULL
  <2> HIDE DEF path, found
  <2>1. PICK i \in DOMAIN path : /\ found = path[i] /\ path[i] \in K
                                 /\ \A j \in DOMAIN path : j < i => path[j] \notin K
    BY <1>7, <1>9
  <2> DEFINE m == s[l][i].of
  <2>2. found = m /\ m \in Msg /\ m_list(m) = s[l][i] /\ m_list(m) \in ToSet(s[l])
    BY <1>4, <1>5, <2>1 DEF ToSet
  <2>3. Awaited(s, cur, p, m_sender, i)
    BY <1>4, <1>5, <2>1 DEF Awaited
  <2>4. Returns(freeMsg(popMessage(heap, m), m))
    BY <1>6, <1>9, <2>2
  <2> DEFINE t == Received(s, cur, m)
             g == freeMsg(popMessage(heap, m), m)
  <2>5. \A k \in Heads : k # l /\ k # msgFree_h => t[k] = s[k]
    BY <1>2 DEF Received
  <2> HIDE DEF m
  <2>6. Stands(g, t)
    BY <1>1, <1>2, <2>2, MessageFreed DEF Received
  <2> HIDE DEF t, g, l
  <2>7. \A q \in ProcQ : t[head_of(q)] = s[head_of(q)]
    BY <1>1, <2>5, QueueHeads DEF l
  <2>8. \A y \in Pcb : t[p_child(y)] = s[p_child(y)]
    BY <1>1, <2>5, QueueHeads DEF l
  <2>9. t[pcbFree_h] = s[pcbFree_h]
    BY <2>7, QueueHeads
  <2>10. Core(g, t, p_parent)
    BY <1>1, <2>6, <2>8, <2>9, CoreKept
  <2>11. Queueless(t, cur)
    BY <1>1, <2>7 DEF Queueless
  <2>12. Safe(heap', t, p_parent, current_process') /\ current_process' = cur
    BY <2>4, <2>10, <2>11, ReturnsSafely DEF g, Returns
  <2>13. /\ Awaited(s, cur, p, m_sender, i) /\ m \in Msg /\ m_list(m) = s[msg_inbox(cur)][i]
         /\ m = s[msg_inbox(cur)][i].of /\ t = Received(s, cur, m)
    BY <2>2, <2>3 DEF l, m, t
  <2> QED
    BY <1>1, <2>12, <2>13
<1> QED
  BY <1>8, <1>9

\* The clock.
LEMMA Wait4ClockSafe ==
  ASSUME NEW s, Safe(heap, s, p_parent, current_process), NEW p \in Pcb, wait4Clock(p)
  PROVE  /\ Safe(heap', Enqueued(s, "pseudoClockQueue", p), p_parent, current_process')
         /\ Queueless(s, p) /\ current_process' = current_process
<1>1. /\ Core(heap, s, p_parent) /\ Stands(heap, s) /\ current_process \in Pcb
      /\ current_process # NULL /\ Queueless(s, current_process) /\ p # current_process
      /\ "pseudoClockQueue" \in ProcQ /\ pseudoClockQueue = head_of("pseudoClockQueue")
  BY Tables, QueueHeads DEF Safe, Core, wait4Clock
<1>2. Queueless(s, p)
  <2>1. ~ \E q \in ProcQ : OnList(heap, p_list(p), head_of(q))
    BY DEF wait4Clock, Idle, Queued
  <2> QED
    BY <1>1, <2>1, ListRead, QueueHeads, Tables DEF Queueless
<1>3. /\ Core(insertProcQ(heap, pseudoClockQueue, p), Enqueued(s, "pseudoClockQueue", p), p_parent)
      /\ Queueless(Enqueued(s, "pseudoClockQueue", p), current_process)
  BY <1>1, <1>2, EnqueuesSafely
<1>4. Returns(insertProcQ(heap, pseudoClockQueue, p))
  BY DEF wait4Clock
<1>5. current_process' = current_process
  BY <1>4 DEF Returns
<1>6. Safe(heap', Enqueued(s, "pseudoClockQueue", p), p_parent, current_process')
  BY <1>3, <1>4, ReturnsSafely
<1> QED
  BY <1>2, <1>5, <1>6

\* A device.
LEMMA DoioSafe ==
  ASSUME NEW s, Safe(heap, s, p_parent, current_process), NEW p \in Pcb, NEW d, doio(p, d)
  PROVE  /\ Safe(heap', Enqueued(Dequeued(s, "readyQueue", p), "blockedDiskQueue", p), p_parent,
                 current_process')
         /\ Queueless(s, p) \/ p_list(p) \in ToSet(s[readyQueue])
         /\ current_process' = current_process
<1> DEFINE t == Dequeued(s, "readyQueue", p)
           g == outProcQ(heap, readyQueue, p)
           u == Enqueued(t, "blockedDiskQueue", p)
<1>1. /\ Core(heap, s, p_parent) /\ Stands(heap, s) /\ current_process \in Pcb
      /\ current_process # NULL /\ Queueless(s, current_process) /\ p # current_process
      /\ {"blockedDiskQueue", "readyQueue"} \subseteq ProcQ
      /\ blockedDiskQueue = head_of("blockedDiskQueue") /\ readyQueue = head_of("readyQueue")
  BY Tables, QueueHeads DEF Safe, Core, doio
<1>2. Queueless(s, p) \/ p_list(p) \in ToSet(s[readyQueue])
  <2>1. \/ ~ \E q \in ProcQ : OnList(heap, p_list(p), head_of(q))
        \/ OnList(heap, p_list(p), readyQueue)
    BY DEF doio, Idle, Queued
  <2>2. \A q \in ProcQ : OnList(heap, p_list(p), head_of(q)) <=> p_list(p) \in ToSet(s[head_of(q)])
    BY <1>1, ListRead, QueueHeads, Tables
  <2> QED
    BY <1>1, <2>1, <2>2 DEF Queueless
<1>3. Core(g, t, p_parent) /\ Queueless(t, p) /\ Queueless(t, current_process)
  BY <1>1, <1>2, DequeuesSafely
<1> HIDE DEF t, g
<1>4. Core(insertProcQ(g, blockedDiskQueue, p), u, p_parent) /\ Queueless(u, current_process)
  BY <1>1, <1>3, EnqueuesSafely
<1>5. Returns(insertProcQ(g, blockedDiskQueue, p))
  BY DEF doio, g
<1>6. current_process' = current_process
  BY <1>5 DEF Returns
<1> HIDE DEF u
<1>7. Safe(heap', u, p_parent, current_process')
  BY <1>4, <1>5, ReturnsSafely
<1> QED
  BY <1>2, <1>6, <1>7 DEF t, u

\* A handler ends.
Exited(s, cur) == IF cur = NULL THEN Scheduled(s) ELSE s

\* It goes back to its process, or there was none and scheduler() runs.
LEMMA ExitsSafely ==
  ASSUME NEW h, NEW s, NEW t, NEW par, Safe(heap, s, p_parent, current_process),
         Core(h, t, par), exitInterruptHandler(h),
         current_process # NULL => Queueless(t, current_process)
  PROVE  /\ Safe(heap', Exited(t, current_process), par, current_process')
         /\ current_process' = IF current_process = NULL THEN NextOne(t) ELSE current_process
<1>1. CASE current_process = NULL
  <2>1. Schedules(h)
    BY <1>1 DEF exitInterruptHandler
  <2> QED
    BY <1>1, <2>1, SchedulesSafely DEF Exited
<1>2. CASE current_process # NULL
  <2>1. Returns(h)
    BY <1>2 DEF exitInterruptHandler
  <2>2. Safe(heap', t, par, current_process') /\ current_process' = current_process
    BY <1>2, <2>1, ReturnsSafely DEF Returns
  <2> QED
    BY <1>2, <2>2 DEF Exited
<1> QED
  BY <1>1, <1>2

\* A PCB is taken off the queue q, gets a message and is ready.
Awoken(s, q, p) == Enqueued(Delivered(Dequeued(s, q, p), p), "readyQueue", p)

\* Memory and who sent which message.
Held == [heap : Heap, sender : [Msg -> Pcb \cup {NULL}]]

\* Its lists stay sound, and the other PCBs where they are.
LEMMA AwakensSafely ==
  ASSUME NEW x \in Held, NEW s, NEW par, Core(x.heap, s, par), s[msgFree_h] # <<>>,
         NEW q \in {"pseudoClockQueue", "blockedDiskQueue"},
         NEW p \in Pcb, p_list(p) \in ToSet(s[head_of(q)])
  PROVE  /\ Awaken(x, p) \in Held
         /\ Core(Awaken(x, p).heap, Awoken(s, q, p), par)
         /\ Awaken(x, p).sender = Signed(x.sender, s, ssi_pcb)
         /\ Head(s[msgFree_h]).of \in Msg
         /\ \A y \in Pcb : y # p /\ Queueless(s, y) => Queueless(Awoken(s, q, p), y)
<1> DEFINE h1 == list_del(x.heap, p_list(p))
           y1 == [x EXCEPT !.heap = list_del(@, p_list(p))]
           s1 == Dequeued(s, q, p)
           y2 == Deliver(y1, ssi_pcb, p)
           s2 == Delivered(s1, p)
           h3 == insertProcQ(y2.heap, readyQueue, p)
           s3 == Enqueued(s2, "readyQueue", p)
<1>1. /\ {q, "readyQueue"} \subseteq ProcQ /\ q # "pcbFree_h" /\ readyQueue = head_of("readyQueue")
      /\ msgFree_h # head_of(q)
  BY QueueHeads
<1>2. y1.heap = h1 /\ y1.sender = x.sender
  BY DEF Held
<1>3. /\ Core(h1, s1, par) /\ Queueless(s1, p)
      /\ \A z \in Pcb : Queueless(s, z) => Queueless(s1, z)
  <2> DEFINE hh == x.heap
  <2>1. Core(hh, s, par)
    OBVIOUS
  <2> HIDE DEF hh
  <2>2. /\ Core(outProcQ(hh, head_of(q), p), Dequeued(s, q, p), par)
        /\ outProcQ(hh, head_of(q), p) = list_del(hh, p_list(p))
        /\ Queueless(Dequeued(s, q, p), p)
        /\ \A z \in Pcb : Queueless(s, z) => Queueless(Dequeued(s, q, p), z)
    BY <1>1, <2>1, DequeuesSafely
  <2> QED
    BY <2>2 DEF hh
<1>4. s1[msgFree_h] = s[msgFree_h]
  BY <1>1, QueueHeads DEF Dequeued, Core, Stands, Holds
<1> HIDE DEF y1, s1
<1>5. /\ Core(y2.heap, s2, par)
      /\ \A k \in ProcQ : s2[head_of(k)] = s1[head_of(k)]
      /\ y2.sender = Signed(x.sender, s, ssi_pcb)
      /\ Head(s[msgFree_h]).of \in Msg
  <2>1. Core(y1.heap, s1, par) /\ s1[msgFree_h] # <<>>
    BY <1>2, <1>3, <1>4
  <2>2. /\ Core(Deliver(y1, ssi_pcb, p).heap, Delivered(s1, p), par)
        /\ \A k \in ProcQ : Delivered(s1, p)[head_of(k)] = s1[head_of(k)]
        /\ Deliver(y1, ssi_pcb, p).sender = Signed(y1.sender, s1, ssi_pcb)
        /\ Head(s1[msgFree_h]).of \in Msg
    BY <2>1, DeliversSafely, ZenonT(60)
  <2>3. Signed(y1.sender, s1, ssi_pcb) = Signed(x.sender, s, ssi_pcb)
    BY <1>2, <1>4 DEF Signed
  <2> QED
    BY <1>4, <2>2, <2>3
<1>6. Queueless(s2, p) /\ \A z \in Pcb : Queueless(s, z) => Queueless(s2, z)
  BY <1>3, <1>5 DEF Queueless
<1>7. /\ Awaken(x, p).heap = h3 /\ Awaken(x, p).sender = y2.sender
      /\ Awaken(x, p) = [heap |-> h3, sender |-> y2.sender]
  BY DEF Awaken, Deliver, y1
<1> HIDE DEF y2, s2
<1>8. /\ Core(h3, s3, par)
      /\ \A z \in Pcb : z # p /\ Queueless(s2, z) => Queueless(s3, z)
  <2> DEFINE hh == y2.heap
  <2>1. Core(hh, s2, par)
    BY <1>5
  <2> HIDE DEF hh
  <2>2. /\ Core(insertProcQ(hh, readyQueue, p), Enqueued(s2, "readyQueue", p), par)
        /\ \A z \in Pcb : z # p /\ Queueless(s2, z) => Queueless(Enqueued(s2, "readyQueue", p), z)
    BY <1>1, <1>6, <2>1, EnqueuesSafely
  <2> QED
    BY <2>2 DEF hh
<1>9. Signed(x.sender, s, ssi_pcb) \in [Msg -> Pcb \cup {NULL}]
  BY <1>5, Tables DEF Held, Signed
<1>10. h3 \in Heap
  BY <1>8 DEF Core, Stands, Holds
<1> HIDE DEF h3, s3
<1>11. Awaken(x, p) \in Held
  BY <1>5, <1>7, <1>9, <1>10 DEF Held
<1>12. Awoken(s, q, p) = s3
  BY DEF Awoken, s3, s2, s1
<1> QED
  BY <1>5, <1>6, <1>7, <1>8, <1>11, <1>12

\* The device handler.
Finished(s, waiting) == IF waiting = NULL THEN s ELSE Awoken(s, "blockedDiskQueue", waiting)

\* It wakes up the first PCB that waits for the device, if there is one.
LEMMA DeviceHandlerSafe ==
  ASSUME NEW s, Safe(heap, s, p_parent, current_process), m_sender \in [Msg -> Pcb \cup {NULL}],
         NEW d, deviceHandler(d)
  PROVE  \E waiting :
           /\ \/ /\ waiting = NULL /\ m_sender' = m_sender
                 /\ \A i \in DOMAIN s[blockedDiskQueue] :
                      blockedOnDevice[s[blockedDiskQueue][i].of] # d
              \/ /\ waiting \in Pcb /\ s[msgFree_h] # <<>>
                 /\ m_sender' = Signed(m_sender, s, ssi_pcb) /\ Head(s[msgFree_h]).of \in Msg
                 /\ \E i \in DOMAIN s[blockedDiskQueue] :
                      /\ s[blockedDiskQueue][i] = p_list(waiting) /\ blockedOnDevice[waiting] = d
                      /\ \A j \in DOMAIN s[blockedDiskQueue] :
                           j < i => blockedOnDevice[s[blockedDiskQueue][j].of] # d
           /\ Safe(heap', Exited(Finished(s, waiting), current_process), p_parent, current_process')
           /\ current_process' = IF current_process = NULL THEN NextOne(Finished(s, waiting))
                                 ELSE current_process
<1> DEFINE l == blockedDiskQueue
           K == {p \in Pcb : blockedOnDevice[p] = d}
           path == Owners(Walk(heap.next, l))
           waiting == FirstIn(K, path)
           x == [heap |-> heap, sender |-> m_sender]
<1>1. /\ Core(heap, s, p_parent) /\ Stands(heap, s) /\ l = head_of("blockedDiskQueue")
      /\ l \in Heads /\ Field(l) = "p_list" /\ IsFiniteSet(list_head) /\ NULL \notin K
      /\ "blockedDiskQueue" \in ProcQ /\ msgFree_h \in Heads
  BY QueueHeads, Fields, Tables DEF Safe, Core
<1>2. Walk(heap.next, l) = s[l]
  BY <1>1, ListRead
<1>3. \A i \in DOMAIN s[l] : s[l][i].of \in Pcb /\ p_list(s[l][i].of) = s[l][i]
                             /\ s[l][i] \in ToSet(s[l])
  <2> TAKE i \in DOMAIN s[l]
  <2>1. s[l][i] \in ToSet(s[l])
    BY DEF ToSet
  <2>2. s[l][i] \in list_head /\ s[l][i].at = "p_list"
    BY <1>1, <2>1, ListIs
  <2> QED
    BY <2>1, <2>2, Fields
<1>4. path \in Seq(Pcb) /\ DOMAIN path = DOMAIN s[l] /\ \A i \in DOMAIN path : path[i] = s[l][i].of
  <2> DEFINE r == s[l]
  <2>1. r \in Seq(list_head \ Heads)
    BY <1>1, ListIs
  <2>2. r \in Seq(list_head) /\ \A y \in ToSet(r) : y.of \in Pcb
    BY <1>3, <2>1 DEF ToSet
  <2>3. path = Owners(r)
    BY <1>2
  <2> HIDE DEF r, path
  <2>4. /\ Owners(r) \in Seq(Pcb) /\ DOMAIN Owners(r) = DOMAIN r
        /\ \A i \in DOMAIN r : Owners(r)[i] = r[i].of
    BY <2>2, OwnersAre
  <2> QED
    BY <2>3, <2>4 DEF r
<1>5. /\ waiting = NULL => exitInterruptHandler(heap) /\ m_sender' = m_sender
      /\ waiting # NULL => /\ PoolHas(1) /\ exitInterruptHandler(Awaken(x, waiting).heap)
                           /\ m_sender' = Awaken(x, waiting).sender
  BY DEF deviceHandler, Unlocked
<1>6. \/ waiting = NULL /\ \A i \in DOMAIN path : path[i] \notin K
      \/ \E i \in DOMAIN path : /\ waiting = path[i] /\ path[i] \in K
                                /\ \A j \in DOMAIN path : j < i => path[j] \notin K
  <2> HIDE DEF K, path
  <2> QED
    BY <1>1, <1>4, FirstFound
<1>7. ASSUME waiting = NULL, \A i \in DOMAIN path : path[i] \notin K
      PROVE  /\ waiting = NULL /\ m_sender' = m_sender
             /\ \A i \in DOMAIN s[l] : blockedOnDevice[s[l][i].of] # d
             /\ Safe(heap', Exited(Finished(s, waiting), current_process), p_parent, current_process')
             /\ current_process' = IF current_process = NULL THEN NextOne(Finished(s, waiting))
                                   ELSE current_process
  <2>1. exitInterruptHandler(heap) /\ m_sender' = m_sender
    BY <1>5, <1>7
  <2>2. /\ Safe(heap', Exited(s, current_process), p_parent, current_process')
        /\ current_process' = IF current_process = NULL THEN NextOne(s) ELSE current_process
    BY <1>1, <2>1, ExitsSafely DEF Safe
  <2>3. Finished(s, waiting) = s
    BY <1>7 DEF Finished
  <2>4. \A i \in DOMAIN s[l] : blockedOnDevice[s[l][i].of] # d
    BY <1>3, <1>4, <1>7
  <2> QED
    BY <1>7, <2>1, <2>2, <2>3, <2>4
<1>8. ASSUME NEW i \in DOMAIN path, waiting = path[i], path[i] \in K,
             \A j \in DOMAIN path : j < i => path[j] \notin K
      PROVE  /\ waiting \in Pcb /\ s[msgFree_h] # <<>>
             /\ m_sender' = Signed(m_sender, s, ssi_pcb) /\ Head(s[msgFree_h]).of \in Msg
             /\ \E k \in DOMAIN s[l] :
                  /\ s[l][k] = p_list(waiting) /\ blockedOnDevice[waiting] = d
                  /\ \A j \in DOMAIN s[l] : j < k => blockedOnDevice[s[l][j].of] # d
             /\ Safe(heap', Exited(Finished(s, waiting), current_process), p_parent, current_process')
             /\ current_process' = IF current_process = NULL THEN NextOne(Finished(s, waiting))
                                   ELSE current_process
  <2>1. /\ waiting \in Pcb /\ blockedOnDevice[waiting] = d /\ waiting # NULL
    BY <1>1, <1>8
  <2>2. /\ i \in DOMAIN s[l] /\ s[l][i] = p_list(waiting) /\ p_list(waiting) \in ToSet(s[l])
        /\ \A j \in DOMAIN s[l] : j < i => blockedOnDevice[s[l][j].of] # d
    BY <1>3, <1>4, <1>8
  <2>3. PoolHas(1) /\ exitInterruptHandler(Awaken(x, waiting).heap)
        /\ m_sender' = Awaken(x, waiting).sender
    BY <1>5, <2>1
  <2>4. s[msgFree_h] # <<>>
    <3>1. Walk(heap.next, msgFree_h) = s[msgFree_h]
      BY <1>1, ListRead
    <3>2. 1 <= Len(s[msgFree_h])
      BY <2>3, <3>1 DEF PoolHas
    <3> QED
      BY <3>2
  <2>5. x \in Held /\ x.heap = heap /\ x.sender = m_sender
    BY <1>1 DEF Held, Stands, Holds
  <2> HIDE DEF waiting, x
  <2> DEFINE p == waiting
             t == Awoken(s, "blockedDiskQueue", p)
             g == Awaken(x, p).heap
  <2>6. /\ Core(Awaken(x, p).heap, Awoken(s, "blockedDiskQueue", p), p_parent)
        /\ Awaken(x, p).sender = Signed(x.sender, s, ssi_pcb)
        /\ Head(s[msgFree_h]).of \in Msg
        /\ \A y \in Pcb : y # p /\ Queueless(s, y) => Queueless(Awoken(s, "blockedDiskQueue", p), y)
    <3>1. Core(x.heap, s, p_parent) /\ p_list(p) \in ToSet(s[head_of("blockedDiskQueue")])
      BY <1>1, <2>2, <2>5
    <3> QED
      BY <2>1, <2>4, <2>5, <3>1, AwakensSafely
  <2>7. current_process # NULL => Queueless(t, current_process)
    <3> SUFFICES ASSUME current_process # NULL PROVE Queueless(t, current_process)
      OBVIOUS
    <3>1. current_process \in Pcb /\ Queueless(s, current_process)
      BY DEF Safe
    <3>2. current_process # p
      BY <1>1, <2>2, <3>1 DEF Queueless
    <3> QED
      BY <2>6, <3>1, <3>2
  <2>8. Core(g, t, p_parent) /\ exitInterruptHandler(g)
    BY <2>3, <2>6
  <2> HIDE DEF g, t
  <2>9. /\ Safe(heap', Exited(t, current_process), p_parent, current_process')
        /\ current_process' = IF current_process = NULL THEN NextOne(t) ELSE current_process
    BY <2>7, <2>8, ExitsSafely
  <2>10. t = Finished(s, waiting)
    BY <2>1 DEF t, Finished
  <2>11. m_sender' = Signed(m_sender, s, ssi_pcb)
    BY <2>3, <2>5, <2>6
  <2> QED
    BY <2>1, <2>2, <2>4, <2>6, <2>9, <2>10, <2>11
<1> HIDE DEF waiting, path, K
<1> QED
  BY <1>6, <1>7, <1>8

-----------------------------------------------------------------------------
(* The sequences of PCBs and messages that lists of their fields stand for.*)

\* Adding an element to a list adds its owner.
LEMMA OwnersAppended ==
  ASSUME NEW r \in Seq(list_head), NEW x \in list_head
  PROVE  Owners(Append(r, x)) = Append(Owners(r), x.of)
<1> DEFINE S == {y.of : y \in list_head}
           t == Append(r, x)
           a == Owners(t)
           b == Append(Owners(r), x.of)
<1>1. Len(r) \in Nat /\ DOMAIN r = 1..Len(r) /\ \A i \in 1..Len(r) : r[i] \in list_head
  BY LenProperties, ElementOfSeq
<1>2. /\ t \in Seq(list_head) /\ Len(t) = Len(r) + 1 /\ t[Len(r) + 1] = x
      /\ \A i \in 1..Len(r) : t[i] = r[i]
  BY <1>1, AppendProperties
<1> HIDE DEF t
<1>3. (\A y \in ToSet(r) : y.of \in S) /\ (\A y \in ToSet(t) : y.of \in S) /\ x.of \in S
  <2>1. \A y \in list_head : y.of \in S
    OBVIOUS
  <2>2. ToSet(r) \subseteq list_head /\ ToSet(t) \subseteq list_head
    <3>1. DOMAIN t = 1..Len(t) /\ \A i \in 1..Len(t) : t[i] \in list_head
      BY <1>2, LenProperties, ElementOfSeq
    <3> QED
      BY <1>1, <3>1 DEF ToSet
  <2> HIDE DEF S
  <2> QED
    BY <2>1, <2>2
<1> HIDE DEF S
<1>4. /\ Owners(r) \in Seq(S) /\ Len(Owners(r)) = Len(r) /\ \A i \in DOMAIN r : Owners(r)[i] = r[i].of
      /\ a \in Seq(S) /\ Len(a) = Len(t) /\ \A i \in DOMAIN t : a[i] = t[i].of
  BY <1>2, <1>3, OwnersAre
<1>5. /\ b \in Seq(S) /\ Len(b) = Len(r) + 1 /\ b[Len(r) + 1] = x.of
      /\ \A i \in 1..Len(r) : b[i] = Owners(r)[i]
  BY <1>3, <1>4, AppendProperties
<1>6. DOMAIN t = 1..(Len(r) + 1)
  BY <1>2, LenProperties
<1> HIDE DEF a, b
<1>7. ASSUME NEW i \in 1..(Len(r) + 1)
      PROVE  a[i] = b[i]
  <2>1. CASE i = Len(r) + 1
    BY <1>2, <1>4, <1>5, <1>6, <2>1
  <2>2. CASE i # Len(r) + 1
    <3>1. i \in 1..Len(r)
      BY <1>1, <2>2
    <3> QED
      BY <1>1, <1>2, <1>4, <1>5, <1>6, <3>1
  <2> QED
    BY <2>1, <2>2
<1>8. a = b
  BY <1>2, <1>4, <1>5, <1>7, SeqEqual
<1> QED
  BY <1>8 DEF a, b, t

\* Taking the first element takes its owner.
LEMMA OwnersTaken ==
  ASSUME NEW r \in Seq(list_head), r # <<>>
  PROVE  Owners(Tail(r)) = Tail(Owners(r)) /\ Head(Owners(r)) = Head(r).of /\ Owners(r) # <<>>
<1> DEFINE S == {y.of : y \in list_head}
           t == Tail(r)
           o == Owners(r)
           a == Owners(t)
           b == Tail(o)
<1>1. Len(r) \in Nat /\ DOMAIN r = 1..Len(r) /\ \A i \in 1..Len(r) : r[i] \in list_head
  BY LenProperties, ElementOfSeq
<1>2. /\ t \in Seq(list_head) /\ Len(t) = Len(r) - 1 /\ \A i \in 1..Len(t) : t[i] = r[i + 1]
      /\ Len(r) # 0 /\ Head(r) = r[1]
  BY HeadTailProperties, EmptySeq
<1> HIDE DEF t
<1>3. (\A y \in ToSet(r) : y.of \in S) /\ (\A y \in ToSet(t) : y.of \in S)
  <2>1. \A y \in list_head : y.of \in S
    OBVIOUS
  <2>2. ToSet(r) \subseteq list_head /\ ToSet(t) \subseteq list_head
    <3>1. DOMAIN t = 1..Len(t) /\ \A i \in 1..Len(t) : t[i] \in list_head
      BY <1>2, LenProperties, ElementOfSeq
    <3> QED
      BY <1>1, <3>1 DEF ToSet
  <2> HIDE DEF S
  <2> QED
    BY <2>1, <2>2
<1> HIDE DEF S
<1>4. /\ o \in Seq(S) /\ Len(o) = Len(r) /\ \A i \in DOMAIN r : o[i] = r[i].of
      /\ a \in Seq(S) /\ Len(a) = Len(t) /\ \A i \in DOMAIN t : a[i] = t[i].of
  BY <1>2, <1>3, OwnersAre
<1> HIDE DEF o, a
<1>5. o # <<>>
  BY <1>2, <1>4
<1>6. /\ b \in Seq(S) /\ Len(b) = Len(r) - 1 /\ \A i \in 1..Len(b) : b[i] = o[i + 1]
      /\ Head(o) = o[1]
  BY <1>4, <1>5, HeadTailProperties
<1> HIDE DEF b
<1>7. ASSUME NEW i \in 1..Len(a)
      PROVE  a[i] = b[i]
  <2>1. i \in 1..Len(t) /\ i \in DOMAIN t /\ i \in 1..Len(b)
    <3>1. DOMAIN t = 1..Len(t)
      BY <1>2, LenProperties
    <3> QED
      BY <1>2, <1>4, <1>6, <3>1
  <2>2. i + 1 \in DOMAIN r
    <3> DEFINE m == Len(t)
    <3>1. m \in Nat /\ i \in 1..m /\ m = Len(r) - 1
      BY <1>2, <2>1, LenProperties
    <3> HIDE DEF m
    <3> QED
      BY <1>1, <3>1
  <2> QED
    BY <1>2, <1>4, <1>6, <2>1, <2>2
<1>8. a = b
  BY <1>2, <1>4, <1>6, <1>7, SeqEqual
<1>9. 1 \in DOMAIN r
  BY <1>1, <1>2
<1> QED
  BY <1>2, <1>4, <1>5, <1>6, <1>8, <1>9 DEF a, b, t, o

\* Removing elements removes their owners.
LEMMA OwnersWithout ==
  ASSUME NEW r \in Seq(list_head), NEW K, NEW L,
         \A i \in DOMAIN r : r[i] \in K <=> r[i].of \in L
  PROVE  Owners(Without(r, K)) = Without(Owners(r), L)
<1> DEFINE o == Owners(r)
           N == Kept(r, K)
           at(n) == CHOOSE i \in N : Rank(i, N) = n
<1>1. DOMAIN r = 1..Len(r) /\ Len(r) \in Nat
  BY LenProperties
<1>2. DOMAIN o = DOMAIN r /\ \A i \in DOMAIN r : o[i] = r[i].of
  BY DEF Owners
<1> HIDE DEF o
<1>3. Kept(o, L) = N
  BY <1>2 DEF Kept
<1>4. N \in SUBSET Nat /\ IsFiniteSet(N) /\ N \subseteq DOMAIN r
  <2>1. N \subseteq 1..Len(r) /\ N \in SUBSET Nat
    BY <1>1 DEF Kept
  <2>2. IsFiniteSet(1..Len(r))
    BY <1>1, FS_Interval
  <2> QED
    BY <1>1, <2>1, <2>2, FS_Subset
<1> HIDE DEF N
<1>5. \A n \in 1..Cardinality(N) : at(n) \in N
  BY <1>4, EveryRankTaken
<1>6. Without(r, K) = [n \in 1..Cardinality(N) |-> r[at(n)]]
  BY DEF Without, N
<1>7. Without(o, L) = [n \in 1..Cardinality(N) |-> o[at(n)]]
  BY <1>3 DEF Without
<1> HIDE DEF at
<1>8. \A n \in 1..Cardinality(N) : o[at(n)] = r[at(n)].of
  BY <1>2, <1>4, <1>5
<1> DEFINE w == Without(r, K)
<1>9. DOMAIN w = 1..Cardinality(N) /\ \A n \in 1..Cardinality(N) : w[n] = r[at(n)]
  BY <1>6
<1>10. Owners(w) = [n \in 1..Cardinality(N) |-> w[n].of]
  BY <1>9 DEF Owners
<1> HIDE DEF w
<1>11. Owners(w) = [n \in 1..Cardinality(N) |-> o[at(n)]]
  BY <1>8, <1>9, <1>10
<1> QED
  BY <1>7, <1>11 DEF w, o

\* Adding PCBs to a queue.
LEMMA OwnersJoined ==
  ASSUME NEW r \in Seq(list_head), NEW e \in Seq(Pcb)
  PROVE  Owners(r \o PLists(e)) = Owners(r) \o e
<1> DEFINE S == {y.of : y \in list_head} \cup Pcb
           c == PLists(e)
           t == r \o c
           o == Owners(r)
           a == Owners(t)
           b == o \o e
           N == Len(r)
           M == Len(e)
<1>1. /\ N \in Nat /\ DOMAIN r = 1..N /\ \A i \in 1..N : r[i] \in list_head
      /\ M \in Nat /\ DOMAIN e = 1..M /\ \A i \in 1..M : e[i] \in Pcb
  BY LenProperties, ElementOfSeq
<1>2. /\ c \in Seq(list_head) /\ Len(c) = M /\ \A i \in 1..M : c[i].of = e[i]
  <2>1. c = [i \in 1..M |-> p_list(e[i])]
    BY <1>1 DEF PLists
  <2> HIDE DEF M, c
  <2>2. c \in [1..M -> list_head] /\ \A i \in 1..M : c[i] = p_list(e[i])
    BY <1>1, <2>1, Fields
  <2>3. c \in Seq(list_head)
    BY <1>1, <2>2, SeqDef
  <2>4. Len(c) = M
    BY <1>1, <2>2, <2>3, LenProperties
  <2> QED
    BY <2>2, <2>3, <2>4 DEF p_list
<1> HIDE DEF c, N, M
<1>3. /\ t \in Seq(list_head) /\ Len(t) = N + M
      /\ \A i \in 1..(N + M) : t[i] = IF i <= N THEN r[i] ELSE c[i - N]
  <2>1. /\ t \in Seq(list_head) /\ Len(t) = Len(r) + Len(c)
        /\ \A i \in 1..(Len(r) + Len(c)) : t[i] = IF i <= Len(r) THEN r[i] ELSE c[i - Len(r)]
    BY <1>2, ConcatProperties
  <2> QED
    BY <1>2, <2>1 DEF N
<1> HIDE DEF t
<1>4. (\A y \in ToSet(r) : y.of \in S) /\ (\A y \in ToSet(t) : y.of \in S) /\ Pcb \subseteq S
  <2>1. \A y \in list_head : y.of \in S
    OBVIOUS
  <2>2. ToSet(r) \subseteq list_head /\ ToSet(t) \subseteq list_head
    <3>1. DOMAIN t = 1..Len(t) /\ \A i \in 1..Len(t) : t[i] \in list_head
      BY <1>3, LenProperties, ElementOfSeq
    <3> QED
      BY <1>1, <3>1 DEF ToSet
  <2>3. Pcb \subseteq S
    OBVIOUS
  <2> HIDE DEF S
  <2> QED
    BY <2>1, <2>2, <2>3
<1> HIDE DEF S
<1>5. /\ o \in Seq(S) /\ Len(o) = N /\ \A i \in DOMAIN r : o[i] = r[i].of
      /\ a \in Seq(S) /\ Len(a) = Len(t) /\ \A i \in DOMAIN t : a[i] = t[i].of
  BY <1>3, <1>4, OwnersAre DEF N
<1> HIDE DEF o, a
<1>6. /\ b \in Seq(S) /\ Len(b) = N + M
      /\ \A i \in 1..(N + M) : b[i] = IF i <= N THEN o[i] ELSE e[i - N]
  <2>1. e \in Seq(S)
    BY <1>4, SeqMonotonic
  <2>2. /\ b \in Seq(S) /\ Len(b) = Len(o) + Len(e)
        /\ \A i \in 1..(Len(o) + Len(e)) : b[i] = IF i <= Len(o) THEN o[i] ELSE e[i - Len(o)]
    <3>1. o \in Seq(S)
      BY <1>5
    <3>2. \A x, y \in Seq(S) :
            /\ x \o y \in Seq(S) /\ Len(x \o y) = Len(x) + Len(y)
            /\ \A i \in 1..(Len(x) + Len(y)) :
                 (x \o y)[i] = IF i <= Len(x) THEN x[i] ELSE y[i - Len(x)]
      BY ConcatProperties
    <3> QED
      BY <2>1, <3>1, <3>2
  <2> HIDE DEF b
  <2> QED
    BY <1>5, <2>2 DEF M
<1> HIDE DEF b
<1>7. ASSUME NEW i \in 1..(N + M)
      PROVE  a[i] = b[i]
  <2>1. a[i] = t[i].of
    <3>1. DOMAIN t = 1..(N + M)
      BY <1>3, LenProperties
    <3> QED
      BY <1>5, <3>1
  <2>2. CASE i <= N
    <3>1. i \in 1..N
      BY <1>1, <2>2
    <3> QED
      BY <1>1, <1>3, <1>5, <1>6, <2>1, <2>2, <3>1
  <2>3. CASE ~(i <= N)
    <3>1. i - N \in 1..M
      BY <1>1, <2>3
    <3> QED
      BY <1>2, <1>3, <1>6, <2>1, <2>3, <3>1
  <2> QED
    BY <2>2, <2>3
<1>8. a = b
  BY <1>3, <1>5, <1>6, <1>7, SeqEqual
<1> QED
  BY <1>8 DEF a, b, o, t, c

-----------------------------------------------------------------------------
(* What AbstractLists sees of the lists s.                                 *)
QueuesOf(s)   == [q \in ProcQ |-> Owners(s[head_of(q)])]
ChildrenOf(s) == [p \in Pcb |-> Owners(s[p_child(p)])]
InboxesOf(s)  == [p \in Pcb |-> Owners(s[msg_inbox(p)])]
PoolOf(s)     == Owners(s[msgFree_h])

\* It sees the lists that memory stands for.
LEMMA Seen ==
  ASSUME NEW h, NEW s, Stands(h, s)
  PROVE  /\ [q \in ProcQ |-> Owners(Walk(h.next, head_of(q)))] = QueuesOf(s)
         /\ [p \in Pcb |-> Owners(Walk(h.next, p_child(p)))] = ChildrenOf(s)
         /\ [p \in Pcb |-> Owners(Walk(h.next, msg_inbox(p)))] = InboxesOf(s)
         /\ Owners(Walk(h.next, msgFree_h)) = PoolOf(s)
<1>1. \A l \in Heads : Walk(h.next, l) = s[l]
  BY ListRead, Tables
<1>2. /\ \A q \in ProcQ : Walk(h.next, head_of(q)) = s[head_of(q)]
      /\ \A p \in Pcb : Walk(h.next, p_child(p)) = s[p_child(p)] /\ Walk(h.next, msg_inbox(p)) = s[msg_inbox(p)]
      /\ Walk(h.next, msgFree_h) = s[msgFree_h]
  BY <1>1, QueueHeads
<1> QED
  BY <1>2 DEF QueuesOf, ChildrenOf, InboxesOf, PoolOf

\* Before a step ...
LEMMA SeenNow ==
  ASSUME NEW s, Stands(heap, s)
  PROVE  Queues = QueuesOf(s) /\ Children = ChildrenOf(s) /\ Inboxes = InboxesOf(s) /\ FreeMsgs = PoolOf(s)
  BY Seen DEF Queues, Children, Inboxes, FreeMsgs

\* ... and after it.
LEMMA SeenNext ==
  ASSUME NEW s, Stands(heap', s)
  PROVE  /\ Queues' = QueuesOf(s) /\ Children' = ChildrenOf(s) /\ Inboxes' = InboxesOf(s)
         /\ FreeMsgs' = PoolOf(s)
<1> DEFINE g == heap'
<1>1. Stands(g, s)
  OBVIOUS
<1>2. /\ Queues' = [q \in ProcQ |-> Owners(Walk(g.next, head_of(q)))]
      /\ Children' = [p \in Pcb |-> Owners(Walk(g.next, p_child(p)))]
      /\ Inboxes' = [p \in Pcb |-> Owners(Walk(g.next, msg_inbox(p)))]
      /\ FreeMsgs' = Owners(Walk(g.next, msgFree_h))
  BY DEF Queues, Children, Inboxes, FreeMsgs
<1> HIDE DEF g
<1> QED
  BY <1>1, <1>2, Seen

\* A list and what it is seen as.
LEMMA ListShown ==
  ASSUME NEW h, NEW s, Stands(h, s), NEW l \in Heads
  PROVE  /\ s[l] \in Seq(list_head) /\ DOMAIN s = Heads
         /\ DOMAIN Owners(s[l]) = DOMAIN s[l] /\ DOMAIN s[l] = 1..Len(s[l])
         /\ Len(Owners(s[l])) = Len(s[l]) /\ Len(s[l]) \in Nat
         /\ \A i \in DOMAIN s[l] : Owners(s[l])[i] = s[l][i].of
         /\ \A i \in DOMAIN s[l] : s[l][i] = [at |-> Field(l), of |-> Owners(s[l])[i]]
         /\ IsInjective(s[l]) /\ IsInjective(Owners(s[l]))
         /\ \A x : [at |-> Field(l), of |-> x] \in ToSet(s[l]) <=> x \in Range(Owners(s[l]))
         /\ Owners(s[l]) \in Seq(IF Field(l) = "m_list" THEN Msg ELSE Pcb)
         /\ s[l] = <<>> <=> Owners(s[l]) = <<>>
<1> DEFINE r == s[l]
           o == Owners(r)
           S == IF Field(l) = "m_list" THEN Msg ELSE Pcb
<1>1. /\ r \in Seq(list_head \ Heads) /\ DOMAIN s = Heads /\ IsInjective(r)
      /\ DOMAIN r = 1..Len(r) /\ Len(r) \in Nat
      /\ \A x \in ToSet(r) : x \in list_head /\ x.at = Field(l)
  BY ListIs
<1>2. r \in Seq(list_head)
  BY <1>1, SeqMonotonic
<1>3. Field(l) \in {"p_sib", "p_list", "m_list"}
  BY DEF Field
<1> HIDE DEF r
<1>4. \A x \in ToSet(r) : x = [at |-> Field(l), of |-> x.of] /\ x.of \in S
  BY <1>1, <1>3, Fields DEF p_sib, p_list, m_list
<1> HIDE DEF S
<1>5. /\ o \in Seq(S) /\ DOMAIN o = DOMAIN r /\ Len(o) = Len(r) /\ \A i \in DOMAIN r : o[i] = r[i].of
  BY <1>2, <1>4, OwnersAre
<1> HIDE DEF o
<1>6. \A i \in DOMAIN r : r[i] \in ToSet(r) /\ r[i] = [at |-> Field(l), of |-> o[i]]
  BY <1>4, <1>5 DEF ToSet
<1>7. IsInjective(o)
  BY <1>1, <1>5, <1>6 DEF IsInjective
<1>8. ASSUME NEW x PROVE [at |-> Field(l), of |-> x] \in ToSet(r) <=> x \in Range(o)
  <2>1. ASSUME [at |-> Field(l), of |-> x] \in ToSet(r) PROVE x \in Range(o)
    <3>1. PICK i \in DOMAIN r : r[i] = [at |-> Field(l), of |-> x]
      BY <2>1 DEF ToSet
    <3> QED
      BY <1>5, <3>1 DEF Range
  <2>2. ASSUME x \in Range(o) PROVE [at |-> Field(l), of |-> x] \in ToSet(r)
    BY <1>5, <1>6, <2>2 DEF Range
  <2> QED
    BY <2>1, <2>2
<1>9. r = <<>> <=> o = <<>>
  <2>1. r = <<>> <=> Len(r) = 0
    BY <1>2, EmptySeq
  <2>2. o = <<>> <=> Len(o) = 0
    BY <1>5, EmptySeq
  <2> QED
    BY <1>5, <2>1, <2>2
<1> QED
  BY <1>1, <1>2, <1>5, <1>6, <1>7, <1>8, <1>9 DEF r, o, S

\* A queue holds PCBs.
LEMMA QueueShown ==
  ASSUME NEW h, NEW s, Stands(h, s), NEW q \in ProcQ
  PROVE  /\ QueuesOf(s)[q] = Owners(s[head_of(q)]) /\ QueuesOf(s)[q] \in Seq(Pcb)
         /\ \A p : p \in Range(QueuesOf(s)[q]) <=> p_list(p) \in ToSet(s[head_of(q)])
         /\ QueuesOf(s)[q] = <<>> <=> s[head_of(q)] = <<>>
         /\ DOMAIN QueuesOf(s) = ProcQ /\ DOMAIN QueuesOf(s)[q] = DOMAIN s[head_of(q)]
         /\ s[head_of(q)] \in Seq(list_head)
<1> DEFINE l == head_of(q)
<1>1. l \in Heads /\ Field(l) = "p_list"
  BY Fields
<1>2. QueuesOf(s)[q] = Owners(s[l]) /\ DOMAIN QueuesOf(s) = ProcQ
  BY DEF QueuesOf
<1> HIDE DEF l
<1>3. /\ Owners(s[l]) \in Seq(Pcb) /\ DOMAIN Owners(s[l]) = DOMAIN s[l] /\ s[l] \in Seq(list_head)
      /\ \A x : [at |-> "p_list", of |-> x] \in ToSet(s[l]) <=> x \in Range(Owners(s[l]))
      /\ s[l] = <<>> <=> Owners(s[l]) = <<>>
  BY <1>1, ListShown
<1> QED
  BY <1>2, <1>3 DEF p_list, l

-----------------------------------------------------------------------------
(* What the changes of the lists are seen as.                              *)

\* insertProcQ() is Append.
LEMMA EnqueuedShown ==
  ASSUME NEW h, NEW s, Stands(h, s), NEW q \in ProcQ, NEW p \in Pcb
  PROVE  /\ QueuesOf(Enqueued(s, q, p)) = [QueuesOf(s) EXCEPT ![q] = Append(@, p)]
         /\ ChildrenOf(Enqueued(s, q, p)) = ChildrenOf(s)
         /\ InboxesOf(Enqueued(s, q, p)) = InboxesOf(s)
         /\ PoolOf(Enqueued(s, q, p)) = PoolOf(s)
<1> DEFINE t == Enqueued(s, q, p)
<1>1. DOMAIN s = Heads /\ \A k \in Heads : t[k] = IF k = head_of(q) THEN Append(s[k], p_list(p)) ELSE s[k]
  BY DEF Enqueued, Stands, Holds
<1> HIDE DEF t
<1>2. \A k \in Heads : k # head_of(q) => t[k] = s[k]
  BY <1>1
<1>3. (\A x \in Pcb : t[p_child(x)] = s[p_child(x)] /\ t[msg_inbox(x)] = s[msg_inbox(x)])
      /\ t[msgFree_h] = s[msgFree_h]
  BY <1>2, QueueHeads
<1>4. ASSUME NEW x \in ProcQ
      PROVE  Owners(t[head_of(x)]) = [QueuesOf(s) EXCEPT ![q] = Append(@, p)][x]
  <2>1. CASE x = q
    <3>1. t[head_of(q)] = Append(s[head_of(q)], p_list(p)) /\ head_of(q) \in Heads
      BY <1>1, QueueHeads
    <3>2. s[head_of(q)] \in Seq(list_head) /\ p_list(p) \in list_head /\ p_list(p).of = p
      BY <3>1, ListShown, Fields DEF p_list
    <3>3. Owners(t[head_of(q)]) = Append(Owners(s[head_of(q)]), p)
      BY <3>1, <3>2, OwnersAppended
    <3> QED
      BY <2>1, <3>3 DEF QueuesOf
  <2>2. CASE x # q
    <3>1. head_of(x) # head_of(q) /\ head_of(x) \in Heads
      BY <2>2, QueueHeads DEF head_of
    <3> QED
      BY <1>2, <2>2, <3>1 DEF QueuesOf
  <2> QED
    BY <2>1, <2>2
<1>5. QueuesOf(t) = [QueuesOf(s) EXCEPT ![q] = Append(@, p)]
  BY <1>4 DEF QueuesOf
<1> QED
  BY <1>3, <1>5 DEF ChildrenOf, InboxesOf, PoolOf, t

\* outProcQ() is Without.
LEMMA DequeuedShown ==
  ASSUME NEW h, NEW s, Stands(h, s), NEW q \in ProcQ, NEW p \in Pcb
  PROVE  /\ QueuesOf(Dequeued(s, q, p)) = [QueuesOf(s) EXCEPT ![q] = Without(@, {p})]
         /\ ChildrenOf(Dequeued(s, q, p)) = ChildrenOf(s)
         /\ InboxesOf(Dequeued(s, q, p)) = InboxesOf(s)
         /\ PoolOf(Dequeued(s, q, p)) = PoolOf(s)
<1> DEFINE t == Dequeued(s, q, p)
<1>1. /\ DOMAIN s = Heads
      /\ \A k \in Heads : t[k] = IF k = head_of(q) THEN Without(s[k], {p_list(p)}) ELSE s[k]
  BY DEF Dequeued, Stands, Holds
<1> HIDE DEF t
<1>2. \A k \in Heads : k # head_of(q) => t[k] = s[k]
  BY <1>1
<1>3. (\A x \in Pcb : t[p_child(x)] = s[p_child(x)] /\ t[msg_inbox(x)] = s[msg_inbox(x)])
      /\ t[msgFree_h] = s[msgFree_h]
  BY <1>2, QueueHeads
<1>4. ASSUME NEW x \in ProcQ
      PROVE  Owners(t[head_of(x)]) = [QueuesOf(s) EXCEPT ![q] = Without(@, {p})][x]
  <2>1. CASE x = q
    <3> DEFINE r == s[head_of(q)]
    <3>1. t[head_of(q)] = Without(r, {p_list(p)}) /\ head_of(q) \in Heads /\ Field(head_of(q)) = "p_list"
      BY <1>1, QueueHeads, Fields
    <3>2. /\ r \in Seq(list_head)
          /\ \A i \in DOMAIN r : r[i] = [at |-> "p_list", of |-> Owners(r)[i]] /\ Owners(r)[i] = r[i].of
      BY <3>1, ListShown
    <3> HIDE DEF r
    <3>3. \A i \in DOMAIN r : r[i] \in {p_list(p)} <=> r[i].of \in {p}
      <4> TAKE i \in DOMAIN r
      <4> DEFINE y == r[i].of
      <4>1. r[i] = [at |-> "p_list", of |-> y]
        BY <3>2
      <4> HIDE DEF y
      <4> QED
        BY <4>1 DEF p_list
    <3>4. Owners(t[head_of(q)]) = Without(Owners(r), {p})
      BY <3>1, <3>2, <3>3, OwnersWithout
    <3> QED
      BY <2>1, <3>4 DEF QueuesOf, r
  <2>2. CASE x # q
    <3>1. head_of(x) # head_of(q) /\ head_of(x) \in Heads
      BY <2>2, QueueHeads DEF head_of
    <3> QED
      BY <1>2, <2>2, <3>1 DEF QueuesOf
  <2> QED
    BY <2>1, <2>2
<1>5. QueuesOf(t) = [QueuesOf(s) EXCEPT ![q] = Without(@, {p})]
  BY <1>4 DEF QueuesOf
<1> QED
  BY <1>3, <1>5 DEF ChildrenOf, InboxesOf, PoolOf, t

\* allocMsg() takes the pool's first message.
LEMMA TakenShown ==
  ASSUME NEW h, NEW s, Stands(h, s), s[msgFree_h] # <<>>
  PROVE  /\ QueuesOf(Taken(s)) = QueuesOf(s) /\ ChildrenOf(Taken(s)) = ChildrenOf(s)
         /\ InboxesOf(Taken(s)) = InboxesOf(s) /\ PoolOf(Taken(s)) = Tail(PoolOf(s))
         /\ PoolOf(s) # <<>> /\ Head(PoolOf(s)) = Head(s[msgFree_h]).of
<1> DEFINE t == Taken(s)
<1>1. /\ DOMAIN s = Heads /\ msgFree_h \in Heads /\ s[msgFree_h] \in Seq(list_head)
      /\ \A k \in Heads : t[k] = IF k = msgFree_h THEN Tail(s[k]) ELSE s[k]
  BY QueueHeads, ListShown DEF Taken
<1> HIDE DEF t
<1>2. /\ \A x \in Pcb : t[p_child(x)] = s[p_child(x)] /\ t[msg_inbox(x)] = s[msg_inbox(x)]
      /\ \A q \in ProcQ : t[head_of(q)] = s[head_of(q)]
  BY <1>1, QueueHeads
<1>3. /\ Owners(t[msgFree_h]) = Tail(Owners(s[msgFree_h]))
      /\ Owners(s[msgFree_h]) # <<>> /\ Head(Owners(s[msgFree_h])) = Head(s[msgFree_h]).of
  BY <1>1, OwnersTaken
<1> QED
  BY <1>2, <1>3 DEF QueuesOf, ChildrenOf, InboxesOf, PoolOf, t

\* allocMsg() and insertMessage() move it to an inbox.
LEMMA DeliveredShown ==
  ASSUME NEW h, NEW s, Stands(h, s), s[msgFree_h] # <<>>, NEW p \in Pcb
  PROVE  /\ QueuesOf(Delivered(s, p)) = QueuesOf(s) /\ ChildrenOf(Delivered(s, p)) = ChildrenOf(s)
         /\ InboxesOf(Delivered(s, p)) = [InboxesOf(s) EXCEPT ![p] = Append(@, Head(PoolOf(s)))]
         /\ PoolOf(Delivered(s, p)) = Tail(PoolOf(s))
         /\ PoolOf(s) # <<>> /\ Head(PoolOf(s)) = Head(s[msgFree_h]).of
<1> DEFINE t == Delivered(s, p)
           m == Head(s[msgFree_h])
<1>1. /\ DOMAIN s = Heads /\ msgFree_h \in Heads /\ s[msgFree_h] \in Seq(list_head)
      /\ \A q \in ProcQ : head_of(q) # msgFree_h /\ head_of(q) \in Heads
      /\ \A x \in Pcb : /\ \A q \in ProcQ : p_child(x) # head_of(q) /\ msg_inbox(x) # head_of(q)
                        /\ p_child(x) # msgFree_h /\ msg_inbox(x) # msgFree_h
                        /\ p_child(x) # msg_inbox(p) /\ p_child(x) \in Heads /\ msg_inbox(x) \in Heads
                        /\ x # p => msg_inbox(x) # msg_inbox(p)
  BY QueueHeads, ListShown DEF msg_inbox
<1>2. \A k \in Heads : t[k] = IF k = msg_inbox(p) THEN Append(s[k], m)
                              ELSE IF k = msgFree_h THEN Tail(s[k]) ELSE s[k]
  BY <1>1 DEF Delivered
<1> HIDE DEF t
<1>3. /\ \A x \in Pcb : t[p_child(x)] = s[p_child(x)]
      /\ \A q \in ProcQ : t[head_of(q)] = s[head_of(q)]
  BY <1>1, <1>2
<1>4. /\ Owners(t[msgFree_h]) = Tail(Owners(s[msgFree_h]))
      /\ Owners(s[msgFree_h]) # <<>> /\ Head(Owners(s[msgFree_h])) = m.of /\ m \in list_head
  <2>1. t[msgFree_h] = Tail(s[msgFree_h]) /\ m \in list_head
    BY <1>1, <1>2, HeadTailProperties
  <2> HIDE DEF m
  <2> QED
    BY <1>1, <2>1, OwnersTaken DEF m
<1> HIDE DEF m
<1>5. ASSUME NEW x \in Pcb
      PROVE  Owners(t[msg_inbox(x)]) = [InboxesOf(s) EXCEPT ![p] = Append(@, m.of)][x]
  <2>1. CASE x = p
    <3>1. t[msg_inbox(p)] = Append(s[msg_inbox(p)], m) /\ s[msg_inbox(p)] \in Seq(list_head)
      BY <1>1, <1>2, ListShown
    <3>2. Owners(t[msg_inbox(p)]) = Append(Owners(s[msg_inbox(p)]), m.of)
      BY <1>4, <3>1, OwnersAppended
    <3> QED
      BY <2>1, <3>2 DEF InboxesOf
  <2>2. CASE x # p
    BY <1>1, <1>2, <2>2 DEF InboxesOf
  <2> QED
    BY <2>1, <2>2
<1>6. InboxesOf(t) = [InboxesOf(s) EXCEPT ![p] = Append(@, m.of)]
  BY <1>5 DEF InboxesOf
<1> QED
  BY <1>3, <1>4, <1>6 DEF QueuesOf, ChildrenOf, PoolOf, t, m

\* scheduler() takes the first ready process.
LEMMA ScheduledShown ==
  ASSUME NEW h, NEW s, Stands(h, s)
  PROVE  LET qs == QueuesOf(s)
         IN  /\ qs["readyQueue"] = <<>> => QueuesOf(Scheduled(s)) = qs /\ NextOne(s) = NULL
             /\ qs["readyQueue"] # <<>> => /\ QueuesOf(Scheduled(s)) = [qs EXCEPT !["readyQueue"] = Tail(@)]
                                           /\ NextOne(s) = Head(qs["readyQueue"])
             /\ ChildrenOf(Scheduled(s)) = ChildrenOf(s) /\ InboxesOf(Scheduled(s)) = InboxesOf(s)
             /\ PoolOf(Scheduled(s)) = PoolOf(s)
<1> DEFINE t == Scheduled(s)
           r == s[readyQueue]
<1>1. /\ DOMAIN s = Heads /\ "readyQueue" \in ProcQ /\ readyQueue = head_of("readyQueue")
      /\ readyQueue \in Heads /\ r \in Seq(list_head)
      /\ \A q \in ProcQ : head_of(q) \in Heads /\ (q # "readyQueue" => head_of(q) # readyQueue)
  BY QueueHeads, ListShown DEF head_of
<1>2. QueuesOf(s)["readyQueue"] = Owners(r) /\ (QueuesOf(s)["readyQueue"] = <<>> <=> r = <<>>)
  BY <1>1, QueueShown
<1>3. \A k \in Heads : t[k] = IF k = readyQueue /\ r # <<>> THEN Tail(s[k]) ELSE s[k]
  BY <1>1 DEF Scheduled
<1>4. r # <<>> => NextOne(s) = Head(r).of
  BY DEF NextOne
<1>5. r = <<>> => NextOne(s) = NULL
  BY DEF NextOne
<1> HIDE DEF t, r
<1>6. \A k \in Heads : k # readyQueue => t[k] = s[k]
  BY <1>3
<1>7. ChildrenOf(t) = ChildrenOf(s) /\ InboxesOf(t) = InboxesOf(s) /\ PoolOf(t) = PoolOf(s)
  BY <1>6, QueueHeads DEF ChildrenOf, InboxesOf, PoolOf
<1>8. CASE r = <<>>
  <2>1. \A q \in ProcQ : t[head_of(q)] = s[head_of(q)]
    BY <1>1, <1>3, <1>8
  <2> QED
    BY <1>2, <1>5, <1>7, <1>8, <2>1 DEF QueuesOf, t
<1>9. CASE r # <<>>
  <2>1. Owners(Tail(r)) = Tail(Owners(r)) /\ Head(Owners(r)) = Head(r).of
    BY <1>1, <1>9, OwnersTaken
  <2>2. ASSUME NEW q \in ProcQ
        PROVE  Owners(t[head_of(q)]) = [QueuesOf(s) EXCEPT !["readyQueue"] = Tail(@)][q]
    <3>1. CASE q = "readyQueue"
      <4>1. t[readyQueue] = Tail(r)
        BY <1>1, <1>3, <1>9 DEF r
      <4> QED
        BY <1>1, <1>2, <2>1, <3>1, <4>1 DEF QueuesOf
    <3>2. CASE q # "readyQueue"
      BY <1>1, <1>6, <3>2 DEF QueuesOf
    <3> QED
      BY <3>1, <3>2
  <2>3. QueuesOf(t) = [QueuesOf(s) EXCEPT !["readyQueue"] = Tail(@)]
    BY <2>2 DEF QueuesOf
  <2> QED
    BY <1>2, <1>4, <1>7, <1>9, <2>1, <2>3 DEF t
<1> QED
  BY <1>8, <1>9

-----------------------------------------------------------------------------
(* Those who are woken up, in AbstractLists.                               *)

\* Instances of operators that both modules have.
LEMMA SameOperators ==
  /\ Sequences!Pcb = Pcb /\ Sequences!Msg = Msg /\ Sequences!ssi_pcb = ssi_pcb
  /\ \A s, K : Sequences!Without(s, K) = Without(s, K)
  /\ \A s : Sequences!Range(s) = Range(s)
  /\ \A N : Sequences!Min(N) = Min(N)
  /\ \A S : Sequences!SetToSeqs(S) = SetToSeqs(S)
  /\ \A s : Sequences!Reverse(s) = Reverse(s)
  /\ \A s, i : Sequences!RemoveAt(s, i) = RemoveAt(s, i)
  /\ \A S : Sequences!Cardinality(S) = Cardinality(S)
<1>1. Sequences!Pcb = Pcb /\ Sequences!Msg = Msg
  BY DEF Sequences!Pcb, Sequences!Msg, Pcb, Msg, Sequences!Range, Range
<1>2. Sequences!ssi_pcb = ssi_pcb
  BY DEF Sequences!ssi_pcb, ssi_pcb
<1>3. \A s, K : Sequences!Kept(s, K) = Kept(s, K)
  BY DEF Sequences!Kept, Kept
<1>4. \A S : Sequences!Cardinality(S) = Cardinality(S)
  BY DEF Sequences!Cardinality, Cardinality
<1>5. \A i, S : Sequences!Rank(i, S) = Rank(i, S)
  BY <1>4 DEF Sequences!Rank, Rank
<1>6. \A s, K : Sequences!Without(s, K) = Without(s, K)
  BY DEF Sequences!Without, Without, Sequences!Kept, Kept, Sequences!Rank, Rank,
         Sequences!Cardinality, Cardinality
<1>7. \A s : Sequences!Range(s) = Range(s)
  BY DEF Sequences!Range, Range
<1>8. \A N : Sequences!Min(N) = Min(N)
  BY DEF Sequences!Min, Min
<1>9. \A S : Sequences!SetToSeqs(S) = SetToSeqs(S)
  BY <1>4 DEF Sequences!SetToSeqs, SetToSeqs, Sequences!IsInjective, IsInjective
<1>10. \A s : Sequences!Reverse(s) = Reverse(s)
  BY DEF Sequences!Reverse, Reverse
<1>11. \A s, i : Sequences!RemoveAt(s, i) = RemoveAt(s, i)
  BY DEF Sequences!RemoveAt, RemoveAt
<1> QED
  BY <1>1, <1>2, <1>4, <1>6, <1>7, <1>8, <1>9, <1>10, <1>11

\* A handler's Awaken().
LEMMA AwokenShown ==
  ASSUME NEW h, NEW s, NEW par, Core(h, s, par), s[msgFree_h] # <<>>,
         NEW q \in {"pseudoClockQueue", "blockedDiskQueue"},
         NEW p \in Pcb, p_list(p) \in ToSet(s[head_of(q)]), NEW u, u = Awoken(s, q, p)
  PROVE  /\ QueuesOf(u) = [QueuesOf(s) EXCEPT ![q] = Without(@, {p}), !["readyQueue"] = Append(@, p)]
         /\ InboxesOf(u) = [InboxesOf(s) EXCEPT ![p] = Append(@, Head(PoolOf(s)))]
         /\ PoolOf(u) = Tail(PoolOf(s)) /\ PoolOf(s) # <<>> /\ Head(PoolOf(s)) = Head(s[msgFree_h]).of
         /\ ChildrenOf(u) = ChildrenOf(s)
<1> DEFINE s1 == Dequeued(s, q, p)
           s2 == Delivered(s1, p)
           h1 == outProcQ(h, head_of(q), p)
           x1 == [heap |-> h1, sender |-> m_sender]
           x2 == Deliver(x1, ssi_pcb, p)
<1>1. /\ q \in ProcQ /\ "readyQueue" \in ProcQ /\ q # "pcbFree_h" /\ q # "readyQueue" /\ Stands(h, s)
      /\ msgFree_h # head_of(q) /\ msgFree_h \in Heads /\ DOMAIN s = Heads
  BY QueueHeads DEF Core, Stands, Holds
<1>2. Core(h1, s1, par)
  BY <1>1, DequeuesSafely
<1>3. s1[msgFree_h] = s[msgFree_h]
  BY <1>1 DEF Dequeued
<1>4. /\ QueuesOf(s1) = [QueuesOf(s) EXCEPT ![q] = Without(@, {p})] /\ ChildrenOf(s1) = ChildrenOf(s)
      /\ InboxesOf(s1) = InboxesOf(s) /\ PoolOf(s1) = PoolOf(s)
  <2>1. q \in ProcQ /\ Stands(h, s)
    BY <1>1
  <2>2. /\ QueuesOf(Dequeued(s, q, p)) = [QueuesOf(s) EXCEPT ![q] = Without(@, {p})]
        /\ ChildrenOf(Dequeued(s, q, p)) = ChildrenOf(s)
        /\ InboxesOf(Dequeued(s, q, p)) = InboxesOf(s)
        /\ PoolOf(Dequeued(s, q, p)) = PoolOf(s)
    BY <2>1, DequeuedShown
  <2> QED
    BY <2>2
<1>5. u = Enqueued(s2, "readyQueue", p)
  BY DEF Awoken
<1> HIDE DEF s1, h1
<1>6. x1.heap = h1
  OBVIOUS
<1> HIDE DEF x1
<1>7. Core(x2.heap, s2, par)
  BY <1>2, <1>3, <1>6, DeliversSafely
<1>8. Stands(h1, s1) /\ Stands(x2.heap, s2)
  BY <1>2, <1>7 DEF Core
<1>9. /\ QueuesOf(s2) = QueuesOf(s1) /\ ChildrenOf(s2) = ChildrenOf(s1)
      /\ InboxesOf(s2) = [InboxesOf(s1) EXCEPT ![p] = Append(@, Head(PoolOf(s1)))]
      /\ PoolOf(s2) = Tail(PoolOf(s1))
      /\ PoolOf(s1) # <<>> /\ Head(PoolOf(s1)) = Head(s1[msgFree_h]).of
  BY <1>3, <1>8, DeliveredShown
<1> HIDE DEF s2, x2
<1>10. /\ QueuesOf(u) = [QueuesOf(s2) EXCEPT !["readyQueue"] = Append(@, p)]
       /\ ChildrenOf(u) = ChildrenOf(s2) /\ InboxesOf(u) = InboxesOf(s2) /\ PoolOf(u) = PoolOf(s2)
  BY <1>1, <1>5, <1>8, EnqueuedShown
<1>11. QueuesOf(u) = [[QueuesOf(s) EXCEPT ![q] = Without(@, {p})] EXCEPT !["readyQueue"] = Append(@, p)]
  BY <1>4, <1>9, <1>10
<1> QED
  BY <1>3, <1>4, <1>9, <1>10, <1>11

\* From the lists s, with the senders d, all of e have been woken up: the lists are t,
\* the senders f.
Woken(s, t, e, d, f) ==
  /\ QueuesOf(t) = Sequences!Readied(Sequences!Unqueued(QueuesOf(s), Range(e)), e)
  /\ ChildrenOf(t) = ChildrenOf(s)
  /\ Len(e) <= Len(PoolOf(s)) /\ PoolOf(t) = SubSeq(PoolOf(s), Len(e) + 1, Len(PoolOf(s)))
  /\ \A i \in DOMAIN e : InboxesOf(t)[e[i]] = Append(InboxesOf(s)[e[i]], PoolOf(s)[i])
  /\ \A p \in Pcb : p \notin Range(e) => InboxesOf(t)[p] = InboxesOf(s)[p]
  /\ \A i \in DOMAIN e : f[PoolOf(s)[i]] = ssi_pcb
  /\ \A m \in Msg : (\A i \in DOMAIN e : PoolOf(s)[i] # m) => f[m] = d[m]

\* The queues then.
LEMMA WokenQueues ==
  ASSUME NEW s, NEW t, NEW e, NEW d, NEW f, Woken(s, t, e, d, f)
  PROVE  \A q \in ProcQ : QueuesOf(t)[q] = IF q = "readyQueue" THEN Without(QueuesOf(s)[q], Range(e)) \o e
                                           ELSE Without(QueuesOf(s)[q], Range(e))
<1> DEFINE w == Sequences!Unqueued(QueuesOf(s), Range(e))
<1>1. DOMAIN w = ProcQ /\ \A q \in ProcQ : w[q] = Without(QueuesOf(s)[q], Range(e))
  <2>1. \A z, K : Sequences!Without(z, K) = Without(z, K)
    BY SameOperators
  <2>2. DOMAIN QueuesOf(s) = ProcQ
    BY DEF QueuesOf
  <2>3. w = [q \in ProcQ |-> Sequences!Without(QueuesOf(s)[q], Range(e))]
    BY <2>2 DEF Sequences!Unqueued
  <2> HIDE DEF w
  <2> QED
    BY <2>1, <2>3
<1> HIDE DEF w
<1>2. QueuesOf(t) = [q \in ProcQ |-> IF q = "readyQueue" THEN w[q] \o e ELSE w[q]]
  BY <1>1 DEF Woken, Sequences!Readied, Sequences!Added, w
<1> QED
  BY <1>1, <1>2

\* ... and it is enough to know them one by one.
LEMMA WokenFrom ==
  ASSUME NEW s, NEW t, NEW e,
         \A q \in ProcQ : QueuesOf(t)[q] = IF q = "readyQueue" THEN Without(QueuesOf(s)[q], Range(e)) \o e
                                           ELSE Without(QueuesOf(s)[q], Range(e))
  PROVE  QueuesOf(t) = Sequences!Readied(Sequences!Unqueued(QueuesOf(s), Range(e)), e)
<1> DEFINE w == Sequences!Unqueued(QueuesOf(s), Range(e))
           v == QueuesOf(t)
<1>1. DOMAIN w = ProcQ /\ \A q \in ProcQ : w[q] = Without(QueuesOf(s)[q], Range(e))
  <2>1. \A z, K : Sequences!Without(z, K) = Without(z, K)
    BY SameOperators
  <2>2. DOMAIN QueuesOf(s) = ProcQ
    BY DEF QueuesOf
  <2>3. w = [q \in ProcQ |-> Sequences!Without(QueuesOf(s)[q], Range(e))]
    BY <2>2 DEF Sequences!Unqueued
  <2> HIDE DEF w
  <2> QED
    BY <2>1, <2>3
<1>2. v = [q \in ProcQ |-> v[q]]
  BY DEF QueuesOf
<1> HIDE DEF w, v
<1>3. \A q \in ProcQ : v[q] = IF q = "readyQueue" THEN w[q] \o e ELSE w[q]
  BY <1>1 DEF v
<1>4. Sequences!Readied(w, e) = [q \in ProcQ |-> IF q = "readyQueue" THEN w[q] \o e ELSE w[q]]
  BY <1>1 DEF Sequences!Readied, Sequences!Added
<1>5. v = Sequences!Readied(w, e)
  BY <1>2, <1>3, <1>4
<1> QED
  BY <1>5 DEF v, w

\* Before the first one.
LEMMA WokenNone ==
  ASSUME NEW h, NEW s, Stands(h, s), NEW d
  PROVE  Woken(s, s, <<>>, d, d)
<1>1. /\ Len(<<>>) = 0 /\ DOMAIN <<>> = {} /\ Range(<<>>) = {} /\ Len(<<>>) + 1 = 1
  BY DEF Range
<1>2. \A q \in ProcQ : QueuesOf(s)[q] \in Seq(Pcb)
  BY QueueShown
<1>3. \A q \in ProcQ : Without(QueuesOf(s)[q], {}) = QueuesOf(s)[q]
  BY <1>2, WithoutNone
<1>4. \A q \in ProcQ : QueuesOf(s)[q] \o <<>> = QueuesOf(s)[q]
  BY <1>2, ConcatEmptySeq
<1>5. \A q \in ProcQ : QueuesOf(s)[q] = IF q = "readyQueue" THEN Without(QueuesOf(s)[q], {}) \o <<>>
                                        ELSE Without(QueuesOf(s)[q], {})
  BY <1>3, <1>4
<1>6. PoolOf(s) \in Seq(Msg)
  BY ListShown, Fields DEF PoolOf
<1>7. SubSeq(PoolOf(s), 1, Len(PoolOf(s))) = PoolOf(s) /\ Len(PoolOf(s)) >= 0
  BY <1>6, SubSeqFull, LenProperties
<1>8. QueuesOf(s) = Sequences!Readied(Sequences!Unqueued(QueuesOf(s), Range(<<>>)), <<>>)
  BY <1>1, <1>5, WokenFrom
<1> QED
  BY <1>1, <1>7, <1>8 DEF Woken

\* After one more, from the queue q.
LEMMA WokenOne ==
  ASSUME NEW g, NEW s, Stands(g, s), NEW h, NEW t, NEW par, Core(h, t, par),
         NEW e \in Seq(Pcb), NEW d, NEW f \in [Msg -> Pcb \cup {NULL}], Woken(s, t, e, d, f),
         t[msgFree_h] # <<>>, NEW q \in {"pseudoClockQueue", "blockedDiskQueue"},
         NEW p \in Pcb, p_list(p) \in ToSet(t[head_of(q)]), p \notin Range(e)
  PROVE  Woken(s, Awoken(t, q, p), Append(e, p), d, Signed(f, t, ssi_pcb))
<1> DEFINE u == Awoken(t, q, p)
           k == Append(e, p)
           n == Len(e)
           P == PoolOf(s)
           m == P[n + 1]
           f2 == Signed(f, t, ssi_pcb)
<1>1. Stands(h, t) /\ q \in ProcQ /\ q # "readyQueue" /\ "readyQueue" \in ProcQ /\ ssi_pcb \in Pcb
  BY QueueHeads, Tables DEF Core
<1>0. u = Awoken(t, q, p)
  OBVIOUS
<1> HIDE DEF u
<1>2. /\ QueuesOf(u) = [QueuesOf(t) EXCEPT ![q] = Without(@, {p}), !["readyQueue"] = Append(@, p)]
      /\ InboxesOf(u) = [InboxesOf(t) EXCEPT ![p] = Append(@, Head(PoolOf(t)))]
      /\ PoolOf(u) = Tail(PoolOf(t)) /\ PoolOf(t) # <<>> /\ Head(PoolOf(t)) = Head(t[msgFree_h]).of
      /\ ChildrenOf(u) = ChildrenOf(t)
  <2>1. \A x \in {"pseudoClockQueue", "blockedDiskQueue"}, y \in Pcb :
          p_list(y) \in ToSet(t[head_of(x)]) =>
            \A v : v = Awoken(t, x, y) =>
              /\ QueuesOf(v) = [QueuesOf(t) EXCEPT ![x] = Without(@, {y}), !["readyQueue"] = Append(@, y)]
              /\ InboxesOf(v) = [InboxesOf(t) EXCEPT ![y] = Append(@, Head(PoolOf(t)))]
              /\ PoolOf(v) = Tail(PoolOf(t)) /\ PoolOf(t) # <<>> /\ Head(PoolOf(t)) = Head(t[msgFree_h]).of
              /\ ChildrenOf(v) = ChildrenOf(t)
    BY AwokenShown
  <2> QED
    BY <1>0, <2>1
<1>3. /\ n \in Nat /\ DOMAIN e = 1..n /\ k \in Seq(Pcb) /\ Len(k) = n + 1 /\ DOMAIN k = 1..(n + 1)
      /\ k[n + 1] = p /\ \A i \in 1..n : k[i] = e[i]
  <2>1. n \in Nat /\ DOMAIN e = 1..n
    BY LenProperties
  <2>2. k \in Seq(Pcb) /\ Len(k) = n + 1 /\ k[n + 1] = p /\ \A i \in 1..n : k[i] = e[i]
    BY <2>1, AppendProperties
  <2>3. DOMAIN k = 1..Len(k)
    BY <2>2, LenProperties
  <2> QED
    BY <2>1, <2>2, <2>3
<1>4. Range(k) = Range(e) \cup {p} /\ ToSet(e) = Range(e)
  <2>1. ToSet(k) = ToSet(e) \cup {p}
    BY AppendAdds
  <2> QED
    BY <2>1 DEF ToSet, Range
<1>5. P \in Seq(Msg) /\ Len(P) \in Nat /\ DOMAIN P = 1..Len(P)
  <2>1. P \in Seq(Msg)
    BY ListShown, Fields DEF PoolOf
  <2> QED
    BY <2>1, LenProperties
<1> HIDE DEF k, n, P
<1>6. /\ n <= Len(P) /\ PoolOf(t) = SubSeq(P, n + 1, Len(P))
      /\ ChildrenOf(t) = ChildrenOf(s)
      /\ \A i \in 1..n : InboxesOf(t)[e[i]] = Append(InboxesOf(s)[e[i]], P[i])
      /\ \A x \in Pcb : x \notin Range(e) => InboxesOf(t)[x] = InboxesOf(s)[x]
      /\ \A i \in 1..n : f[P[i]] = ssi_pcb
      /\ \A x \in Msg : (\A i \in 1..n : P[i] # x) => f[x] = d[x]
  BY <1>3 DEF Woken, n, P
<1>7. n + 1 <= Len(P) /\ n + 1 \in 1..Len(P)
  <2>1. ASSUME Len(P) < n + 1 PROVE FALSE
    <3>1. SubSeq(P, n + 1, Len(P)) = <<>>
      BY <1>3, <1>5, <2>1, SubSeqEmpty
    <3> QED
      BY <1>2, <1>6, <3>1
  <2> QED
    BY <1>3, <1>5, <2>1
<1>8. Head(PoolOf(t)) = m /\ Tail(PoolOf(t)) = SubSeq(P, (n + 1) + 1, Len(P)) /\ m \in Msg
  <2>1. Len(P) \in (n + 1)..Len(P)
    BY <1>3, <1>5, <1>7
  <2>2. /\ Head(SubSeq(P, n + 1, Len(P))) = P[n + 1]
        /\ Tail(SubSeq(P, n + 1, Len(P))) = SubSeq(P, (n + 1) + 1, Len(P))
    BY <1>5, <1>7, <2>1, HeadTailOfSubSeq
  <2>3. P[n + 1] \in Msg
    BY <1>5, <1>7, ElementOfSeq
  <2> QED
    BY <1>6, <2>2, <2>3
<1> HIDE DEF m
<1>9. f2 = [f EXCEPT ![m] = ssi_pcb]
  BY <1>2, <1>8 DEF Signed
<1> HIDE DEF f2
<1>10. /\ \A i \in DOMAIN k : f2[P[i]] = ssi_pcb
       /\ \A x \in Msg : (\A i \in DOMAIN k : P[i] # x) => f2[x] = d[x]
  <2>1. \A i \in 1..(n + 1) : i \in 1..n \/ i = n + 1
    BY <1>3
  <2>2. \A i \in 1..n : i \in 1..(n + 1) /\ P[i] \in Msg
    <3>1. \A i \in 1..n : i \in 1..(n + 1) /\ i \in 1..Len(P)
      BY <1>3, <1>5, <1>7
    <3> QED
      BY <1>5, <3>1, ElementOfSeq
  <2>3. f2[m] = ssi_pcb /\ m = P[n + 1] /\ n + 1 \in 1..(n + 1)
    BY <1>3, <1>8, <1>9 DEF m
  <2>4. \A x \in Msg : x # m => f2[x] = f[x]
    BY <1>9
  <2>5. \A i \in 1..(n + 1) : f2[P[i]] = ssi_pcb
    BY <1>6, <2>1, <2>2, <2>3, <2>4
  <2>6. \A x \in Msg : (\A i \in 1..(n + 1) : P[i] # x) => f2[x] = d[x]
    BY <1>6, <2>2, <2>3, <2>4
  <2> QED
    BY <1>3, <2>5, <2>6
<1>11. /\ \A i \in DOMAIN k : InboxesOf(u)[k[i]] = Append(InboxesOf(s)[k[i]], P[i])
       /\ \A x \in Pcb : x \notin Range(k) => InboxesOf(u)[x] = InboxesOf(s)[x]
  <2>1. \A i \in 1..(n + 1) : i \in 1..n \/ i = n + 1
    BY <1>3
  <2>2. DOMAIN InboxesOf(t) = Pcb
    BY DEF InboxesOf
  <2>3. \A i \in 1..n : e[i] \in Pcb /\ e[i] # p /\ e[i] \in Range(e)
    <3>1. \A i \in 1..n : e[i] \in Pcb
      BY ElementOfSeq DEF n
    <3>2. \A i \in 1..n : e[i] \in Range(e)
      BY <1>3 DEF Range
    <3> QED
      BY <3>1, <3>2
  <2>4. InboxesOf(u)[p] = Append(InboxesOf(s)[p], m)
    BY <1>2, <1>6, <1>8, <2>2
  <2>5. \A x \in Pcb : x # p => InboxesOf(u)[x] = InboxesOf(t)[x]
    BY <1>2, <2>2
  <2>6. \A i \in 1..(n + 1) : InboxesOf(u)[k[i]] = Append(InboxesOf(s)[k[i]], P[i])
    <3> TAKE i \in 1..(n + 1)
    <3>1. CASE i = n + 1
      BY <1>3, <2>4, <3>1 DEF m
    <3>2. CASE i \in 1..n
      BY <1>3, <1>6, <2>3, <2>5, <3>2
    <3> QED
      BY <2>1, <3>1, <3>2
  <2>7. \A x \in Pcb : x \notin Range(k) => InboxesOf(u)[x] = InboxesOf(s)[x]
    BY <1>4, <1>6, <2>5
  <2> QED
    BY <1>3, <2>6, <2>7
<1>12. \A x \in ProcQ : /\ QueuesOf(t)[x] \in Seq(Pcb) /\ QueuesOf(s)[x] \in Seq(Pcb)
                        /\ x # q => p \notin ToSet(QueuesOf(t)[x])
  <2>1. \A x \in ProcQ : QueuesOf(t)[x] \in Seq(Pcb) /\ QueuesOf(s)[x] \in Seq(Pcb)
    BY <1>1, QueueShown
  <2>2. \A x \in ProcQ : p \in Range(QueuesOf(t)[x]) <=> p_list(p) \in ToSet(t[head_of(x)])
    BY <1>1, QueueShown
  <2>3. ASSUME NEW x \in ProcQ, x # q PROVE p_list(p) \notin ToSet(t[head_of(x)])
    <3>1. head_of(x) # head_of(q) /\ head_of(x) \in Heads /\ head_of(q) \in Heads
      BY <1>1, <2>3, QueueHeads DEF head_of
    <3> QED
      BY <1>1, <3>1, OneList
  <2>4. \A x \in ProcQ : x # q => p \notin Range(QueuesOf(t)[x])
    BY <2>2, <2>3
  <2> QED
    BY <2>1, <2>4 DEF ToSet, Range
<1>13. \A x \in ProcQ : QueuesOf(t)[x] = IF x = "readyQueue" THEN Without(QueuesOf(s)[x], Range(e)) \o e
                                         ELSE Without(QueuesOf(s)[x], Range(e))
  BY WokenQueues
<1>14. ASSUME NEW x \in ProcQ
       PROVE  QueuesOf(u)[x] = IF x = "readyQueue" THEN Without(QueuesOf(s)[x], Range(k)) \o k
                               ELSE Without(QueuesOf(s)[x], Range(k))
  <2> DEFINE a == QueuesOf(s)[x]
             b == Without(a, Range(e))
             c == QueuesOf(t)[x]
             v == QueuesOf(u)[x]
  <2>1. a \in Seq(Pcb) /\ c \in Seq(Pcb) /\ (x # q => p \notin ToSet(c))
    BY <1>12
  <2>2. v = IF x = "readyQueue" THEN Append(c, p) ELSE IF x = q THEN Without(c, {p}) ELSE c
    <3>1. DOMAIN QueuesOf(t) = ProcQ
      BY DEF QueuesOf
    <3> QED
      BY <1>1, <1>2, <3>1
  <2>3. c = IF x = "readyQueue" THEN b \o e ELSE b
    BY <1>13
  <2> HIDE DEF a, c, v
  <2>4. b \in Seq(Pcb)
    BY <2>1, WithoutKeepsOthers
  <2>5. Without(b, {p}) = Without(a, Range(k))
    BY <1>4, <2>1, WithoutTwice
  <2> HIDE DEF b
  <2>6. CASE x = "readyQueue"
    <3>1. c = b \o e /\ v = Append(c, p)
      BY <2>2, <2>3, <2>6
    <3>2. ToSet(c) = ToSet(b) \cup ToSet(e)
      BY <2>4, <3>1, ConcatAdds
    <3>3. p \notin ToSet(b)
      BY <1>1, <2>1, <2>6, <3>2
    <3>4. Without(b, {p}) = b
      BY <2>4, <3>3, WithoutNone
    <3>5. Append(c, p) = c \o <<p>> /\ k = e \o <<p>>
      BY <2>1, AppendIsConcat DEF k
    <3>6. (b \o e) \o <<p>> = b \o (e \o <<p>>)
      <4>1. <<p>> \in Seq(Pcb)
        OBVIOUS
      <4>2. \A x1, x2, x3 \in Seq(Pcb) : (x1 \o x2) \o x3 = x1 \o (x2 \o x3)
        BY ConcatAssociative, SMTT(30)
      <4> QED
        BY <2>4, <4>1, <4>2
    <3> QED
      BY <2>5, <2>6, <3>1, <3>4, <3>5, <3>6 DEF v, a
  <2>7. CASE x = q
    BY <1>1, <2>2, <2>3, <2>5, <2>7 DEF v, a
  <2>8. CASE x # q /\ x # "readyQueue"
    <3>1. c = b /\ v = c
      BY <2>2, <2>3, <2>8
    <3>2. Without(b, {p}) = b
      BY <2>1, <2>4, <2>8, <3>1, WithoutNone
    <3> QED
      BY <2>5, <2>8, <3>1, <3>2 DEF v, a
  <2> QED
    BY <2>6, <2>7, <2>8
<1>15. QueuesOf(u) = Sequences!Readied(Sequences!Unqueued(QueuesOf(s), Range(k)), k)
  BY <1>14, WokenFrom
<1>16. ChildrenOf(u) = ChildrenOf(s) /\ Len(k) <= Len(P) /\ PoolOf(u) = SubSeq(P, Len(k) + 1, Len(P))
  BY <1>2, <1>3, <1>6, <1>7, <1>8
<1>17. Woken(s, u, k, d, f2)
  BY <1>10, <1>11, <1>15, <1>16 DEF Woken, P
<1> QED
  BY <1>17 DEF u, k, f2

-----------------------------------------------------------------------------
(* The interval timer: all who wait for the clock, one after the other.    *)

\* The first of the rest joins those before it.
LEMMA RestTaken ==
  ASSUME NEW S, NEW e \in Seq(S), NEW c \in Seq(S), c # <<>>, IsInjective(e \o c)
  PROVE  /\ Head(c) \in S /\ Head(c) \notin Range(e) /\ Append(e, Head(c)) \in Seq(S)
         /\ Append(e, Head(c)) \o Tail(c) = e \o c /\ Len(Append(e, Head(c))) = Len(e) + 1
<1> DEFINE x == Head(c)
           d == Tail(c)
           o == <<x>>
<1>1. x \in S /\ d \in Seq(S) /\ Len(c) \in Nat \ {0} /\ x = c[1] /\ Len(d) = Len(c) - 1
      /\ \A i \in 1..Len(d) : d[i] = c[i + 1]
  BY HeadTailProperties, EmptySeq
<1>2. DOMAIN e = 1..Len(e) /\ Len(e) \in Nat /\ DOMAIN c = 1..Len(c)
  BY LenProperties
<1>3. /\ e \o c \in Seq(S) /\ Len(e \o c) = Len(e) + Len(c)
      /\ \A i \in 1..Len(e) + Len(c) : (e \o c)[i] = IF i <= Len(e) THEN e[i] ELSE c[i - Len(e)]
  BY ConcatProperties
<1>4. x \notin Range(e)
  <2> SUFFICES ASSUME NEW i \in DOMAIN e, e[i] = x PROVE FALSE
    BY DEF Range
  <2>1. DOMAIN (e \o c) = 1..(Len(e) + Len(c))
    BY <1>3, LenProperties
  <2>2. i \in 1..(Len(e) + Len(c)) /\ Len(e) + 1 \in 1..(Len(e) + Len(c)) /\ i # Len(e) + 1
        /\ i <= Len(e) /\ ~(Len(e) + 1 <= Len(e)) /\ (Len(e) + 1) - Len(e) = 1
    BY <1>1, <1>2
  <2>3. (e \o c)[i] = x /\ (e \o c)[Len(e) + 1] = x
    BY <1>1, <1>3, <2>2
  <2> HIDE DEF x
  <2> QED
    BY <2>1, <2>2, <2>3 DEF IsInjective
<1>5. o \in Seq(S) /\ Len(o) = 1 /\ o[1] = x
  BY <1>1
<1>6. c = o \o d
  <2>1. /\ c = SubSeq(c, 1, Len(c)) /\ d = SubSeq(c, 2, Len(c))
    BY SubSeqFull, TailIsSubSeq
  <2>2. 1 \in 1..Len(c) /\ Len(c) \in 1..Len(c)
    BY <1>1
  <2>3. SubSeq(c, 1, Len(c)) = <<c[1]>> \o SubSeq(c, 1 + 1, Len(c))
    BY <2>2, SubSeqRecursiveFirst
  <2> QED
    BY <1>1, <2>1, <2>3
<1>7. Append(e, x) = e \o o /\ Append(e, x) \in Seq(S) /\ Len(Append(e, x)) = Len(e) + 1
  BY <1>1, AppendIsConcat, AppendProperties
<1>8. (e \o o) \o d = e \o (o \o d)
  <2> HIDE DEF o, d, x
  <2>1. d \in Seq(S) /\ o \in Seq(S)
    BY <1>1, <1>5
  <2> QED
    BY <2>1, ConcatAssociative
<1> QED
  BY <1>1, <1>4, <1>6, <1>7, <1>8

\* n have been woken up of those that the lists s show waiting.
Awakening(x, s, t, n) ==
  /\ x \in Held /\ Core(x.heap, t, p_parent)
  /\ Len(t[pseudoClockQueue]) + n = Len(s[pseudoClockQueue])
  /\ Len(t[msgFree_h]) + n = Len(s[msgFree_h])
  /\ current_process # NULL => Queueless(t, current_process)
  /\ \E e \in Seq(Pcb) :
       /\ Len(e) = n /\ e \o QueuesOf(t)["pseudoClockQueue"] = QueuesOf(s)["pseudoClockQueue"]
       /\ Woken(s, t, e, m_sender, x.sender)

AwakenFirst(x) == Awaken(x, First(x.heap, pseudoClockQueue))

\* One more process is woken up by the interval timer.
LEMMA AwakensOne ==
  ASSUME current_process \in Pcb \cup {NULL}, NEW s, Stands(heap, s), NEW x, NEW t, NEW n \in Nat,
         Awakening(x, s, t, n), s[pseudoClockQueue] \in Seq(list_head),
         Len(s[pseudoClockQueue]) <= Len(s[msgFree_h]), n + 1 <= Len(s[pseudoClockQueue])
  PROVE  \E u : Awakening(AwakenFirst(x), s, u, n + 1)
<1> DEFINE hh == x.heap
           l == pseudoClockQueue
           p == First(hh, l)
           u == Awoken(t, "pseudoClockQueue", p)
<1>1. /\ x \in Held /\ Core(hh, t, p_parent) /\ Stands(hh, t)
      /\ current_process # NULL => Queueless(t, current_process)
  BY DEF Awakening, Core
<1>2. /\ Len(t[l]) + n = Len(s[l]) /\ Len(t[msgFree_h]) + n = Len(s[msgFree_h])
  BY DEF Awakening
<1>3. /\ l \in Heads /\ msgFree_h \in Heads /\ l = head_of("pseudoClockQueue")
      /\ readyQueue = head_of("readyQueue") /\ l # readyQueue /\ l # msgFree_h /\ readyQueue # msgFree_h
      /\ "pseudoClockQueue" \in ProcQ /\ IsFiniteSet(list_head)
      /\ msg_inbox(p) # msgFree_h /\ msg_inbox(p) # l /\ DOMAIN t = Heads
      /\ pseudoClockQueue = head_of("pseudoClockQueue")
  <2>1. msg_inbox(p) # msgFree_h /\ msg_inbox(p) # l
    BY DEF msg_inbox, msgFree_h, pseudoClockQueue, head_of
  <2>2. DOMAIN t = Heads
    BY <1>1 DEF Stands, Holds
  <2> HIDE DEF p
  <2> QED
    BY <2>1, <2>2, QueueHeads, Tables
<1>4. /\ t[l] \in Seq(list_head \ Heads) /\ t[msgFree_h] \in Seq(list_head \ Heads)
      /\ Len(t[l]) \in Nat /\ Len(t[msgFree_h]) \in Nat
  <2> HIDE DEF hh
  <2> QED
    BY <1>1, <1>3, ListIs
<1>5. t[l] # <<>> /\ t[msgFree_h] # <<>>
  <2> DEFINE a == Len(t[l])
             b == Len(t[msgFree_h])
  <2>1. a \in Nat /\ b \in Nat /\ a + n = Len(s[l]) /\ b + n = Len(s[msgFree_h])
        /\ Len(s[l]) <= Len(s[msgFree_h]) /\ n + 1 <= Len(s[l]) /\ Len(s[l]) \in Nat
    BY <1>2, <1>4, LenProperties
  <2>2. a # 0 /\ b # 0
    <3> HIDE DEF a, b
    <3> QED
      BY <2>1
  <2> QED
    BY <2>2
<1>6. /\ p \in Pcb /\ p_list(p) \in ToSet(t[l]) /\ p_list(p) = Head(t[l])
      /\ Tail(t[l]) = Without(t[l], {p_list(p)})
  <2> HIDE DEF hh
  <2> QED
    BY <1>1, <1>3, <1>5, QueueRemoved
<1>7. /\ Awaken(x, p) \in Held /\ Awaken(x, p).sender = Signed(x.sender, t, ssi_pcb)
      /\ Core(Awaken(x, p).heap, Awoken(t, "pseudoClockQueue", p), p_parent)
      /\ \A y \in Pcb : y # p /\ Queueless(t, y) => Queueless(Awoken(t, "pseudoClockQueue", p), y)
  <2>1. Core(x.heap, t, p_parent) /\ p_list(p) \in ToSet(t[head_of("pseudoClockQueue")])
    BY <1>1, <1>3, <1>6
  <2> HIDE DEF p
  <2> QED
    BY <1>1, <1>5, <1>6, <2>1, AwakensSafely
<1>8. u[l] = Tail(t[l]) /\ u[msgFree_h] = Tail(t[msgFree_h])
  <2> HIDE DEF p
  <2> QED
    BY <1>3, <1>6 DEF Awoken, Enqueued, Delivered, Dequeued
<1>9. /\ Len(Tail(t[l])) = Len(t[l]) - 1
      /\ Len(Tail(t[msgFree_h])) = Len(t[msgFree_h]) - 1
  BY <1>4, <1>5, HeadTailProperties
<1>10. /\ Len(u[l]) + (n + 1) = Len(s[l])
       /\ Len(u[msgFree_h]) + (n + 1) = Len(s[msgFree_h])
  <2> DEFINE a == Len(t[l])
             b == Len(t[msgFree_h])
  <2>1. /\ a \in Nat /\ b \in Nat /\ a + n = Len(s[l]) /\ b + n = Len(s[msgFree_h])
        /\ Len(u[l]) = a - 1 /\ Len(u[msgFree_h]) = b - 1
    BY <1>2, <1>4, <1>8, <1>9
  <2> HIDE DEF a, b, u
  <2> QED
    BY <2>1, SMTT(30)
<1>11. current_process # NULL => Queueless(u, current_process)
  <2> SUFFICES ASSUME current_process # NULL PROVE Queueless(u, current_process)
    OBVIOUS
  <2>1. current_process \in Pcb /\ Queueless(t, current_process)
    BY <1>1
  <2>2. current_process # p
    BY <1>3, <1>6, <2>1 DEF Queueless
  <2> QED
    BY <1>7, <2>1, <2>2
<1>12. AwakenFirst(x) = Awaken(x, p)
  BY DEF AwakenFirst
<1>13. \E e \in Seq(Pcb) :
         /\ Len(e) = n + 1 /\ e \o QueuesOf(u)["pseudoClockQueue"] = QueuesOf(s)["pseudoClockQueue"]
         /\ Woken(s, u, e, m_sender, Signed(x.sender, t, ssi_pcb))
  <2> DEFINE c == QueuesOf(t)["pseudoClockQueue"]
  <2> HIDE DEF p, hh
  <2>1. PICK e \in Seq(Pcb) : /\ Len(e) = n /\ e \o c = QueuesOf(s)["pseudoClockQueue"]
                              /\ Woken(s, t, e, m_sender, x.sender)
    BY DEF Awakening
  <2>2. c = Owners(t[l]) /\ c \in Seq(Pcb) /\ QueuesOf(u)["pseudoClockQueue"] = Owners(u[l])
    BY <1>1, <1>3, QueueShown DEF QueuesOf
  <2>3. t[l] \in Seq(list_head)
    BY <1>4, SeqMonotonic
  <2>4. /\ Owners(Tail(t[l])) = Tail(Owners(t[l])) /\ Head(Owners(t[l])) = Head(t[l]).of
        /\ Owners(t[l]) # <<>>
    BY <1>5, <2>3, OwnersTaken
  <2>5. Head(t[l]).of = p
    BY <1>6 DEF p_list
  <2>6. c # <<>> /\ Head(c) = p /\ QueuesOf(u)["pseudoClockQueue"] = Tail(c)
    BY <1>8, <2>2, <2>4, <2>5
  <2>7. IsInjective(QueuesOf(s)["pseudoClockQueue"])
    <3>1. IsInjective(Owners(s[l]))
      BY <1>3, ListShown
    <3> QED
      BY <1>3, <3>1 DEF QueuesOf
  <2> HIDE DEF c, u
  <2>8. /\ p \notin Range(e) /\ Append(e, p) \in Seq(Pcb)
        /\ Append(e, p) \o Tail(c) = e \o c /\ Len(Append(e, p)) = Len(e) + 1
    <3>1. IsInjective(e \o c)
      BY <2>1, <2>7
    <3>2. /\ Head(c) \notin Range(e) /\ Append(e, Head(c)) \in Seq(Pcb)
          /\ Append(e, Head(c)) \o Tail(c) = e \o c /\ Len(Append(e, Head(c))) = Len(e) + 1
      BY <2>2, <2>6, <3>1, RestTaken
    <3> QED
      BY <2>6, <3>2
  <2>9. Woken(s, u, Append(e, p), m_sender, Signed(x.sender, t, ssi_pcb))
    <3>1. x.sender \in [Msg -> Pcb \cup {NULL}]
      BY <1>1 DEF Held
    <3>2. p_list(p) \in ToSet(t[head_of("pseudoClockQueue")])
      BY <1>3, <1>6
    <3>3. Woken(s, Awoken(t, "pseudoClockQueue", p), Append(e, p), m_sender, Signed(x.sender, t, ssi_pcb))
      <4> DEFINE f == x.sender
      <4>1. f \in [Msg -> Pcb \cup {NULL}] /\ Woken(s, t, e, m_sender, f)
        BY <2>1, <3>1
      <4> HIDE DEF f
      <4>2. "pseudoClockQueue" \in {"pseudoClockQueue", "blockedDiskQueue"}
        OBVIOUS
      <4>3. Woken(s, Awoken(t, "pseudoClockQueue", p), Append(e, p), m_sender, Signed(f, t, ssi_pcb))
        BY <1>1, <1>5, <1>6, <2>8, <3>2, <4>1, <4>2, WokenOne
      <4> QED
        BY <4>3 DEF f
    <3> QED
      BY <3>3 DEF u
  <2> QED
    BY <2>1, <2>6, <2>8, <2>9
<1> HIDE DEF u, p, hh
<1>14. Awakening(Awaken(x, p), s, u, n + 1)
  <2> DEFINE y == Awaken(x, p)
  <2>1. /\ y \in Held /\ y.sender = Signed(x.sender, t, ssi_pcb) /\ Core(y.heap, u, p_parent)
    BY <1>7 DEF u
  <2> HIDE DEF y
  <2>2. \E e \in Seq(Pcb) :
          /\ Len(e) = n + 1 /\ e \o QueuesOf(u)["pseudoClockQueue"] = QueuesOf(s)["pseudoClockQueue"]
          /\ Woken(s, u, e, m_sender, y.sender)
    BY <1>13, <2>1
  <2>3. Awakening(y, s, u, n + 1)
    BY <1>10, <1>11, <2>1, <2>2 DEF Awakening
  <2> QED
    BY <2>3 DEF y
<1> QED
  BY <1>12, <1>14

\* The handler's loop, as a function of how many it has woken up.
AwakensAll(w, waiting) ==
  w = [n \in 0..waiting |->
         IF n = 0 THEN [heap |-> heap, sender |-> m_sender] ELSE AwakenFirst(w[n - 1])]

\* There is such a function as long as each step of the loop can be taken.
LEMMA AwakensAllExists ==
  ASSUME current_process \in Pcb \cup {NULL}, NEW s, Stands(heap, s),
         s[pseudoClockQueue] \in Seq(list_head),
         Len(s[pseudoClockQueue]) <= Len(s[msgFree_h]),
         Awakening([heap |-> heap, sender |-> m_sender], s, s, 0)
  PROVE  \E w : /\ AwakensAll(w, Len(s[pseudoClockQueue]))
                /\ \E t : Awakening(w[Len(s[pseudoClockQueue])], s, t, Len(s[pseudoClockQueue]))
<1> DEFINE waiting == Len(s[pseudoClockQueue])
           a == [heap |-> heap, sender |-> m_sender]
           F == [x \in Held |-> IF AwakenFirst(x) \in Held THEN AwakenFirst(x) ELSE x]
           G == [n \in Nat |-> F]
<1>1. waiting \in Nat
  BY LenProperties
<1>2. a \in Held
  BY DEF Awakening
<1>3. \A x \in Held : F[x] = IF AwakenFirst(x) \in Held THEN AwakenFirst(x) ELSE x
  OBVIOUS
<1>4. F \in [Held -> Held]
  OBVIOUS
<1> HIDE DEF F, a, waiting
<1>5. G \in [Nat -> [Held -> Held]]
  BY <1>4
<1>6. PICK f : Iterates(f, Held, a, G)
  <2> HIDE DEF G
  <2> QED
    BY <1>2, <1>5, RecursionExists
<1>7. f[0] = a /\ \A n \in Nat : f[n] \in Held /\ f[n + 1] = F[f[n]]
  BY <1>6 DEF Iterates
<1> DEFINE N == {n \in Nat : n <= waiting => \E t : Awakening(f[n], s, t, n)}
<1>8. 0 \in N
  <2>1. Awakening(f[0], s, s, 0)
    BY <1>7 DEF a
  <2> QED
    BY <2>1
<1>9. ASSUME NEW n \in Nat, n + 1 <= waiting, NEW t, Awakening(f[n], s, t, n)
      PROVE  /\ f[n + 1] = AwakenFirst(f[n])
             /\ \E u : Awakening(f[n + 1], s, u, n + 1)
  <2> DEFINE x == f[n]
  <2>1. Awakening(x, s, t, n) /\ n + 1 <= Len(s[pseudoClockQueue])
    BY <1>9 DEF waiting
  <2>2. f[n + 1] = F[x] /\ x \in Held
    BY <1>7
  <2> HIDE DEF x
  <2>3. PICK u : Awakening(AwakenFirst(x), s, u, n + 1)
    BY <2>1, AwakensOne
  <2>4. AwakenFirst(x) \in Held
    BY <2>3 DEF Awakening
  <2>5. f[n + 1] = AwakenFirst(x)
    BY <1>3, <2>2, <2>4
  <2> QED
    BY <2>3, <2>5 DEF x
<1>10. ASSUME NEW n \in Nat, n \in N
       PROVE  n + 1 \in N
  <2> SUFFICES ASSUME n + 1 <= waiting PROVE \E u : Awakening(f[n + 1], s, u, n + 1)
    OBVIOUS
  <2>1. n <= waiting
    BY <1>1
  <2>2. PICK t : Awakening(f[n], s, t, n)
    BY <1>10, <2>1
  <2> QED
    BY <1>9, <2>2
<1>11. Nat \subseteq N
  <2> HIDE DEF N
  <2> QED
    BY <1>8, <1>10, NatInductive
<1>12. \A n \in 0..waiting : \E t : Awakening(f[n], s, t, n)
  <2> TAKE n \in 0..waiting
  <2>1. n \in Nat /\ n <= waiting
    BY <1>1
  <2> QED
    BY <1>11, <2>1
<1> DEFINE w == [n \in 0..waiting |-> f[n]]
<1>13. \A n \in 0..waiting : w[n] = IF n = 0 THEN a ELSE AwakenFirst(w[n - 1])
  <2> TAKE n \in 0..waiting
  <2>1. CASE n = 0
    BY <1>1, <1>7, <2>1
  <2>2. CASE n # 0
    <3> DEFINE m == n - 1
    <3>1. m \in Nat /\ m \in 0..waiting /\ m + 1 = n /\ m + 1 <= waiting
      BY <1>1, <2>2
    <3> HIDE DEF m
    <3>2. PICK t : Awakening(f[m], s, t, m)
      BY <1>12, <3>1
    <3>3. f[m + 1] = AwakenFirst(f[m])
      BY <1>9, <3>1, <3>2
    <3>4. w[n] = AwakenFirst(w[m])
      BY <3>1, <3>3
    <3> QED
      BY <2>2, <3>4 DEF m
  <2> QED
    BY <2>1, <2>2
<1>14. w = [n \in 0..waiting |-> IF n = 0 THEN a ELSE AwakenFirst(w[n - 1])]
  <2>1. DOMAIN w = 0..waiting /\ w = [n \in 0..waiting |-> w[n]]
    OBVIOUS
  <2> HIDE DEF w
  <2> QED
    BY <1>13, <2>1
<1>15. waiting \in 0..waiting /\ w[waiting] = f[waiting]
  BY <1>1
<1> HIDE DEF w
<1>16. AwakensAll(w, waiting)
  BY <1>14 DEF AwakensAll, a
<1>17. \E t : Awakening(w[waiting], s, t, waiting)
  BY <1>12, <1>15
<1> QED
  BY <1>16, <1>17 DEF waiting

\* The interval timer's handler.
LEMMA IntervalTimerSafe ==
  ASSUME NEW s, Safe(heap, s, p_parent, current_process), m_sender \in [Msg -> Pcb \cup {NULL}],
         intervalTimerHandler
  PROVE  \E x, t : /\ Awakening(x, s, t, Len(s[pseudoClockQueue])) /\ m_sender' = x.sender
                   /\ Safe(heap', Exited(t, current_process), p_parent, current_process')
                   /\ current_process' = IF current_process = NULL THEN NextOne(t)
                                         ELSE current_process
<1> DEFINE waiting == Len(s[pseudoClockQueue])
           w == CHOOSE f : AwakensAll(f, waiting)
           x == w[waiting]
<1>1. /\ Core(heap, s, p_parent) /\ Stands(heap, s) /\ current_process \in Pcb \cup {NULL}
      /\ pseudoClockQueue \in Heads /\ msgFree_h \in Heads /\ IsFiniteSet(list_head)
      /\ current_process # NULL => Queueless(s, current_process)
  BY QueueHeads, Tables DEF Safe, Core
<1>2. /\ Walk(heap.next, pseudoClockQueue) = s[pseudoClockQueue]
      /\ Walk(heap.next, msgFree_h) = s[msgFree_h]
      /\ s[pseudoClockQueue] \in Seq(list_head \ Heads)
      /\ Len(s[pseudoClockQueue]) \in Nat /\ Len(s[msgFree_h]) \in Nat
  BY <1>1, ListRead, ListIs
<1>3. s[pseudoClockQueue] \in Seq(list_head)
  BY <1>2
<1>4. /\ PoolHas(waiting) /\ exitInterruptHandler(x.heap) /\ m_sender' = x.sender
  BY <1>2 DEF intervalTimerHandler, AwakensAll, AwakenFirst
<1>5. Len(s[pseudoClockQueue]) <= Len(s[msgFree_h])
  BY <1>2, <1>4 DEF PoolHas
<1>6. Awakening([heap |-> heap, sender |-> m_sender], s, s, 0)
  <2> DEFINE y == [heap |-> heap, sender |-> m_sender]
  <2>1. [heap |-> heap, sender |-> m_sender] \in Held
    BY <1>1 DEF Held, Stands, Holds
  <2>2. /\ Len(s[pseudoClockQueue]) + 0 = Len(s[pseudoClockQueue])
        /\ Len(s[msgFree_h]) + 0 = Len(s[msgFree_h])
    BY <1>2
  <2>3. \E e \in Seq(Pcb) :
          /\ Len(e) = 0 /\ e \o QueuesOf(s)["pseudoClockQueue"] = QueuesOf(s)["pseudoClockQueue"]
          /\ Woken(s, s, e, m_sender, m_sender)
    <3>1. QueuesOf(s)["pseudoClockQueue"] \in Seq(Pcb)
      BY <1>1, QueueShown, QueueHeads
    <3>2. <<>> \o QueuesOf(s)["pseudoClockQueue"] = QueuesOf(s)["pseudoClockQueue"]
      BY <3>1, ConcatEmptySeq
    <3>3. Woken(s, s, <<>>, m_sender, m_sender)
      BY <1>1, WokenNone
    <3>4. <<>> \in Seq(Pcb) /\ Len(<<>>) = 0
      OBVIOUS
    <3> QED
      BY <3>2, <3>3, <3>4
  <2>4. y \in Held /\ y.heap = heap /\ y.sender = m_sender
    BY <2>1
  <2> HIDE DEF y
  <2>5. Awakening(y, s, s, 0)
    BY <1>1, <2>2, <2>3, <2>4 DEF Awakening
  <2> QED
    BY <2>5 DEF y
<1>7. AwakensAll(w, waiting) /\ \E t : Awakening(x, s, t, waiting)
  <2>1. PICK f : AwakensAll(f, waiting) /\ \E t : Awakening(f[waiting], s, t, waiting)
    BY <1>1, <1>3, <1>5, <1>6, AwakensAllExists
  <2>2. \A f1, f2 : AwakensAll(f1, waiting) /\ AwakensAll(f2, waiting) => f1[waiting] = f2[waiting]
    <3> TAKE f1, f2
    <3> SUFFICES ASSUME AwakensAll(f1, waiting), AwakensAll(f2, waiting)
                 PROVE  f1[waiting] = f2[waiting]
      OBVIOUS
    <3> DEFINE M == {n \in Nat : n <= waiting => f1[n] = f2[n]}
    <3> HIDE DEF waiting
    <3>0. waiting \in Nat
      BY <1>2 DEF waiting
    <3>1. \A n \in 0..waiting : 
             /\ f1[n] = IF n = 0 THEN [heap |-> heap, sender |-> m_sender] ELSE AwakenFirst(f1[n - 1])
             /\ f2[n] = IF n = 0 THEN [heap |-> heap, sender |-> m_sender] ELSE AwakenFirst(f2[n - 1])
      <4> TAKE n \in 0..waiting
      <4> DEFINE v(k) == IF n = 0 THEN [heap |-> heap, sender |-> m_sender] ELSE AwakenFirst(k[n - 1])
      <4>1. f1[n] = v(f1)
        BY DEF AwakensAll
      <4>2. f2[n] = v(f2)
        BY DEF AwakensAll
      <4> QED
        BY <4>1, <4>2
    <3>2. 0 \in M
      BY <3>0, <3>1
    <3>3. ASSUME NEW n \in Nat, n \in M PROVE n + 1 \in M
      <4> SUFFICES ASSUME n + 1 <= waiting PROVE f1[n + 1] = f2[n + 1]
        OBVIOUS
      <4>1. n <= waiting /\ n + 1 \in 0..waiting /\ n + 1 # 0 /\ (n + 1) - 1 = n
        BY <3>0
      <4>2. f1[n] = f2[n]
        BY <3>3, <4>1
      <4>3. f1[n + 1] = AwakenFirst(f1[n]) /\ f2[n + 1] = AwakenFirst(f2[n])
        BY <3>1, <4>1
      <4> QED
        BY <4>2, <4>3
    <3> HIDE DEF M
    <3>4. waiting \in M
      BY <3>0, <3>2, <3>3, NatInductive
    <3> QED
      BY <3>0, <3>4 DEF M
  <2>3. AwakensAll(w, waiting)
    BY <2>1
  <2>4. f[waiting] = w[waiting]
    BY <2>1, <2>2, <2>3
  <2> QED
    BY <2>1, <2>3, <2>4
<1>8. PICK t : Awakening(x, s, t, waiting)
  BY <1>7
<1>9. /\ Core(x.heap, t, p_parent)
      /\ current_process # NULL => Queueless(t, current_process)
  BY <1>8 DEF Awakening
<1>10. /\ Safe(heap', Exited(t, current_process), p_parent, current_process')
       /\ current_process' = IF current_process = NULL THEN NextOne(t) ELSE current_process
  <2> DEFINE g == x.heap
  <2>1. Core(g, t, p_parent) /\ exitInterruptHandler(g)
    BY <1>4, <1>9
  <2> HIDE DEF g
  <2> QED
    BY <1>9, <2>1, ExitsSafely
<1> QED
  BY <1>4, <1>8, <1>10

-----------------------------------------------------------------------------
(* The first free PCB is initialised and is ready.                         *)
Readied(s) ==
  LET p == Head(s[pcbFree_h]).of
  IN  [l \in Heads |-> CASE l = pcbFree_h    -> Tail(s[l])
                         [] l = msg_inbox(p) -> <<>>
                         [] l = readyQueue   -> Append(s[l], p_list(p))
                         [] OTHER            -> s[l]]

\* What allocPcb() and insertProcQ() do to the lists.
LEMMA ReadiedAre ==
  ASSUME NEW h, NEW s, Stands(h, s), s[pcbFree_h] # <<>>,
         NEW p, p = First(h, pcbFree_h), ~Linked(s, p_sib(p)), s[p_child(p)] = <<>>
  PROVE  /\ Stands(insertProcQ(allocPcb(h), readyQueue, p), Readied(s))
         /\ p \in Pcb /\ Free(s, p) /\ p_list(p) = Head(s[pcbFree_h]) /\ p = Head(s[pcbFree_h]).of
         /\ Tail(s[pcbFree_h]) = Without(s[pcbFree_h], {p_list(p)})
         /\ ~Linked(Readied(s), p_sib(p))
<1> DEFINE v == [s EXCEPT ![pcbFree_h] = Tail(@)]
           t1 == Allocated(s, p)
           t2 == [t1 EXCEPT ![readyQueue] = Append(@, p_list(p))]
           h1 == allocPcb(h)
           h2 == insertProcQ(h1, readyQueue, p)
<1>1. /\ DOMAIN s = Heads /\ IsFiniteSet(list_head)
      /\ readyQueue = head_of("readyQueue") /\ "readyQueue" \in ProcQ
      /\ pcbFree_h = head_of("pcbFree_h") /\ "pcbFree_h" \in ProcQ
      /\ pcbFree_h \in Heads /\ readyQueue \in Heads /\ pcbFree_h # readyQueue
  BY QueueHeads, Tables DEF Stands, Holds
<1>2. p \in Pcb /\ p_list(p) \in ToSet(s[pcbFree_h]) /\ p_list(p) = Head(s[pcbFree_h])
  BY <1>1, QueueRemoved
<1>3. /\ Stands(h1, t1)
      /\ ~Linked(v, p_list(p))
      /\ Tail(s[pcbFree_h]) = Without(s[pcbFree_h], {p_list(p)})
  BY <1>1, PcbAllocated
<1>4. \A l \in Heads : /\ l \in {p_child(p), msg_inbox(p)} => t1[l] = <<>>
                       /\ l \notin {p_child(p), msg_inbox(p)} => t1[l] = v[l]
  BY <1>1 DEF Allocated
<1>5. \A l \in Heads : ToSet(v[l]) \subseteq ToSet(s[l])
  <2> TAKE l \in Heads
  <2>1. CASE l # pcbFree_h
    BY <1>1, <2>1 DEF v
  <2>2. CASE l = pcbFree_h
    <3>1. v[l] = Without(s[pcbFree_h], {p_list(p)}) /\ s[pcbFree_h] \in Seq(list_head \ Heads)
      BY <1>1, <1>3, <2>2, ListIs DEF v
    <3> QED
      BY <2>2, <3>1, WithoutKeepsOthers
  <2> QED
    BY <2>1, <2>2
<1> HIDE DEF v
<1>6. ~Linked(t1, p_list(p)) /\ ~Linked(t1, p_sib(p))
  <2>1. \A l \in Heads : ToSet(t1[l]) \subseteq ToSet(v[l])
    <3>1. ToSet(<<>>) = {}
      BY DEF ToSet
    <3> QED
      BY <1>4, <3>1
  <2> QED
    BY <1>3, <1>5, <2>1 DEF Linked
<1>7. /\ p_child(p) \in Heads /\ readyQueue \notin {p_child(p), msg_inbox(p)}
      /\ pcbFree_h \notin {p_child(p), msg_inbox(p)} /\ p_child(p) # msg_inbox(p)
  BY <1>1, <1>2, QueueHeads
<1> HIDE DEF t1, h1
<1>8. Stands(h2, t2)
  BY <1>1, <1>2, <1>3, <1>6, QueueInserted
<1>9. DOMAIN t1 = Heads
  BY DEF t1, Allocated
<1>10. ~Linked(t2, p_sib(p))
  <2> SUFFICES ASSUME NEW l \in Heads, p_sib(p) \in ToSet(t2[l])
               PROVE  FALSE
    BY DEF Linked
  <2>1. CASE l # readyQueue
    BY <1>6, <1>9, <2>1 DEF Linked
  <2>2. CASE l = readyQueue
    <3> HIDE DEF t2
    <3>1. p_sib(p).at = Field(l)
      BY <1>8, ListIs
    <3> QED
      BY <1>1, <2>2, <3>1, Fields DEF p_sib
  <2> QED
    BY <2>1, <2>2
<1>11. Head(s[pcbFree_h]).of = p
  BY <1>2 DEF p_list
<1>12. ASSUME NEW l \in Heads
       PROVE  t2[l] = CASE l = pcbFree_h    -> Tail(s[l])
                        [] l = msg_inbox(p) -> <<>>
                        [] l = readyQueue   -> Append(s[l], p_list(p))
                        [] OTHER            -> s[l]
  <2>1. t2[l] = IF l = readyQueue THEN Append(t1[l], p_list(p)) ELSE t1[l]
    BY <1>9
  <2>2. t1[l] = IF l \in {p_child(p), msg_inbox(p)} THEN <<>>
                ELSE IF l = pcbFree_h THEN Tail(s[l]) ELSE s[l]
    BY DEF t1, Allocated
  <2>3. CASE l = pcbFree_h
    BY <1>1, <1>7, <2>1, <2>2, <2>3
  <2>4. CASE l = msg_inbox(p)
    BY <1>1, <1>7, <2>1, <2>2, <2>4
  <2>5. CASE l = readyQueue
    BY <1>1, <1>7, <2>1, <2>2, <2>5
  <2>6. CASE l \notin {pcbFree_h, msg_inbox(p), readyQueue}
    BY <1>1, <1>7, <2>1, <2>2, <2>6
  <2> QED
    BY <2>3, <2>4, <2>5, <2>6
<1>13. t2 = Readied(s)
  <2>1. t2 = [l \in Heads |-> t2[l]]
    BY <1>9
  <2>2. Readied(s) = [l \in Heads |-> CASE l = pcbFree_h    -> Tail(s[l])
                                        [] l = msg_inbox(p) -> <<>>
                                        [] l = readyQueue   -> Append(s[l], p_list(p))
                                        [] OTHER            -> s[l]]
    BY <1>11 DEF Readied
  <2> HIDE DEF t2
  <2> QED
    BY <1>12, <2>1, <2>2
<1>14. Stands(h2, Readied(s)) /\ ~Linked(Readied(s), p_sib(p))
  BY <1>8, <1>10, <1>13
<1> QED
  BY <1>2, <1>3, <1>11, <1>14 DEF Free, h1

-----------------------------------------------------------------------------
(* CREATEPROCESS: the first free PCB is ready, and a child of prnt.        *)
Created(s, prnt) ==
  LET p == Head(s[pcbFree_h]).of
  IN  [l \in Heads |-> CASE l = pcbFree_h    -> Tail(s[l])
                         [] l = msg_inbox(p) -> <<>>
                         [] l = readyQueue   -> Append(s[l], p_list(p))
                         [] l = p_child(prnt) -> Append(s[l], p_sib(p))
                         [] OTHER            -> s[l]]

Adopted(par, p, prnt) == [par EXCEPT ![p] = prnt]

\* A PCB that is nobody's parent can become a leaf.
LEMMA AdoptedAcyclic ==
  ASSUME NEW par \in [Pcb -> Pcb \cup {NULL}], Acyclic(par), NEW p \in Pcb, NEW prnt \in Pcb,
         prnt # p, \A c \in Pcb : par[c] # p
  PROVE  Acyclic(Adopted(par, p, prnt))
<1> DEFINE t == Adopted(par, p, prnt)
<1>1. t[p] = prnt /\ \A x \in Pcb \ {p} : t[x] = par[x]
  BY DEF Adopted
<1> HIDE DEF t
<1> SUFFICES ASSUME NEW S \in SUBSET Pcb, S # {}
             PROVE  \E x \in S : t[x] \notin S
  BY DEF Acyclic, t
<1>2. CASE S = {p}
  BY <1>1, <1>2
<1>3. CASE S # {p}
  <2>1. S \ {p} \in SUBSET Pcb /\ S \ {p} # {}
    BY <1>3
  <2>2. PICK x \in S \ {p} : par[x] \notin S \ {p}
    BY <2>1 DEF Acyclic
  <2> QED
    BY <1>1, <2>2
<1> QED
  BY <1>2, <1>3

\* A PCB is in no list of children, or has none, when its links are in no such list.
LEMMA Parentless ==
  ASSUME NEW h, NEW s, Stands(h, s), NEW p \in Pcb,
         \A x \in Pcb : p_sib(p) \notin ToSet(s[p_child(x)])
  PROVE  ~Linked(s, p_sib(p))
<1> SUFFICES ASSUME NEW l \in Heads, p_sib(p) \in ToSet(s[l])
             PROVE  FALSE
  BY DEF Linked
<1>1. Field(l) = "p_sib"
  <2>1. p_sib(p).at = Field(l)
    BY ListIs
  <2> QED
    BY <2>1 DEF p_sib
<1>2. l.at = "p_child"
  BY <1>1 DEF Field
<1>3. l.of \in Pcb /\ l = p_child(l.of)
  BY <1>2, Fields DEF Heads
<1> QED
  BY <1>3

\* A PCB has no children when the links of none are in its list.
LEMMA Childless ==
  ASSUME NEW h, NEW s, Stands(h, s), NEW p \in Pcb, IsFiniteSet(list_head),
         \A c \in Pcb : p_sib(c) \notin ToSet(s[p_child(p)])
  PROVE  s[p_child(p)] = <<>>
<1> SUFFICES ASSUME s[p_child(p)] # <<>>
             PROVE  FALSE
  OBVIOUS
<1>1. p_child(p) \in Heads /\ Field(p_child(p)) = "p_sib"
  BY Fields
<1>2. Head(s[p_child(p)]) \in ToSet(s[p_child(p)])
  BY <1>1, ListRead
<1>3. Head(s[p_child(p)]).at = "p_sib" /\ Head(s[p_child(p)]) \in list_head
  BY <1>1, <1>2, ListIs
<1>4. PICK c \in Pcb : Head(s[p_child(p)]) = p_sib(c)
  BY <1>3, Fields
<1> QED
  BY <1>2, <1>4

\* What becomes of the lists.
LEMMA CreatedAre ==
  ASSUME NEW h, NEW s, NEW par, Core(h, s, par), s[pcbFree_h] # <<>>,
         NEW prnt \in Pcb, ~Free(s, prnt), NEW p, p = First(h, pcbFree_h)
  PROVE  /\ Stands(insertChild(insertProcQ(allocPcb(h), readyQueue, p), prnt, p), Created(s, prnt))
         /\ p \in Pcb /\ Free(s, p) /\ p_list(p) = Head(s[pcbFree_h]) /\ p = Head(s[pcbFree_h]).of
         /\ Tail(s[pcbFree_h]) = Without(s[pcbFree_h], {p_list(p)})
<1> DEFINE t == Readied(s)
           g == insertProcQ(allocPcb(h), readyQueue, p)
           u == [t EXCEPT ![p_child(prnt)] = Append(@, p_sib(p))]
<1>1. /\ Stands(h, s) /\ Tree(s, par) /\ IsFiniteSet(list_head)
      /\ \A x, c \in Pcb : par[c] = x => ~Free(s, x) /\ ~Free(s, c)
      /\ pcbFree_h = head_of("pcbFree_h") /\ "pcbFree_h" \in ProcQ
      /\ par \in [Pcb -> Pcb \cup {NULL}] /\ NULL \notin Pcb
  BY QueueHeads, Tables DEF Core
<1>2. p \in Pcb /\ p_list(p) \in ToSet(s[pcbFree_h])
  BY <1>1, QueueRemoved
<1>3. Free(s, p) /\ prnt # p
  BY <1>2 DEF Free
<1>4. \A x \in Pcb, c \in Pcb : (x = p \/ c = p) => p_sib(c) \notin ToSet(s[p_child(x)])
  BY <1>1, <1>3 DEF Tree
<1>5. ~Linked(s, p_sib(p)) /\ s[p_child(p)] = <<>>
  BY <1>1, <1>2, <1>4, Childless, Parentless
<1>6. /\ Stands(g, t) /\ p_list(p) = Head(s[pcbFree_h]) /\ p = Head(s[pcbFree_h]).of
      /\ Tail(s[pcbFree_h]) = Without(s[pcbFree_h], {p_list(p)})
      /\ ~Linked(t, p_sib(p))
  BY <1>1, <1>5, ReadiedAre
<1> HIDE DEF t, g
<1>7. Stands(insertChild(g, prnt, p), u)
  BY <1>2, <1>6, ChildInserted
<1>8. /\ DOMAIN t = Heads /\ p_child(prnt) \in Heads /\ p_child(prnt) # msg_inbox(p)
      /\ p_child(prnt) # readyQueue /\ p_child(prnt) # pcbFree_h
  BY <1>2, <1>6, QueueHeads DEF Stands, Holds
<1>9. ASSUME NEW l \in Heads
      PROVE  u[l] = CASE l = pcbFree_h     -> Tail(s[l])
                      [] l = msg_inbox(p)  -> <<>>
                      [] l = readyQueue    -> Append(s[l], p_list(p))
                      [] l = p_child(prnt) -> Append(s[l], p_sib(p))
                      [] OTHER             -> s[l]
  <2>1. u[l] = IF l = p_child(prnt) THEN Append(t[l], p_sib(p)) ELSE t[l]
    BY <1>8
  <2>2. t[l] = CASE l = pcbFree_h    -> Tail(s[l])
                 [] l = msg_inbox(p) -> <<>>
                 [] l = readyQueue   -> Append(s[l], p_list(p))
                 [] OTHER            -> s[l]
    BY <1>6 DEF t, Readied
  <2>3. CASE l = p_child(prnt)
    BY <1>8, <2>1, <2>2, <2>3
  <2>4. CASE l # p_child(prnt)
    BY <2>1, <2>2, <2>4
  <2> QED
    BY <2>3, <2>4
<1>10. u = Created(s, prnt)
  <2>1. u = [l \in Heads |-> u[l]]
    BY <1>8
  <2>2. Created(s, prnt) = [l \in Heads |->
                              CASE l = pcbFree_h     -> Tail(s[l])
                                [] l = msg_inbox(p)  -> <<>>
                                [] l = readyQueue    -> Append(s[l], p_list(p))
                                [] l = p_child(prnt) -> Append(s[l], p_sib(p))
                                [] OTHER             -> s[l]]
    BY <1>6 DEF Created
  <2> HIDE DEF u
  <2> QED
    BY <1>9, <2>1, <2>2
<1> QED
  BY <1>2, <1>3, <1>6, <1>7, <1>10 DEF g

\* The service.
LEMMA CreateSafe ==
  ASSUME NEW s, Safe(heap, s, p_parent, current_process), NEW prnt \in Pcb, createProcess(prnt)
  PROVE  LET p == Head(s[pcbFree_h]).of
         IN  /\ Safe(heap', Created(s, prnt), p_parent', current_process')
             /\ s[pcbFree_h] # <<>> /\ p \in Pcb /\ p_list(p) = Head(s[pcbFree_h])
             /\ Tail(s[pcbFree_h]) = Without(s[pcbFree_h], {p_list(p)})
             /\ p_parent' = Adopted(p_parent, p, prnt)
             /\ UNCHANGED <<m_sender, blockedOnDevice, current_process>>
<1> DEFINE p == First(heap, pcbFree_h)
           t == Created(s, prnt)
           h == insertChild(insertProcQ(allocPcb(heap), readyQueue, p), prnt, p)
<1>1. /\ Core(heap, s, p_parent) /\ Stands(heap, s) /\ DOMAIN s = Heads /\ IsFiniteSet(list_head)
      /\ pcbFree_h \in Heads /\ pcbFree_h = head_of("pcbFree_h") /\ NULL \notin Pcb
      /\ Tree(s, p_parent) /\ Acyclic(p_parent) /\ p_parent \in [Pcb -> Pcb \cup {NULL}]
      /\ p_parent[ssi_pcb] = NULL /\ ~Free(s, ssi_pcb) /\ ssi_pcb \in Pcb
      /\ \A x, c \in Pcb : p_parent[c] = x => ~Free(s, x) /\ ~Free(s, c)
  BY QueueHeads, Tables DEF Safe, Core, Stands, Holds
<1>2. /\ current_process = ssi_pcb /\ prnt # ssi_pcb /\ ~IsFree(prnt) /\ ~list_empty(heap, pcbFree_h)
      /\ heap' = h /\ p_parent' = Adopted(p_parent, p, prnt)
      /\ UNCHANGED <<m_sender, blockedOnDevice, current_process>>
  BY DEF createProcess, Returns, Adopted
<1>3. ~Free(s, prnt) /\ s[pcbFree_h] # <<>>
  BY <1>1, <1>2, ListRead DEF Free, IsFree, Queued
<1>4. /\ Stands(h, t) /\ p \in Pcb /\ Free(s, p) /\ p_list(p) = Head(s[pcbFree_h])
      /\ Tail(s[pcbFree_h]) = Without(s[pcbFree_h], {p_list(p)})
  BY <1>1, <1>3, CreatedAre
<1>5. Head(s[pcbFree_h]).of = p
  BY <1>1, <1>3, CreatedAre
<1>6. /\ ToSet(t[pcbFree_h]) = ToSet(s[pcbFree_h]) \ {p_list(p)}
      /\ ToSet(t[p_child(prnt)]) = ToSet(s[p_child(prnt)]) \cup {p_sib(p)}
      /\ ToSet(t[readyQueue]) = ToSet(s[readyQueue]) \cup {p_list(p)}
      /\ \A l \in Heads : l \notin {pcbFree_h, msg_inbox(p), p_child(prnt), readyQueue} => t[l] = s[l]
  <2> DEFINE c == p_child(prnt)
             i == msg_inbox(p)
  <2> HIDE DEF p
  <2>1. /\ readyQueue \in Heads /\ c \in Heads /\ i \in Heads
        /\ c # pcbFree_h /\ c # i /\ c # readyQueue
        /\ readyQueue # pcbFree_h /\ readyQueue # i /\ i # pcbFree_h
    BY <1>1, <1>4, QueueHeads
  <2>2. /\ t[pcbFree_h] = Tail(s[pcbFree_h]) /\ t[c] = Append(s[c], p_sib(p))
        /\ t[readyQueue] = Append(s[readyQueue], p_list(p))
        /\ \A l \in Heads : l \notin {pcbFree_h, i, c, readyQueue} => t[l] = s[l]
    BY <1>1, <1>5, <2>1 DEF Created
  <2>3. /\ s[pcbFree_h] \in Seq(list_head \ Heads) /\ s[c] \in Seq(list_head \ Heads)
        /\ s[readyQueue] \in Seq(list_head \ Heads)
        /\ p_sib(p) \in list_head \ Heads /\ p_list(p) \in list_head \ Heads
    BY <1>1, <1>4, <2>1, ListIs, Fields
  <2> HIDE DEF t, c, i
  <2>4. ToSet(Append(s[c], p_sib(p))) = ToSet(s[c]) \cup {p_sib(p)}
    BY <2>3, AppendAdds
  <2>5. ToSet(Append(s[readyQueue], p_list(p))) = ToSet(s[readyQueue]) \cup {p_list(p)}
    BY <2>3, AppendAdds
  <2>6. ToSet(Without(s[pcbFree_h], {p_list(p)})) = ToSet(s[pcbFree_h]) \ {p_list(p)}
    BY <2>3, WithoutKeepsOthers
  <2> QED
    BY <1>4, <2>2, <2>4, <2>5, <2>6 DEF c, i
<1> HIDE DEF p, t, h
<1>7. \A x \in Pcb : Free(t, x) <=> Free(s, x) /\ x # p
  <2>1. \A x \in Pcb : p_list(x) = p_list(p) <=> x = p
    BY DEF p_list
  <2> QED
    BY <1>6, <2>1 DEF Free
<1>8. prnt # p /\ ssi_pcb # p
  BY <1>1, <1>3, <1>4
<1>9. \A c \in Pcb : /\ c # p => p_parent'[c] = p_parent[c]
                     /\ p_parent'[p] = prnt /\ p_parent[c] # p /\ p_parent[p] # c
  BY <1>1, <1>2, <1>4 DEF Adopted
<1>10. Tree(t, p_parent')
  <2> SUFFICES ASSUME NEW x \in Pcb, NEW c \in Pcb
               PROVE  p_sib(c) \in ToSet(t[p_child(x)]) <=> p_parent'[c] = x
    BY DEF Tree
  <2>1. p_sib(c) \in ToSet(s[p_child(x)]) <=> p_parent[c] = x
    BY <1>1 DEF Tree
  <2>2. p_sib(c) = p_sib(p) <=> c = p
    BY DEF p_sib
  <2>3. CASE x = prnt
    BY <1>6, <1>8, <1>9, <2>1, <2>2, <2>3
  <2>4. CASE x # prnt
    <3>1. p_child(x) # p_child(prnt)
      BY <2>4 DEF p_child
    <3>2. p_child(x) \in Heads /\ p_child(x) \notin {pcbFree_h, msg_inbox(p), p_child(prnt), readyQueue}
      <4>1. /\ p_child(x) \in Heads /\ p_child(x) # head_of("pcbFree_h")
            /\ p_child(x) # head_of("readyQueue") /\ p_child(x) # msg_inbox(p)
        BY <1>4, QueueHeads
      <4> QED
        BY <3>1, <4>1, QueueHeads
    <3>3. t[p_child(x)] = s[p_child(x)]
      BY <1>6, <3>2
    <3> QED
      BY <1>9, <2>1, <2>4, <3>3
  <2> QED
    BY <2>3, <2>4
<1>11. p_parent' \in [Pcb -> Pcb \cup {NULL}]
  BY <1>1, <1>2, <1>4 DEF Adopted
<1>12. \A x, c \in Pcb : p_parent'[c] = x => ~Free(t, x) /\ ~Free(t, c)
  BY <1>1, <1>3, <1>7, <1>9
<1>13. Acyclic(p_parent')
  BY <1>1, <1>2, <1>4, <1>8, <1>9, AdoptedAcyclic
<1>14. p_parent'[ssi_pcb] = NULL /\ ~Free(t, ssi_pcb)
  BY <1>1, <1>7, <1>8, <1>9
<1>15. Queueless(t, ssi_pcb)
  <2>1. Queueless(s, ssi_pcb)
    BY <1>1, <1>2 DEF Safe
  <2>2. p_list(ssi_pcb) # p_list(p)
    BY <1>8 DEF p_list
  <2> SUFFICES ASSUME NEW q \in ProcQ, p_list(ssi_pcb) \in ToSet(t[head_of(q)])
               PROVE  FALSE
    BY DEF Queueless
  <2>3. /\ head_of(q) \in Heads /\ head_of(q) # msg_inbox(p) /\ head_of(q) # p_child(prnt)
        /\ p_list(ssi_pcb) \notin ToSet(s[head_of(q)])
    BY <1>4, <2>1, QueueHeads DEF Queueless
  <2> QED
    BY <1>6, <2>2, <2>3
<1>16. Core(heap', t, p_parent')
  BY <1>2, <1>4, <1>10, <1>11, <1>12, <1>13, <1>14 DEF Core
<1>17. Safe(heap', t, p_parent', current_process')
  BY <1>1, <1>2, <1>15, <1>16 DEF Safe
<1> QED
  BY <1>2, <1>3, <1>4, <1>5, <1>17 DEF t

-----------------------------------------------------------------------------
(* TERMPROCESS.                                                            *)

\* The set D has p and the children of its members, by p_parent.
Descended(D, par, p) == p \in D /\ \A c \in Pcb : par[c] \in D => c \in D

\* ... and D is the least such set.
Lineage(D, par, p) ==
  /\ D \subseteq Pcb /\ Descended(D, par, p)
  /\ \A K \in SUBSET Pcb : Descended(K, par, p) => D \subseteq K

\* It is reached by going down as many times as there are PCBs.
LEMMA LineageReached ==
  ASSUME NEW par, NEW p \in Pcb, NEW d, d[0] = {p},
         \A n \in Nat : d[n] \subseteq Pcb => d[n + 1] = d[n] \cup {c \in Pcb : par[c] \in d[n]}
  PROVE  Lineage(d[Cardinality(Pcb)], par, p)
<1> DEFINE R == {e \in Pcb \X Pcb : par[e[2]] = e[1]}
           D == d[Cardinality(Pcb)]
           N == {n \in Nat : d[n] \in SUBSET Pcb}
<1>1. \A x, c \in Pcb : <<x, c>> \in R <=> par[c] = x
  <2> TAKE x, c \in Pcb
  <2>1. <<x, c>> \in Pcb \X Pcb /\ <<x, c>>[1] = x /\ <<x, c>>[2] = c
    OBVIOUS
  <2> QED
    BY <2>1
<1> HIDE DEF R
<1>2. Nat \subseteq N
  <2>1. 0 \in N
    OBVIOUS
  <2>2. \A n \in Nat : n \in N => n + 1 \in N
    OBVIOUS
  <2> HIDE DEF N
  <2> QED
    BY <2>1, <2>2, NatInductive
<1>3. \A n \in Nat : d[n] \in SUBSET Pcb /\ d[n + 1] = d[n] \cup {c \in Pcb : par[c] \in d[n]}
  BY <1>2
<1>4. \A U \in SUBSET Pcb : {c \in Pcb : par[c] \in U} = {c \in Pcb : \E x \in U : <<x, c>> \in R}
  <2> TAKE U \in SUBSET Pcb
  <2>1. \A c \in Pcb : par[c] \in U <=> \E x \in U : <<x, c>> \in R
    BY <1>1
  <2> QED
    BY <2>1
<1>5. Levels(d, Pcb, p, R)
  <2>1. ASSUME NEW n \in Nat PROVE d[n + 1] = d[n] \cup {c \in Pcb : \E x \in d[n] : <<x, c>> \in R}
    <3> DEFINE U == d[n]
    <3>1. U \in SUBSET Pcb /\ d[n + 1] = U \cup {c \in Pcb : par[c] \in U}
      BY <1>3
    <3> HIDE DEF U
    <3>2. d[n + 1] = U \cup {c \in Pcb : \E x \in U : <<x, c>> \in R}
      BY <1>4, <3>1
    <3> QED
      BY <3>2 DEF U
  <2> QED
    BY <2>1 DEF Levels
<1>6. /\ p \in D /\ D \subseteq Pcb /\ Closed(D, Pcb, R)
      /\ \A K : p \in K /\ Closed(K, Pcb, R) => D \subseteq K
  BY <1>5, LevelsClose, Tables
<1>7. \A K \in SUBSET Pcb : Closed(K, Pcb, R) <=> \A c \in Pcb : par[c] \in K => c \in K
  <2> TAKE K \in SUBSET Pcb
  <2> QED
    BY <1>1, ZenonT(60) DEF Closed
<1> HIDE DEF D
<1>8. Lineage(D, par, p)
  BY <1>6, <1>7 DEF Descended, Lineage
<1> QED
  BY <1>8 DEF D

\* What is below a PCB in the lists is the least such set.
LEMMA BelowIs ==
  ASSUME NEW s, NEW par, Core(heap, s, par), NEW p \in Pcb
  PROVE  Lineage(Below(p), par, p)
<1> DEFINE More(U) == {c \in Pcb : \E x \in U : OnList(heap, p_sib(c), p_child(x))}
           S == SUBSET Pcb
           F == [U \in S |-> U \cup More(U)]
           G == [n \in Nat |-> F]
           body(g) == [n \in Nat |-> IF n = 0 THEN {p} ELSE g[n - 1] \cup More(g[n - 1])]
           d == CHOOSE g : g = body(g)
<1>1. Stands(heap, s) /\ Tree(s, par) /\ IsFiniteSet(list_head) /\ IsFiniteSet(Pcb) /\ NULL \notin Pcb
      /\ par \in [Pcb -> Pcb \cup {NULL}]
  BY Tables DEF Core
<1>2. \A x, c \in Pcb : OnList(heap, p_sib(c), p_child(x)) <=> par[c] = x
  <2> TAKE x, c \in Pcb
  <2>1. OnList(heap, p_sib(c), p_child(x)) <=> p_sib(c) \in ToSet(s[p_child(x)])
    BY <1>1, ListRead, Fields
  <2>2. p_sib(c) \in ToSet(s[p_child(x)]) <=> par[c] = x
    BY <1>1 DEF Tree
  <2> QED
    BY <2>1, <2>2
<1>3. {p} \in S /\ \A U \in S : F[U] = U \cup More(U) /\ F[U] \in S
  OBVIOUS
<1>4. G \in [Nat -> [S -> S]]
  BY <1>3
<1> HIDE DEF S, F, More
<1>5. PICK f : Iterates(f, S, {p}, G)
  <2> HIDE DEF G
  <2> QED
    BY <1>3, <1>4, RecursionExists
<1>6. f \in [Nat -> S] /\ f[0] = {p} /\ \A n \in Nat : f[n + 1] = f[n] \cup More(f[n])
  BY <1>3, <1>5 DEF Iterates
<1>7. f = body(f)
  <2>1. \A n \in Nat : f[n] = IF n = 0 THEN {p} ELSE f[n - 1] \cup More(f[n - 1])
    <3> TAKE n \in Nat
    <3>1. CASE n = 0
      BY <1>6, <3>1
    <3>2. CASE n # 0
      <4> DEFINE m == n - 1
      <4>1. m \in Nat /\ m + 1 = n
        BY <3>2
      <4> HIDE DEF m
      <4>2. f[n] = f[m] \cup More(f[m])
        BY <1>6, <4>1
      <4> QED
        BY <3>2, <4>2 DEF m
    <3> QED
      BY <3>1, <3>2
  <2> QED
    BY <1>6, <2>1
<1>8. d = body(d)
  <2> HIDE DEF body
  <2> QED
    BY <1>7
<1>9. Below(p) = d[Cardinality(Pcb)]
  BY DEF Below, More
<1> HIDE DEF d
<1>10. /\ d[0] = {p}
       /\ \A n \in Nat : d[n + 1] = d[n] \cup More(d[n])
  <2>1. \A n \in Nat : d[n] = IF n = 0 THEN {p} ELSE d[n - 1] \cup More(d[n - 1])
    <3> TAKE n \in Nat
    <3>1. d[n] = body(d)[n]
      BY <1>8
    <3> QED
      BY <3>1
  <2>2. ASSUME NEW n \in Nat PROVE d[n + 1] = d[n] \cup More(d[n])
    <3>1. n + 1 \in Nat /\ n + 1 # 0 /\ (n + 1) - 1 = n
      OBVIOUS
    <3> QED
      BY <2>1, <3>1
  <2> QED
    BY <2>1, <2>2
<1>11. \A n \in Nat : d[n] \subseteq Pcb => d[n + 1] = d[n] \cup {c \in Pcb : par[c] \in d[n]}
  <2>1. \A U \in SUBSET Pcb : More(U) = {c \in Pcb : par[c] \in U}
    <3> TAKE U \in SUBSET Pcb
    <3>1. \A x \in U, c \in Pcb : OnList(heap, p_sib(c), p_child(x)) <=> par[c] = x
      BY <1>2
    <3> QED
      BY <3>1 DEF More
  <2> QED
    BY <1>10, <2>1
<1> QED
  BY <1>1, <1>9, <1>10, <1>11, LineageReached

\* Those of F have no parent any more.
Orphaned(par, F) == [x \in Pcb |-> IF x \in F THEN NULL ELSE par[x]]

\* What is in the lists then.
LEMMA KillSets ==
  ASSUME NEW h, NEW s, Stands(h, s), NEW freed \in Seq(Pcb), NEW gone, gone = ToSet(freed),
         NEW t, t = KillLists(s, freed, gone)
  PROVE  /\ ToSet(t[pcbFree_h]) = ToSet(s[pcbFree_h]) \cup PList(gone)
         /\ ToSet(t[pseudoClockQueue]) = ToSet(s[pseudoClockQueue]) \ PList(gone)
         /\ \A l \in Heads : l.at # "p_child" /\ l \notin {pcbFree_h, pseudoClockQueue} => t[l] = s[l]
         /\ \A x \in Pcb : ToSet(t[p_child(x)]) = ToSet(s[p_child(x)]) \ PSib(gone)
<1>1. \A y : y \in ToSet(t[pcbFree_h]) <=> y \in ToSet(s[pcbFree_h]) \/ y \in PList(ToSet(freed))
  BY KillListsAre, SMTT(30)
<1>3. ToSet(t[pseudoClockQueue]) = ToSet(s[pseudoClockQueue]) \ PList(ToSet(freed))
  <2>1. t[pseudoClockQueue] = Without(s[pseudoClockQueue], PList(ToSet(freed)))
    BY KillListsAre
  <2>2. s[pseudoClockQueue] \in Seq(list_head \ Heads)
    BY ListIs, Fields DEF pseudoClockQueue, ProcQ
  <2> QED
    BY <2>1, <2>2, WithoutKeepsOthers
<1>4. \A l \in Heads : l.at # "p_child" /\ l \notin {pcbFree_h, pseudoClockQueue} => t[l] = s[l]
  BY KillListsAre
<1>2. \A x \in Pcb : ToSet(t[p_child(x)]) = ToSet(s[p_child(x)]) \ PSib(gone)
  BY KillChildrenAre
<1> QED
  BY <1>1, <1>2, <1>3, <1>4

\* The lists and the tree without p and its descendants.
LEMMA KilledSafely ==
  ASSUME NEW h, NEW s, NEW par, Core(h, s, par), NEW p \in Pcb, p # ssi_pcb, ~Free(s, p),
         NEW D, Lineage(D, par, p),
         ToSet(s[readyQueue]) \cap PList(D) = {}, ToSet(s[blockedDiskQueue]) \cap PList(D) = {}
  PROVE  LET k == Terminated(h, par, p)
         IN  /\ k.freed \in Seq(Pcb) /\ IsInjective(k.freed) /\ ToSet(k.freed) = D
             /\ Core(k.heap, KillLists(s, k.freed, D), Orphaned(par, D))
             /\ k.parent = Orphaned(par, D)
             /\ \A x \in Pcb \ D : Queueless(s, x) => Queueless(KillLists(s, k.freed, D), x)
             /\ ssi_pcb \notin D /\ Doomed(s, par, p, D)
<1> DEFINE k == Terminated(h, par, p)
           F == ToSet(k.freed)
           t == KillLists(s, k.freed, F)
           u == Orphaned(par, F)
<1>1. /\ Stands(h, s) /\ Tree(s, par) /\ Acyclic(par) /\ par \in [Pcb -> Pcb \cup {NULL}]
      /\ IsFiniteSet(Pcb) /\ IsFiniteSet(list_head) /\ NULL \notin Pcb /\ ssi_pcb \in Pcb
      /\ par[ssi_pcb] = NULL /\ ~Free(s, ssi_pcb)
      /\ \A x, c \in Pcb : par[c] = x => ~Free(s, x) /\ ~Free(s, c)
  BY Tables DEF Core
<1>0. /\ D \subseteq Pcb /\ Descended(D, par, p)
      /\ \A K \in SUBSET Pcb : Descended(K, par, p) => D \subseteq K
      /\ \A x \in D : /\ p_list(x) \notin ToSet(s[readyQueue])
                       /\ p_list(x) \notin ToSet(s[blockedDiskQueue])
  BY DEF Lineage, PList
<1>2. \A x \in D : ~Free(s, x)
  <2> DEFINE K == {x \in Pcb : ~Free(s, x)}
  <2>1. Descended(K, par, p)
    BY <1>0, <1>1 DEF Descended
  <2> QED
    BY <1>0, <2>1
<1>3. ssi_pcb \notin D
  <2> DEFINE K == Pcb \ {ssi_pcb}
  <2>1. Descended(K, par, p)
    BY <1>0, <1>1 DEF Descended
  <2> QED
    BY <1>0, <2>1
<1>4. Doomed(s, par, p, D)
  BY <1>0, <1>2, QueueHeads DEF Doomed, Descended, Free
<1>5. Killing(k, s, par, p, D) /\ k.stack = <<>>
  BY <1>1, <1>4, TerminatedAre
<1> HIDE DEF k
<1>6. /\ k.parent \in [Pcb -> Pcb \cup {NULL}] /\ k.freed \in Seq(Pcb) /\ IsInjective(k.freed)
      /\ Stands(k.heap, KillLists(s, k.freed, Gone(k, p)))
      /\ \A x \in Pcb : k.parent[x] = IF x \in F THEN NULL ELSE par[x]
      /\ F \subseteq D /\ p \in F /\ \A c \in Pcb : par[c] \in F => c \in F
  BY <1>5 DEF Killing
<1>7. Gone(k, p) = F
  BY <1>5 DEF Gone, ToSet
<1>8. F = D
  BY <1>0, <1>6 DEF Descended
<1>9. k.parent = u
  <2>1. k.parent = [x \in Pcb |-> k.parent[x]]
    BY <1>6
  <2> QED
    BY <1>6, <2>1 DEF Orphaned
<1>10. Stands(k.heap, t)
  BY <1>6, <1>7
<1> DEFINE f == k.freed
           g == k.heap
<1>11. f \in Seq(Pcb) /\ F = ToSet(f) /\ t = KillLists(s, f, F) /\ Stands(g, t) /\ Stands(h, s)
  BY <1>1, <1>6, <1>10
<1>12. /\ ToSet(t[pcbFree_h]) = ToSet(s[pcbFree_h]) \cup PList(F)
       /\ ToSet(t[pseudoClockQueue]) = ToSet(s[pseudoClockQueue]) \ PList(F)
       /\ \A l \in Heads : l.at # "p_child" /\ l \notin {pcbFree_h, pseudoClockQueue} => t[l] = s[l]
       /\ \A x \in Pcb : ToSet(t[p_child(x)]) = ToSet(s[p_child(x)]) \ PSib(F)
  BY <1>11, KillSets
<1>14. \A x \in Pcb : (p_list(x) \in PList(F) <=> x \in F) /\ (p_sib(x) \in PSib(F) <=> x \in F)
  <2> HIDE DEF F
  <2> QED
    BY DEF PList, PSib, p_list, p_sib
<1> HIDE DEF t
<1>15. \A x \in Pcb : Free(t, x) <=> Free(s, x) \/ x \in F
  BY <1>12, <1>14 DEF Free
<1> HIDE DEF F, f, g
<1>16. u \in [Pcb -> Pcb \cup {NULL}] /\ \A x \in Pcb : u[x] = IF x \in F THEN NULL ELSE par[x]
  BY <1>1 DEF Orphaned
<1> HIDE DEF u
<1>17. Tree(t, u)
  <2> SUFFICES ASSUME NEW x \in Pcb, NEW c \in Pcb
               PROVE  p_sib(c) \in ToSet(t[p_child(x)]) <=> u[c] = x
    BY DEF Tree
  <2>1. p_sib(c) \in ToSet(s[p_child(x)]) <=> par[c] = x
    BY <1>1 DEF Tree
  <2>2. p_sib(c) \in ToSet(t[p_child(x)]) <=> par[c] = x /\ c \notin F
    BY <1>12, <1>14, <2>1
  <2> QED
    BY <1>1, <1>16, <2>2
<1>18. \A x, c \in Pcb : u[c] = x => ~Free(t, x) /\ ~Free(t, c)
  BY <1>1, <1>6, <1>15, <1>16
<1>19. Acyclic(u)
  <2> SUFFICES ASSUME NEW S \in SUBSET Pcb, S # {}
               PROVE  \E x \in S : u[x] \notin S
    BY DEF Acyclic
  <2>1. CASE S \cap F # {}
    BY <1>1, <1>16, <2>1
  <2>2. CASE S \cap F = {}
    <3>1. PICK x \in S : par[x] \notin S
      BY <1>1 DEF Acyclic
    <3> QED
      BY <1>16, <2>2, <3>1
  <2> QED
    BY <2>1, <2>2
<1>20. u[ssi_pcb] = NULL /\ ~Free(t, ssi_pcb)
  BY <1>1, <1>3, <1>8, <1>15, <1>16
<1>21. Core(g, t, u)
  BY <1>11, <1>16, <1>17, <1>18, <1>19, <1>20 DEF Core
<1>22. \A x \in Pcb \ F : Queueless(s, x) => Queueless(t, x)
  <2> SUFFICES ASSUME NEW x \in Pcb \ F, Queueless(s, x), NEW q \in ProcQ
               PROVE  p_list(x) \notin ToSet(t[head_of(q)])
    BY DEF Queueless
  <2>1. p_list(x) \notin ToSet(s[head_of(q)])
    BY DEF Queueless
  <2>2. CASE head_of(q) = pcbFree_h
    BY <1>12, <1>14, <2>1, <2>2 DEF F, f
  <2>3. CASE head_of(q) = pseudoClockQueue
    BY <1>12, <2>1, <2>3
  <2>4. CASE head_of(q) \notin {pcbFree_h, pseudoClockQueue}
    <3>1. head_of(q) \in Heads /\ head_of(q).at # "p_child"
      BY QueueHeads DEF head_of
    <3> QED
      BY <1>12, <2>1, <2>4, <3>1
  <2> QED
    BY <2>2, <2>3, <2>4
<1>23. t = KillLists(s, k.freed, D) /\ u = Orphaned(par, D) /\ ToSet(k.freed) = D
  BY <1>8 DEF t, u, F
<1> QED
  BY <1>3, <1>4, <1>6, <1>8, <1>9, <1>21, <1>22, <1>23 DEF g, k

\* The service.
LEMMA TerminateSafe ==
  ASSUME NEW s, Safe(heap, s, p_parent, current_process), NEW p \in Pcb, terminateProcess(p)
  PROVE  \E freed \in Seq(Pcb) :
           LET D == ToSet(freed)
               t == KillLists(s, freed, D)
           IN  /\ IsInjective(freed) /\ Lineage(D, p_parent, p) /\ Doomed(s, p_parent, p, D)
               /\ \E h : Stands(h, t)
               /\ Safe(heap', IF p = current_process THEN Scheduled(t) ELSE t, p_parent', current_process')
               /\ current_process' = IF p = current_process THEN NextOne(t) ELSE current_process
               /\ p_parent' = Orphaned(p_parent, D)
               /\ UNCHANGED <<m_sender, blockedOnDevice>>
<1> DEFINE k == Killed(p)
           D == Below(p)
           f == k.freed
           g == k.heap
           t == KillLists(s, f, D)
           u == Orphaned(p_parent, D)
<1>1. /\ Core(heap, s, p_parent) /\ Stands(heap, s) /\ IsFiniteSet(list_head) /\ NULL \notin Pcb
      /\ current_process \in Pcb \cup {NULL}
      /\ current_process # NULL => Queueless(s, current_process)
      /\ pcbFree_h = head_of("pcbFree_h") /\ "pcbFree_h" \in ProcQ
      /\ {pcbFree_h, readyQueue, blockedDiskQueue} \subseteq Heads /\ ssi_pcb \in Pcb
  BY QueueHeads, Tables DEF Safe, Core
<1>2. /\ \/ current_process = ssi_pcb /\ p # ssi_pcb /\ ~IsFree(p)
         \/ current_process = p /\ p # ssi_pcb
      /\ \A x \in D : ~Queued(x, readyQueue) /\ ~Queued(x, blockedDiskQueue)
      /\ p_parent' = k.parent /\ UNCHANGED <<m_sender, blockedOnDevice>>
      /\ p = current_process => Schedules(g)
      /\ p # current_process => Returns(g)
  BY DEF terminateProcess
<1>3. p # ssi_pcb /\ ~Free(s, p)
  <2>1. CASE current_process = ssi_pcb /\ p # ssi_pcb /\ ~IsFree(p)
    BY <1>1, <2>1, ListRead DEF IsFree, Queued, Free
  <2>2. CASE current_process = p /\ p # ssi_pcb
    BY <1>1, <2>2 DEF Queueless, Free
  <2> QED
    BY <1>2, <2>1, <2>2
<1>4. Lineage(D, p_parent, p)
  BY <1>1, BelowIs
<1>5. ToSet(s[readyQueue]) \cap PList(D) = {} /\ ToSet(s[blockedDiskQueue]) \cap PList(D) = {}
  <2> HIDE DEF D
  <2>1. \A x \in D : /\ p_list(x) \notin ToSet(s[readyQueue])
                     /\ p_list(x) \notin ToSet(s[blockedDiskQueue])
    BY <1>1, <1>2, ListRead DEF Queued
  <2> QED
    BY <2>1 DEF PList
<1>6. k = Terminated(heap, p_parent, p)
  BY DEF Killed
<1> HIDE DEF D, k
<1>7. LET j == Terminated(heap, p_parent, p)
      IN  /\ j.freed \in Seq(Pcb) /\ IsInjective(j.freed) /\ ToSet(j.freed) = D
          /\ Core(j.heap, KillLists(s, j.freed, D), Orphaned(p_parent, D))
          /\ j.parent = Orphaned(p_parent, D)
          /\ \A x \in Pcb \ D : Queueless(s, x) => Queueless(KillLists(s, j.freed, D), x)
          /\ ssi_pcb \notin D /\ Doomed(s, p_parent, p, D)
  BY <1>1, <1>3, <1>4, <1>5, KilledSafely
<1>8. /\ f \in Seq(Pcb) /\ IsInjective(f) /\ ToSet(f) = D /\ Core(g, t, u) /\ p_parent' = u
      /\ \A x \in Pcb \ D : Queueless(s, x) => Queueless(t, x)
      /\ ssi_pcb \notin D /\ Doomed(s, p_parent, p, D) /\ \E h : Stands(h, t)
  <2>1. /\ f \in Seq(Pcb) /\ IsInjective(f) /\ ToSet(f) = D /\ Core(g, t, u) /\ p_parent' = u
        /\ \A x \in Pcb \ D : Queueless(s, x) => Queueless(t, x)
        /\ ssi_pcb \notin D /\ Doomed(s, p_parent, p, D)
    BY <1>2, <1>6, <1>7
  <2>2. \E h : Stands(h, t)
    BY <2>1 DEF Core
  <2> HIDE DEF f, g, t, u
  <2> QED
    BY <2>1, <2>2
<1> HIDE DEF f, g, t, u
<1>9. CASE p = current_process
  <2>1. Safe(heap', Scheduled(t), u, current_process') /\ current_process' = NextOne(t)
    BY <1>2, <1>8, <1>9, SchedulesSafely
  <2> QED
    BY <1>2, <1>4, <1>8, <1>9, <2>1 DEF t, u
<1>10. CASE p # current_process
  <2>1. heap' = g /\ current_process' = current_process /\ current_process = ssi_pcb
    BY <1>2, <1>10 DEF Returns
  <2>2. Queueless(t, current_process)
    BY <1>1, <1>8, <2>1
  <2>3. Safe(heap', t, u, current_process')
    BY <1>1, <1>8, <2>1, <2>2 DEF Safe
  <2> QED
    BY <1>2, <1>4, <1>8, <1>10, <2>1, <2>3 DEF t, u
<1> QED
  BY <1>9, <1>10

-----------------------------------------------------------------------------
(* Each handler does what AbstractLists says.                              *)

\* scheduler().
LEMMA SchedulesMatches ==
  ASSUME NEW h, NEW s, Stands(h, s), NEW t, t = Scheduled(s), Stands(heap', t),
         current_process' = NextOne(s)
  PROVE  /\ Sequences!Schedules(QueuesOf(s))
         /\ Children' = ChildrenOf(s) /\ Inboxes' = InboxesOf(s) /\ FreeMsgs' = PoolOf(s)
<1>1. Queues' = QueuesOf(t) /\ Children' = ChildrenOf(t) /\ Inboxes' = InboxesOf(t) /\ FreeMsgs' = PoolOf(t)
  BY SeenNext
<1> DEFINE qs == QueuesOf(s)
<1>2. /\ qs["readyQueue"] = <<>> => QueuesOf(t) = qs /\ NextOne(s) = NULL
      /\ qs["readyQueue"] # <<>> => /\ QueuesOf(t) = [qs EXCEPT !["readyQueue"] = Tail(@)]
                                    /\ NextOne(s) = Head(qs["readyQueue"])
      /\ ChildrenOf(t) = ChildrenOf(s) /\ InboxesOf(t) = InboxesOf(s) /\ PoolOf(t) = PoolOf(s)
  BY ScheduledShown
<1> HIDE DEF qs
<1> QED
  BY <1>1, <1>2 DEF Sequences!Schedules, qs

\* The idle CPU.
LEMMA DispatchMatches ==
  ASSUME NEW s, Safe(heap, s, p_parent, current_process), current_process = NULL, Schedules(heap),
         UNCHANGED <<p_parent, m_sender, blockedOnDevice>>
  PROVE  Sequences!Dispatch
<1>1. Stands(heap, s) /\ Stands(heap', Scheduled(s)) /\ current_process' = NextOne(s)
  BY DispatchSafe DEF Safe, Core
<1>2. /\ Sequences!Schedules(QueuesOf(s))
      /\ Children' = ChildrenOf(s) /\ Inboxes' = InboxesOf(s) /\ FreeMsgs' = PoolOf(s)
  BY <1>1, SchedulesMatches
<1>3. Queues = QueuesOf(s) /\ Children = ChildrenOf(s) /\ Inboxes = InboxesOf(s) /\ FreeMsgs = PoolOf(s)
  BY <1>1, SeenNow
<1> QED
  BY <1>2, <1>3 DEF Sequences!Dispatch

\* Append is adding a sequence of one.
LEMMA AddedIs ==
  ASSUME NEW qs, NEW q \in DOMAIN qs, NEW S, qs[q] \in Seq(S), NEW e \in S
  PROVE  Sequences!Added(qs, q, <<e>>) = [qs EXCEPT ![q] = Append(@, e)]
<1>1. Append(qs[q], e) = qs[q] \o <<e>>
  BY AppendIsConcat
<1> QED
  BY <1>1 DEF Sequences!Added

\* Who is free, ready or waiting.
LEMMA PlacesShown ==
  ASSUME NEW s, Stands(heap, s)
  PROVE  /\ \A p : p \in Sequences!Free <=> Free(s, p)
         /\ \A p : p \in Sequences!Range(Queues["readyQueue"]) <=> p_list(p) \in ToSet(s[readyQueue])
         /\ \A q \in ProcQ : Queues[q] \in Seq(Pcb)
         /\ DOMAIN Queues = ProcQ
         /\ \A p, q : q \in ProcQ => (p \in Range(Queues[q]) <=> p_list(p) \in ToSet(s[head_of(q)]))
<1>1. Queues = QueuesOf(s)
  BY SeenNow
<1>2. /\ "pcbFree_h" \in ProcQ /\ "readyQueue" \in ProcQ
      /\ pcbFree_h = head_of("pcbFree_h") /\ readyQueue = head_of("readyQueue")
  BY QueueHeads
<1>3. \A q \in ProcQ : \A p : p \in Range(Queues[q]) <=> p_list(p) \in ToSet(s[head_of(q)])
  BY <1>1, QueueShown
<1>4. \A q \in ProcQ : Queues[q] \in Seq(Pcb)
  BY <1>1, QueueShown
<1>5. DOMAIN Queues = ProcQ
  BY DEF Queues
<1>6. \A q : Sequences!Range(q) = Range(q)
  BY SameOperators
<1>7. \A p : p \in Sequences!Free <=> Free(s, p)
  BY <1>2, <1>3, <1>6 DEF Sequences!Free, Free
<1> QED
  BY <1>2, <1>3, <1>4, <1>5, <1>6, <1>7

\* PLTHandler().
LEMMA PreemptMatches ==
  ASSUME NEW s, Safe(heap, s, p_parent, current_process), PLTHandler
  PROVE  Sequences!Preempt
<1> DEFINE cur == current_process
           h == insertProcQ(heap, readyQueue, cur)
           t == Enqueued(s, "readyQueue", cur)
           u == Scheduled(t)
<1>1. /\ cur \notin {NULL, ssi_pcb} /\ UNCHANGED <<p_parent, m_sender, blockedOnDevice>>
      /\ cur \in Pcb /\ Queueless(s, cur) /\ Core(heap, s, p_parent)
  BY DEF PLTHandler, Safe
<1>2. Stands(heap, s) /\ "readyQueue" \in ProcQ /\ readyQueue = head_of("readyQueue")
  BY <1>1, QueueHeads DEF Core
<1>3. Stands(h, t)
  <2>1. Core(insertProcQ(heap, head_of("readyQueue"), cur), t, p_parent)
    BY <1>1, <1>2, EnqueuesSafely
  <2> QED
    BY <1>2, <2>1 DEF Core
<1>4. Stands(heap', u) /\ current_process' = NextOne(t)
  BY PLTHandlerSafe DEF Safe, Core
<1>5. /\ QueuesOf(t) = [QueuesOf(s) EXCEPT !["readyQueue"] = Append(@, cur)]
      /\ ChildrenOf(t) = ChildrenOf(s) /\ InboxesOf(t) = InboxesOf(s) /\ PoolOf(t) = PoolOf(s)
  BY <1>1, <1>2, EnqueuedShown
<1> HIDE DEF t, h, cur
<1>6. /\ Sequences!Schedules(QueuesOf(t))
      /\ Children' = ChildrenOf(t) /\ Inboxes' = InboxesOf(t) /\ FreeMsgs' = PoolOf(t)
  BY <1>3, <1>4, SchedulesMatches
<1>7. Queues = QueuesOf(s) /\ Children = ChildrenOf(s) /\ Inboxes = InboxesOf(s) /\ FreeMsgs = PoolOf(s)
  BY <1>2, SeenNow
<1>8. Sequences!Readied(Queues, <<cur>>) = [Queues EXCEPT !["readyQueue"] = Append(@, cur)]
  <2>1. Queues["readyQueue"] \in Seq(Pcb) /\ "readyQueue" \in DOMAIN Queues
    BY <1>2, PlacesShown
  <2> QED
    BY <1>1, <2>1, AddedIs DEF Sequences!Readied
<1>9. Sequences!ssi_pcb = ssi_pcb
  BY SameOperators
<1> QED
  BY <1>1, <1>5, <1>6, <1>7, <1>8, <1>9 DEF Sequences!Preempt, cur

\* send().
LEMMA SendMatches ==
  ASSUME NEW s, Safe(heap, s, p_parent, current_process), NEW p \in Pcb, send(p)
  PROVE  Sequences!Send(p)
<1> DEFINE cur == current_process
           t == Sent(s, p, cur)
           m == Head(s[msgFree_h]).of
<1>1. /\ Stands(heap, s) /\ Stands(heap', t) /\ cur \in Pcb /\ cur # NULL /\ current_process' = cur
      /\ s[msgFree_h] # <<>> /\ m_sender' = Signed(m_sender, s, cur)
      /\ UNCHANGED <<p_parent, blockedOnDevice>>
  <2>1. UNCHANGED <<p_parent, blockedOnDevice>>
    BY DEF send
  <2> QED
    BY <2>1, SendSafe, Tables DEF Safe, Core
<1>2. /\ Queues = QueuesOf(s) /\ Children = ChildrenOf(s) /\ Inboxes = InboxesOf(s) /\ FreeMsgs = PoolOf(s)
      /\ Queues' = QueuesOf(t) /\ Children' = ChildrenOf(t) /\ Inboxes' = InboxesOf(t)
      /\ FreeMsgs' = PoolOf(t)
  BY <1>1, SeenNow, SeenNext
<1>3. /\ (p \in Sequences!Free <=> Free(s, p))
      /\ (p \in Sequences!Range(Queues["readyQueue"]) <=> p_list(p) \in ToSet(s[readyQueue]))
      /\ "readyQueue" \in DOMAIN Queues /\ Queues["readyQueue"] \in Seq(Pcb)
  BY <1>1, PlacesShown, QueueHeads
<1>4. FreeMsgs # <<>> /\ Head(FreeMsgs) = m
  BY <1>1, <1>2, TakenShown
<1>5. m_sender' = [m_sender EXCEPT ![Head(FreeMsgs)] = cur]
  BY <1>1, <1>4 DEF Signed
<1> DEFINE kept == p \in Sequences!Free \cup Sequences!Range(Queues["readyQueue"]) \cup {cur}
<1>6. /\ FreeMsgs' = Tail(FreeMsgs) /\ Children' = Children
      /\ Inboxes' = IF p \in Sequences!Free THEN Inboxes ELSE [Inboxes EXCEPT ![p] = Append(@, Head(FreeMsgs))]
      /\ Queues' = IF kept THEN Queues ELSE Sequences!Readied(Queues, <<p>>)
  <2> DEFINE d == Delivered(s, p)
  <2>1. /\ QueuesOf(d) = Queues /\ ChildrenOf(d) = Children /\ PoolOf(d) = Tail(FreeMsgs)
        /\ InboxesOf(d) = [Inboxes EXCEPT ![p] = Append(@, Head(FreeMsgs))]
    BY <1>1, <1>2, DeliveredShown
  <2>2. CASE Free(s, p)
    <3>1. t = Taken(s)
      BY <2>2 DEF Sent
    <3>2. /\ QueuesOf(Taken(s)) = QueuesOf(s) /\ ChildrenOf(Taken(s)) = ChildrenOf(s)
          /\ InboxesOf(Taken(s)) = InboxesOf(s) /\ PoolOf(Taken(s)) = Tail(PoolOf(s))
      BY <1>1, TakenShown
    <3> HIDE DEF t
    <3> QED
      BY <1>2, <1>3, <2>2, <3>1, <3>2
  <2>3. CASE ~Free(s, p) /\ (p = cur \/ p_list(p) \in ToSet(s[readyQueue]))
    <3>1. t = d
      BY <2>3 DEF Sent
    <3> HIDE DEF t, d
    <3> QED
      BY <1>2, <1>3, <2>1, <2>3, <3>1
  <2>4. CASE ~Free(s, p) /\ p # cur /\ p_list(p) \notin ToSet(s[readyQueue])
    <3>1. t = Enqueued(d, "readyQueue", p)
      BY <2>4 DEF Sent
    <3>2. \E h : Stands(h, d)
      <4>1. Core(heap, s, p_parent)
        BY DEF Safe
      <4>2. Core(Deliver([heap |-> heap, sender |-> m_sender], cur, p).heap, d, p_parent)
        BY <1>1, <4>1, DeliversSafely
      <4> QED
        BY <4>2 DEF Core
    <3> HIDE DEF t, d
    <3>3. /\ QueuesOf(t) = [QueuesOf(d) EXCEPT !["readyQueue"] = Append(@, p)]
          /\ ChildrenOf(t) = ChildrenOf(d) /\ InboxesOf(t) = InboxesOf(d) /\ PoolOf(t) = PoolOf(d)
      BY <3>1, <3>2, EnqueuedShown, QueueHeads
    <3>4. Sequences!Readied(Queues, <<p>>) = [Queues EXCEPT !["readyQueue"] = Append(@, p)]
      BY <1>3, AddedIs DEF Sequences!Readied
    <3>5. ~kept
      BY <1>3, <2>4
    <3> HIDE DEF kept
    <3> QED
      BY <1>2, <1>3, <2>1, <2>4, <3>3, <3>4, <3>5
  <2> QED
    BY <2>2, <2>3, <2>4
<1> QED
  BY <1>1, <1>4, <1>5, <1>6 DEF Sequences!Send, Sequences!Returns

\* A queue without a PCB that is not in it.
LEMMA NotInQueue ==
  ASSUME NEW s, Stands(heap, s), NEW q \in ProcQ, NEW K, \A p \in K : p_list(p) \notin ToSet(s[head_of(q)])
  PROVE  Sequences!Without(Queues[q], K) = Queues[q]
<1>1. Queues[q] \in Seq(Pcb) /\ \A p : p \in Range(Queues[q]) <=> p_list(p) \in ToSet(s[head_of(q)])
  BY PlacesShown
<1>2. \A p \in K : p \notin ToSet(Queues[q])
  BY <1>1 DEF ToSet, Range
<1>3. Without(Queues[q], K) = Queues[q]
  BY <1>1, <1>2, WithoutNone
<1> QED
  BY <1>3, SameOperators

\* wait4Clock().
LEMMA WaitForClockMatches ==
  ASSUME NEW s, Safe(heap, s, p_parent, current_process), NEW p \in Pcb, wait4Clock(p)
  PROVE  Sequences!WaitForClock(p)
<1> DEFINE t == Enqueued(s, "pseudoClockQueue", p)
<1>1. /\ Stands(heap, s) /\ Stands(heap', t) /\ Queueless(s, p) /\ current_process' = current_process
      /\ UNCHANGED <<p_parent, m_sender, blockedOnDevice>>
  <2>1. UNCHANGED <<p_parent, m_sender, blockedOnDevice>>
    BY DEF wait4Clock
  <2> QED
    BY <2>1, Wait4ClockSafe DEF Safe, Core
<1>2. "pseudoClockQueue" \in ProcQ
  BY DEF ProcQ
<1>3. /\ QueuesOf(t) = [QueuesOf(s) EXCEPT !["pseudoClockQueue"] = Append(@, p)]
      /\ ChildrenOf(t) = ChildrenOf(s) /\ InboxesOf(t) = InboxesOf(s) /\ PoolOf(t) = PoolOf(s)
  BY <1>1, <1>2, EnqueuedShown
<1> HIDE DEF t
<1>4. /\ Queues = QueuesOf(s) /\ Children = ChildrenOf(s) /\ Inboxes = InboxesOf(s) /\ FreeMsgs = PoolOf(s)
      /\ Queues' = QueuesOf(t) /\ Children' = ChildrenOf(t) /\ Inboxes' = InboxesOf(t)
      /\ FreeMsgs' = PoolOf(t) /\ DOMAIN Queues = ProcQ
  BY <1>1, SeenNow, SeenNext, PlacesShown
<1>5. \A q \in ProcQ : Sequences!Without(Queues[q], {p}) = Queues[q]
  BY <1>1, NotInQueue DEF Queueless
<1>6. \A q \in DOMAIN Queues \ {"pseudoClockQueue"} : Queues'[q] = Sequences!Without(Queues[q], {p})
  BY <1>3, <1>4, <1>5
<1>7. Queues'["pseudoClockQueue"] = Append(Queues["pseudoClockQueue"], p)
  BY <1>2, <1>3, <1>4
<1> QED
  BY <1>1, <1>3, <1>4, <1>6, <1>7 DEF Sequences!WaitForClock, Sequences!WaitsIn

\* doio().
LEMMA WaitForDeviceMatches ==
  ASSUME NEW s, Safe(heap, s, p_parent, current_process), NEW p \in Pcb, NEW d, doio(p, d)
  PROVE  Sequences!WaitForDevice(p, d)
<1> DEFINE u == Dequeued(s, "readyQueue", p)
           t == Enqueued(u, "blockedDiskQueue", p)
<1>1. /\ Stands(heap, s) /\ Stands(heap', t) /\ Core(heap, s, p_parent)
      /\ Queueless(s, p) \/ p_list(p) \in ToSet(s[readyQueue])
      /\ current_process' = current_process
      /\ UNCHANGED <<p_parent, m_sender>> /\ blockedOnDevice' = [blockedOnDevice EXCEPT ![p] = d]
  <2>1. UNCHANGED <<p_parent, m_sender>> /\ blockedOnDevice' = [blockedOnDevice EXCEPT ![p] = d]
    BY DEF doio
  <2> QED
    BY <2>1, DoioSafe DEF Safe, Core
<1>2. /\ "readyQueue" \in ProcQ /\ "blockedDiskQueue" \in ProcQ /\ readyQueue = head_of("readyQueue")
      /\ "readyQueue" # "pcbFree_h"
  BY QueueHeads
<1>3. \E h : Stands(h, u)
  BY <1>1, <1>2, DequeuesSafely DEF Core
<1>4. /\ QueuesOf(u) = [QueuesOf(s) EXCEPT !["readyQueue"] = Without(@, {p})]
      /\ ChildrenOf(u) = ChildrenOf(s) /\ InboxesOf(u) = InboxesOf(s) /\ PoolOf(u) = PoolOf(s)
  BY <1>1, <1>2, DequeuedShown
<1> HIDE DEF u
<1>5. /\ QueuesOf(t) = [QueuesOf(u) EXCEPT !["blockedDiskQueue"] = Append(@, p)]
      /\ ChildrenOf(t) = ChildrenOf(u) /\ InboxesOf(t) = InboxesOf(u) /\ PoolOf(t) = PoolOf(u)
  BY <1>2, <1>3, EnqueuedShown
<1> HIDE DEF t
<1>6. /\ Queues = QueuesOf(s) /\ Children = ChildrenOf(s) /\ Inboxes = InboxesOf(s) /\ FreeMsgs = PoolOf(s)
      /\ Queues' = QueuesOf(t) /\ Children' = ChildrenOf(t) /\ Inboxes' = InboxesOf(t)
      /\ FreeMsgs' = PoolOf(t) /\ DOMAIN Queues = ProcQ
  BY <1>1, SeenNow, SeenNext, PlacesShown
<1>7. ASSUME NEW q \in ProcQ, q # "readyQueue"
      PROVE  Sequences!Without(Queues[q], {p}) = Queues[q]
  <2>1. p_list(p) \notin ToSet(s[head_of(q)])
    <3>1. CASE Queueless(s, p)
      BY <3>1 DEF Queueless
    <3>2. CASE p_list(p) \in ToSet(s[readyQueue])
      <4>1. head_of(q) # readyQueue /\ head_of(q) \in Heads /\ readyQueue \in Heads
        BY <1>7, QueueHeads DEF head_of, readyQueue
      <4> QED
        BY <1>1, <3>2, <4>1, OneList
    <3> QED
      BY <1>1, <3>1, <3>2
  <2> QED
    BY <1>1, <2>1, NotInQueue
<1>8. \A q, K : Sequences!Without(q, K) = Without(q, K)
  BY SameOperators
<1>9. \A q \in DOMAIN Queues \ {"blockedDiskQueue"} : Queues'[q] = Sequences!Without(Queues[q], {p})
  <2>1. Queues'["readyQueue"] = Sequences!Without(Queues["readyQueue"], {p})
    BY <1>2, <1>4, <1>5, <1>6, <1>8
  <2>2. \A q \in ProcQ : q # "blockedDiskQueue" /\ q # "readyQueue" => Queues'[q] = Queues[q]
    BY <1>4, <1>5, <1>6
  <2> QED
    BY <1>6, <1>7, <2>1, <2>2
<1>10. Queues'["blockedDiskQueue"] = Append(Queues["blockedDiskQueue"], p)
  BY <1>2, <1>4, <1>5, <1>6
<1> QED
  BY <1>1, <1>4, <1>5, <1>6, <1>9, <1>10 DEF Sequences!WaitForDevice, Sequences!WaitsIn

\* createProcess().
LEMMA CreateMatches ==
  ASSUME NEW s, Safe(heap, s, p_parent, current_process), NEW prnt \in Pcb, createProcess(prnt)
  PROVE  Sequences!Create(prnt)
<1> DEFINE p == Head(s[pcbFree_h]).of
           t == Created(s, prnt)
           F == s[pcbFree_h]
<1>1. /\ Stands(heap, s) /\ Stands(heap', t) /\ F # <<>> /\ p \in Pcb /\ p_list(p) = Head(F)
      /\ Tail(F) = Without(F, {p_list(p)})
      /\ p_parent' = [p_parent EXCEPT ![p] = prnt]
      /\ UNCHANGED <<m_sender, blockedOnDevice, current_process>>
  BY CreateSafe DEF Safe, Core, Adopted
<1>2. /\ pcbFree_h \in Heads /\ pcbFree_h = head_of("pcbFree_h") /\ "pcbFree_h" \in ProcQ
      /\ readyQueue = head_of("readyQueue") /\ "readyQueue" \in ProcQ /\ F \in Seq(list_head)
      /\ DOMAIN s = Heads
  BY <1>1, QueueHeads, ListShown
<1>3. \A l \in Heads :
        t[l] = IF l = pcbFree_h THEN Tail(s[l]) ELSE IF l = msg_inbox(p) THEN <<>>
               ELSE IF l = readyQueue THEN Append(s[l], p_list(p))
               ELSE IF l = p_child(prnt) THEN Append(s[l], p_sib(p)) ELSE s[l]
  <2> DEFINE a == msg_inbox(p)
             b == p_child(prnt)
             c == readyQueue
             e == pcbFree_h
  <2>1. t = [l \in Heads |-> CASE l = e -> Tail(s[l]) [] l = a -> <<>> [] l = c -> Append(s[l], p_list(p))
                              [] l = b -> Append(s[l], p_sib(p)) [] OTHER -> s[l]]
    BY DEF Created
  <2>3. a # b /\ a # c /\ a # e /\ b # c /\ b # e /\ c # e
    BY <1>1, <1>2, QueueHeads
  <2> HIDE DEF a, b, c, e, t, p
  <2>2. \A l \in Heads :
          t[l] = IF l = e THEN Tail(s[l]) ELSE IF l = a THEN <<>>
                 ELSE IF l = c THEN Append(s[l], p_list(p)) ELSE IF l = b THEN Append(s[l], p_sib(p)) ELSE s[l]
    BY <2>1, <2>3
  <2> QED
    BY <2>2 DEF a, b, c, e
<1> HIDE DEF t
<1>4. /\ Queues = QueuesOf(s) /\ Children = ChildrenOf(s) /\ Inboxes = InboxesOf(s) /\ FreeMsgs = PoolOf(s)
      /\ Queues' = QueuesOf(t) /\ Children' = ChildrenOf(t) /\ Inboxes' = InboxesOf(t)
      /\ FreeMsgs' = PoolOf(t) /\ DOMAIN Queues = ProcQ
  BY <1>1, SeenNow, SeenNext, PlacesShown
<1>5. /\ Owners(Tail(F)) = Tail(Owners(F)) /\ Head(Owners(F)) = p /\ Owners(F) # <<>>
  BY <1>1, <1>2, OwnersTaken
<1>6. Queues["pcbFree_h"] = Owners(F) /\ Queues["pcbFree_h"] \in Seq(Pcb)
  BY <1>1, <1>2, <1>4, PlacesShown DEF QueuesOf
<1>7. p_list(p) \in ToSet(F)
  BY <1>1, <1>2, HeadTaken
<1> HIDE DEF p
<1>8. /\ Head(Queues["pcbFree_h"]) = p
      /\ Sequences!Free # {}
  <2>1. Free(s, p)
    BY <1>7 DEF Free
  <2>2. p \in Sequences!Free
    BY <1>1, <2>1, PlacesShown
  <2> QED
    BY <1>5, <1>6, <2>2
<1>9. FreeMsgs' = FreeMsgs
  <2>1. t[msgFree_h] = s[msgFree_h]
    <3>1. msgFree_h \in Heads /\ msgFree_h # pcbFree_h /\ msgFree_h # msg_inbox(p)
          /\ msgFree_h # readyQueue /\ msgFree_h # p_child(prnt)
      BY <1>1, <1>2, QueueHeads
    <3> QED
      BY <1>3, <3>1
  <2> QED
    BY <1>4, <2>1 DEF PoolOf
<1>10. Inboxes' = [Inboxes EXCEPT ![p] = <<>>]
  <2>1. ASSUME NEW x \in Pcb
        PROVE  Owners(t[msg_inbox(x)]) = [InboxesOf(s) EXCEPT ![p] = <<>>][x]
    <3>1. /\ msg_inbox(x) \in Heads /\ msg_inbox(x) # pcbFree_h /\ msg_inbox(x) # readyQueue
          /\ msg_inbox(x) # p_child(prnt)
      BY <1>2, QueueHeads
    <3>2. CASE x = p
      <4>1. t[msg_inbox(x)] = <<>>
        BY <1>3, <3>1, <3>2
      <4>2. Owners(<<>>) = <<>>
        BY DEF Owners
      <4> QED
        BY <3>2, <4>1, <4>2 DEF InboxesOf
    <3>3. CASE x # p
      <4>1. msg_inbox(x) # msg_inbox(p)
        BY <3>3 DEF msg_inbox
      <4>2. t[msg_inbox(x)] = s[msg_inbox(x)]
        BY <1>3, <3>1, <4>1
      <4> QED
        BY <3>3, <4>2 DEF InboxesOf
    <3> QED
      BY <3>2, <3>3
  <2>2. InboxesOf(t) = [InboxesOf(s) EXCEPT ![p] = <<>>]
    BY <2>1 DEF InboxesOf
  <2> QED
    BY <1>4, <2>2
<1>11. Children' = [Children EXCEPT ![prnt] = Append(@, p)]
  <2>1. ASSUME NEW x \in Pcb
        PROVE  Owners(t[p_child(x)]) = [ChildrenOf(s) EXCEPT ![prnt] = Append(@, p)][x]
    <3>1. /\ p_child(x) \in Heads /\ p_child(x) # pcbFree_h /\ p_child(x) # readyQueue
          /\ p_child(x) # msg_inbox(p)
      BY <1>1, <1>2, QueueHeads
    <3>2. CASE x = prnt
      <4>1. t[p_child(x)] = Append(s[p_child(x)], p_sib(p))
        BY <1>3, <3>1, <3>2
      <4>2. s[p_child(x)] \in Seq(list_head) /\ p_sib(p) \in list_head /\ p_sib(p).of = p
        BY <1>1, <3>1, ListShown, Fields DEF p_sib
      <4>3. Owners(t[p_child(x)]) = Append(Owners(s[p_child(x)]), p)
        BY <4>1, <4>2, OwnersAppended
      <4> QED
        BY <3>2, <4>3 DEF ChildrenOf
    <3>3. CASE x # prnt
      <4>1. p_child(x) # p_child(prnt)
        BY <3>3 DEF p_child
      <4>2. t[p_child(x)] = s[p_child(x)]
        BY <1>3, <3>1, <4>1
      <4> QED
        BY <3>3, <4>2 DEF ChildrenOf
    <3> QED
      BY <3>2, <3>3
  <2>2. ChildrenOf(t) = [ChildrenOf(s) EXCEPT ![prnt] = Append(@, p)]
    BY <2>1 DEF ChildrenOf
  <2> QED
    BY <1>4, <2>2
<1> DEFINE w == Sequences!Unqueued(Queues, {p})
<1>12. w = [Queues EXCEPT !["pcbFree_h"] = Tail(@)]
  <2>1. w = [q \in ProcQ |-> Sequences!Without(Queues[q], {p})]
    BY <1>4 DEF Sequences!Unqueued
  <2>2. Sequences!Without(Queues["pcbFree_h"], {p}) = Tail(Queues["pcbFree_h"])
    <3>1. \A i \in DOMAIN F : F[i] \in {p_list(p)} <=> F[i].of \in {p}
      <4> TAKE i \in DOMAIN F
      <4>1. Field(pcbFree_h) = "p_list"
        BY <1>2, Fields
      <4>2. \A j \in DOMAIN F : F[j] = [at |-> Field(pcbFree_h), of |-> Owners(F)[j]]
        <5>1. \A l \in Heads : \A j \in DOMAIN s[l] : s[l][j] = [at |-> Field(l), of |-> Owners(s[l])[j]]
          BY <1>1, ListShown
        <5> QED
          BY <1>2, <5>1
      <4>5. F[i] = [at |-> "p_list", of |-> Owners(F)[i]]
        BY <4>1, <4>2
      <4> DEFINE y == Owners(F)[i]
      <4> HIDE DEF y, F
      <4>3. F[i] = [at |-> "p_list", of |-> y]
        BY <4>5 DEF y
      <4> QED
        BY <4>3 DEF p_list
    <3>2. Owners(Without(F, {p_list(p)})) = Without(Owners(F), {p})
      BY <1>2, <3>1, OwnersWithout
    <3> QED
      BY <1>1, <1>5, <1>6, <3>2, SameOperators
  <2>3. ASSUME NEW q \in ProcQ, q # "pcbFree_h"
        PROVE  Sequences!Without(Queues[q], {p}) = Queues[q]
    <3>1. head_of(q) # pcbFree_h /\ head_of(q) \in Heads
      BY <1>2, <2>3, QueueHeads DEF head_of
    <3>2. p_list(p) \notin ToSet(s[head_of(q)])
      BY <1>1, <1>2, <1>7, <3>1, OneList
    <3> QED
      BY <1>1, <3>2, NotInQueue
  <2> HIDE DEF w
  <2> QED
    BY <1>4, <2>1, <2>2, <2>3
<1>13. Queues' = Sequences!Readied(w, <<p>>)
  <2>1. "readyQueue" \in DOMAIN w /\ w["readyQueue"] = Queues["readyQueue"] /\ Queues["readyQueue"] \in Seq(Pcb)
    BY <1>1, <1>2, <1>4, <1>12, PlacesShown
  <2>2. Sequences!Readied(w, <<p>>) = [w EXCEPT !["readyQueue"] = Append(@, p)]
    <3> HIDE DEF w
    <3>1. Sequences!Added(w, "readyQueue", <<p>>) = [w EXCEPT !["readyQueue"] = Append(@, p)]
      BY <1>1, <2>1, AddedIs
    <3> QED
      BY <3>1 DEF Sequences!Readied
  <2>3. ASSUME NEW q \in ProcQ
        PROVE  Owners(t[head_of(q)]) = IF q = "pcbFree_h" THEN Tail(Queues[q])
                                       ELSE IF q = "readyQueue" THEN Append(Queues[q], p) ELSE Queues[q]
    <3>1. /\ head_of(q) \in Heads /\ head_of(q) # msg_inbox(p) /\ head_of(q) # p_child(prnt)
          /\ Queues[q] = Owners(s[head_of(q)]) /\ s[head_of(q)] \in Seq(list_head)
          /\ (head_of(q) = pcbFree_h <=> q = "pcbFree_h")
          /\ (head_of(q) = readyQueue <=> q = "readyQueue")
      <4>1. /\ head_of(q) \in Heads /\ head_of(q) # msg_inbox(p) /\ head_of(q) # p_child(prnt)
        BY <1>1, QueueHeads
      <4>2. Queues[q] = Owners(s[head_of(q)]) /\ s[head_of(q)] \in Seq(list_head)
        BY <1>1, <1>4, QueueShown
      <4>3. /\ (head_of(q) = pcbFree_h <=> q = "pcbFree_h")
            /\ (head_of(q) = readyQueue <=> q = "readyQueue")
        BY DEF head_of, pcbFree_h, readyQueue
      <4> QED
        BY <4>1, <4>2, <4>3
    <3>2. CASE q = "pcbFree_h"
      BY <1>2, <1>3, <1>5, <1>6, <3>1, <3>2
    <3>3. CASE q = "readyQueue"
      <4>1. t[head_of(q)] = Append(s[head_of(q)], p_list(p))
        BY <1>3, <3>1, <3>3
      <4>2. p_list(p) \in list_head /\ p_list(p).of = p
        BY <1>1, Fields DEF p_list
      <4> QED
        BY <3>1, <3>3, <4>1, <4>2, OwnersAppended
    <3>4. CASE q # "pcbFree_h" /\ q # "readyQueue"
      BY <1>3, <3>1, <3>4
    <3> QED
      BY <3>2, <3>3, <3>4
  <2>4. Queues' = [q \in ProcQ |-> Owners(t[head_of(q)])]
    BY <1>4 DEF QueuesOf
  <2>5. \A q \in ProcQ : w[q] = IF q = "pcbFree_h" THEN Tail(Queues[q]) ELSE Queues[q]
    BY <1>4, <1>12
  <2>6. DOMAIN w = ProcQ
    BY <1>4, <1>12
  <2> HIDE DEF w
  <2>7. \A q \in ProcQ : Owners(t[head_of(q)]) = [w EXCEPT !["readyQueue"] = Append(@, p)][q]
    BY <2>3, <2>5, <2>6
  <2> QED
    BY <2>2, <2>4, <2>6, <2>7
<1> QED
  BY <1>1, <1>8, <1>9, <1>10, <1>11, <1>13 DEF Sequences!Create, Sequences!Returns

\* recv() that finds no message.
LEMMA BlockMatches ==
  ASSUME NEW s, Stands(heap, s), NEW t, t = Scheduled(s), Stands(heap', t),
         current_process' = NextOne(s), current_process # NULL,
         UNCHANGED <<p_parent, m_sender, blockedOnDevice>>
  PROVE  Sequences!Block
<1>1. /\ Sequences!Schedules(QueuesOf(s))
      /\ Children' = ChildrenOf(s) /\ Inboxes' = InboxesOf(s) /\ FreeMsgs' = PoolOf(s)
  BY SchedulesMatches
<1>2. Queues = QueuesOf(s) /\ Children = ChildrenOf(s) /\ Inboxes = InboxesOf(s) /\ FreeMsgs = PoolOf(s)
  BY SeenNow
<1> QED
  BY <1>1, <1>2 DEF Sequences!Block

\* recv() that takes the i-th message.
LEMMA ReceivedShown ==
  ASSUME NEW h, NEW s, Stands(h, s), NEW c \in Pcb, NEW i \in DOMAIN s[msg_inbox(c)],
         NEW m \in Msg, m_list(m) = s[msg_inbox(c)][i], NEW t, t = Received(s, c, m)
  PROVE  /\ i \in DOMAIN InboxesOf(s)[c] /\ InboxesOf(s)[c][i] = m
         /\ QueuesOf(t) = QueuesOf(s) /\ ChildrenOf(t) = ChildrenOf(s)
         /\ InboxesOf(t) = [InboxesOf(s) EXCEPT ![c] = RemoveAt(@, i)]
         /\ PoolOf(t) = Append(PoolOf(s), m)
<1> DEFINE l == msg_inbox(c)
           own == InboxesOf(s)[c]
           e == m_list(m)
<1>1. /\ DOMAIN s = Heads /\ l \in Heads /\ msgFree_h \in Heads /\ l # msgFree_h /\ Field(l) = "m_list"
      /\ s[msgFree_h] \in Seq(list_head) /\ s[l] \in Seq(list_head) /\ e \in list_head /\ e.of = m
      /\ own = Owners(s[l])
      /\ \A x \in Pcb : /\ p_child(x) \in Heads /\ p_child(x) # l /\ p_child(x) # msgFree_h
                        /\ msg_inbox(x) \in Heads /\ msg_inbox(x) # msgFree_h
                        /\ x # c => msg_inbox(x) # l
      /\ \A q \in ProcQ : head_of(q) \in Heads /\ head_of(q) # l /\ head_of(q) # msgFree_h
  <2>1. DOMAIN s = Heads /\ l \in Heads /\ msgFree_h \in Heads /\ l # msgFree_h /\ Field(l) = "m_list"
    BY QueueHeads, Fields, ListShown
  <2>2. s[msgFree_h] \in Seq(list_head) /\ s[l] \in Seq(list_head)
    BY <2>1, ListShown
  <2>3. e \in list_head /\ e.of = m
    BY Fields DEF m_list
  <2>4. own = Owners(s[l])
    BY DEF InboxesOf
  <2>5. \A x \in Pcb : x # c => msg_inbox(x) # l
    BY DEF msg_inbox
  <2> QED
    BY <2>1, <2>2, <2>3, <2>4, <2>5, QueueHeads
<1>2. \A k \in Heads : t[k] = IF k = msgFree_h THEN Append(s[k], e)
                              ELSE IF k = l THEN Without(s[k], {e}) ELSE s[k]
  BY <1>1 DEF Received
<1> HIDE DEF l, e
<1>3. /\ \A j \in DOMAIN s[l] : /\ s[l][j] = [at |-> "m_list", of |-> own[j]] /\ own[j] = s[l][j].of
      /\ own \in Seq(Msg) /\ IsInjective(own) /\ DOMAIN own = DOMAIN s[l]
  <2> HIDE DEF own
  <2>1. /\ DOMAIN Owners(s[l]) = DOMAIN s[l] /\ IsInjective(Owners(s[l]))
        /\ \A j \in DOMAIN s[l] : Owners(s[l])[j] = s[l][j].of
        /\ \A j \in DOMAIN s[l] : s[l][j] = [at |-> Field(l), of |-> Owners(s[l])[j]]
        /\ Owners(s[l]) \in Seq(IF Field(l) = "m_list" THEN Msg ELSE Pcb)
    <3>1. \A k \in Heads :
            /\ DOMAIN Owners(s[k]) = DOMAIN s[k] /\ IsInjective(Owners(s[k]))
            /\ \A j \in DOMAIN s[k] : Owners(s[k])[j] = s[k][j].of
            /\ \A j \in DOMAIN s[k] : s[k][j] = [at |-> Field(k), of |-> Owners(s[k])[j]]
            /\ Owners(s[k]) \in Seq(IF Field(k) = "m_list" THEN Msg ELSE Pcb)
      BY ListShown
    <3> QED
      BY <1>1, <3>1
  <2> QED
    BY <1>1, <2>1
<1>4. i \in DOMAIN s[l] /\ s[l][i] = e
  BY DEF l, e
<1> HIDE DEF own
<1>5. i \in DOMAIN own /\ own[i] = m
  BY <1>1, <1>3, <1>4
<1>6. Owners(t[l]) = RemoveAt(own, i)
  <2>1. t[l] = Without(s[l], {e})
    BY <1>1, <1>2
  <2>2. \A j \in DOMAIN s[l] : s[l][j] \in {e} <=> s[l][j].of \in {m}
    <3> TAKE j \in DOMAIN s[l]
    <3> DEFINE y == own[j]
    <3>1. s[l][j] = [at |-> "m_list", of |-> y] /\ s[l][j].of = y
      BY <1>3
    <3> HIDE DEF y
    <3> QED
      BY <3>1 DEF m_list, e
  <2>3. Owners(t[l]) = Without(own, {m})
    BY <1>1, <2>1, <2>2, OwnersWithout
  <2>4. RemoveAt(own, i) = Without(own, {m})
    BY <1>3, <1>5, RemoveAtIsWithout
  <2> QED
    BY <2>3, <2>4
<1>7. Owners(t[msgFree_h]) = Append(PoolOf(s), m)
  <2>1. t[msgFree_h] = Append(s[msgFree_h], e)
    BY <1>1, <1>2
  <2> QED
    BY <1>1, <2>1, OwnersAppended DEF PoolOf
<1>8. /\ \A x \in Pcb : t[p_child(x)] = s[p_child(x)] /\ (x # c => t[msg_inbox(x)] = s[msg_inbox(x)])
      /\ \A q \in ProcQ : t[head_of(q)] = s[head_of(q)]
  BY <1>1, <1>2
<1>9. ASSUME NEW x \in Pcb
      PROVE  Owners(t[msg_inbox(x)]) = [InboxesOf(s) EXCEPT ![c] = RemoveAt(@, i)][x]
  <2>1. CASE x = c
    BY <1>6, <2>1 DEF l, own, InboxesOf
  <2>2. CASE x # c
    BY <1>8, <2>2 DEF InboxesOf
  <2> QED
    BY <2>1, <2>2
<1>10. InboxesOf(t) = [InboxesOf(s) EXCEPT ![c] = RemoveAt(@, i)]
  BY <1>9 DEF InboxesOf
<1> QED
  BY <1>5, <1>7, <1>8, <1>10 DEF own, QueuesOf, ChildrenOf, PoolOf

\* recv().
LEMMA ReceiveMatches ==
  ASSUME NEW s, Safe(heap, s, p_parent, current_process), NEW p, recv(p)
  PROVE  Sequences!Block \/ Sequences!Receive(p)
<1> DEFINE c == current_process
           r == s[msg_inbox(c)]
<1>1. c \in Pcb /\ c # NULL /\ UNCHANGED <<p_parent, m_sender, blockedOnDevice>> /\ Stands(heap, s)
  BY RecvSafe, Tables DEF recv, Safe, Core
<1>2. CASE Safe(heap', Scheduled(s), p_parent, current_process') /\ current_process' = NextOne(s)
  <2>1. Stands(heap', Scheduled(s))
    BY <1>2 DEF Safe, Core
  <2> QED
    BY <1>1, <1>2, <2>1, BlockMatches
<1>3. CASE \E i : LET m == r[i].of
                  IN  /\ Awaited(s, c, p, m_sender, i)
                      /\ m \in Msg /\ m_list(m) = r[i]
                      /\ current_process' = c
                      /\ Safe(heap', Received(s, c, m), p_parent, current_process')
  <2> PICK i : /\ Awaited(s, c, p, m_sender, i) /\ r[i].of \in Msg /\ m_list(r[i].of) = r[i]
               /\ current_process' = c
               /\ Safe(heap', Received(s, c, r[i].of), p_parent, current_process')
    BY <1>3
  <2> DEFINE m == r[i].of
             t == Received(s, c, m)
             own == Inboxes[c]
  <2>1. Stands(heap', t)
    BY DEF Safe, Core
  <2>2. i \in DOMAIN r
    BY DEF Awaited
  <2>3. /\ i \in DOMAIN InboxesOf(s)[c] /\ InboxesOf(s)[c][i] = m
        /\ QueuesOf(t) = QueuesOf(s) /\ ChildrenOf(t) = ChildrenOf(s)
        /\ InboxesOf(t) = [InboxesOf(s) EXCEPT ![c] = RemoveAt(@, i)]
        /\ PoolOf(t) = Append(PoolOf(s), m)
    BY <1>1, <2>2, ReceivedShown
  <2> HIDE DEF t
  <2>4. /\ Queues = QueuesOf(s) /\ Children = ChildrenOf(s) /\ Inboxes = InboxesOf(s) /\ FreeMsgs = PoolOf(s)
        /\ Queues' = QueuesOf(t) /\ Children' = ChildrenOf(t) /\ Inboxes' = InboxesOf(t)
        /\ FreeMsgs' = PoolOf(t)
    BY <1>1, <2>1, SeenNow, SeenNext
  <2>5. own = Owners(r) /\ DOMAIN own = DOMAIN r /\ DOMAIN r = 1..Len(r) /\ Len(r) \in Nat
        /\ \A j \in DOMAIN r : own[j] = r[j].of
    <3>1. msg_inbox(c) \in Heads
      BY <1>1, Fields
    <3> QED
      BY <1>1, <2>4, <3>1, ListShown DEF InboxesOf
  <2>6. /\ i \in DOMAIN own /\ own[i] = m /\ p \in {NULL, m_sender[own[i]]}
        /\ \A j \in 1..(i - 1) : p \notin {NULL, m_sender[own[j]]}
    <3>1. p \in {NULL, m_sender[m]} /\ \A j \in DOMAIN r : j < i => p \notin {NULL, m_sender[r[j].of]}
      BY DEF Awaited
    <3>2. i \in DOMAIN own /\ own[i] = m
      BY <2>3, <2>4
    <3>3. \A j \in 1..(i - 1) : j \in DOMAIN r /\ j < i
      <4> HIDE DEF r
      <4> QED
        BY <2>2, <2>5
    <3> HIDE DEF own, m
    <3> QED
      BY <2>5, <3>1, <3>2, <3>3
  <2>7. \A x, n : Sequences!RemoveAt(x, n) = RemoveAt(x, n)
    BY SameOperators
  <2>8. /\ FreeMsgs' = Append(FreeMsgs, own[i]) /\ UNCHANGED <<Queues, Children>>
        /\ Inboxes' = [Inboxes EXCEPT ![c] = Sequences!RemoveAt(@, i)]
    BY <2>3, <2>4, <2>6, <2>7
  <2> HIDE DEF m, r
  <2>9. Sequences!Receive(p)
    BY <1>1, <2>6, <2>8 DEF Sequences!Receive
  <2> QED
    BY <2>9
<1>4. \/ Safe(heap', Scheduled(s), p_parent, current_process') /\ current_process' = NextOne(s)
      \/ \E i : LET m == r[i].of
                IN  /\ Awaited(s, c, p, m_sender, i)
                    /\ m \in Msg /\ m_list(m) = r[i]
                    /\ current_process' = c
                    /\ Safe(heap', Received(s, c, m), p_parent, current_process')
  BY RecvSafe
<1> QED
  BY <1>2, <1>3, <1>4

\* The descendants by p_parent are the least set too.
LEMMA DescendantsAre ==
  ASSUME NEW p \in Pcb
  PROVE  Lineage(Sequences!Descendants(p), p_parent, p)
<1> DEFINE P == Sequences!Pcb
           More(U) == {c \in P : p_parent[c] \in U}
           S == SUBSET Pcb
           F == [U \in S |-> U \cup More(U)]
           G == [n \in Nat |-> F]
           body(g) == [n \in Nat |-> IF n = 0 THEN {p} ELSE g[n - 1] \cup More(g[n - 1])]
           d == CHOOSE g : g = body(g)
<1>1. P = Pcb
  BY SameOperators
<1>2. Sequences!Descendants(p) = d[Sequences!Cardinality(P)]
  BY DEF Sequences!Descendants
<1> HIDE DEF P
<1>3. {p} \in S /\ \A U \in S : F[U] = U \cup More(U) /\ F[U] \in S
  BY <1>1
<1>4. G \in [Nat -> [S -> S]]
  BY <1>3
<1> HIDE DEF S, F, More
<1>5. PICK f : Iterates(f, S, {p}, G)
  <2> HIDE DEF G
  <2> QED
    BY <1>3, <1>4, RecursionExists
<1>6. f \in [Nat -> S] /\ f[0] = {p} /\ \A n \in Nat : f[n + 1] = f[n] \cup More(f[n])
  BY <1>3, <1>5 DEF Iterates
<1>7. f = body(f)
  <2>1. \A n \in Nat : f[n] = IF n = 0 THEN {p} ELSE f[n - 1] \cup More(f[n - 1])
    <3> TAKE n \in Nat
    <3>1. CASE n = 0
      BY <1>6, <3>1
    <3>2. CASE n # 0
      <4> DEFINE m == n - 1
      <4>1. m \in Nat /\ m + 1 = n
        BY <3>2
      <4> HIDE DEF m
      <4>2. f[n] = f[m] \cup More(f[m])
        BY <1>6, <4>1
      <4> QED
        BY <3>2, <4>2 DEF m
    <3> QED
      BY <3>1, <3>2
  <2> QED
    BY <1>6, <2>1
<1>8. d = body(d)
  <2> HIDE DEF body
  <2> QED
    BY <1>7
<1> HIDE DEF d
<1>9. \A n \in Nat : d[n] = IF n = 0 THEN {p} ELSE d[n - 1] \cup More(d[n - 1])
  <2> TAKE n \in Nat
  <2>1. d[n] = body(d)[n]
    BY <1>8
  <2> QED
    BY <2>1
<1>10. d[0] = {p}
  BY <1>9
<1>11. \A n \in Nat : d[n] \subseteq Pcb => d[n + 1] = d[n] \cup {c \in Pcb : p_parent[c] \in d[n]}
  <2> TAKE n \in Nat
  <2>1. n + 1 \in Nat /\ n + 1 # 0 /\ (n + 1) - 1 = n
    OBVIOUS
  <2>2. d[n + 1] = d[n] \cup More(d[n])
    BY <1>9, <2>1
  <2> QED
    BY <1>1, <2>2 DEF More
<1>12. Lineage(d[Cardinality(Pcb)], p_parent, p)
  BY <1>10, <1>11, LineageReached
<1>13. Sequences!Cardinality(P) = Cardinality(Pcb)
  BY <1>1, SameOperators
<1> QED
  BY <1>2, <1>12, <1>13

\* There is one least set.
LEMMA OneLineage ==
  ASSUME NEW D, NEW E, NEW par, NEW p, Lineage(D, par, p), Lineage(E, par, p)
  PROVE  D = E
  BY DEF Lineage

\* The lists without p and its descendants.
LEMMA KilledShown ==
  ASSUME NEW s, Stands(heap, s), NEW par, Tree(s, par), NEW p, NEW f \in Seq(Pcb), NEW D, D = ToSet(f),
         Doomed(s, par, p, D), NEW t, t = KillLists(s, f, D)
  PROVE  /\ QueuesOf(t) = Sequences!Added(Sequences!Unqueued(Queues, D), "pcbFree_h", f)
         /\ QueuesOf(t)["pcbFree_h"] = Queues["pcbFree_h"] \o f
         /\ ChildrenOf(t) = [x \in Pcb |-> IF x \in D THEN <<>> ELSE Sequences!Without(Children[x], D)]
         /\ InboxesOf(t) = Inboxes /\ PoolOf(t) = FreeMsgs
<1>1. /\ t[pcbFree_h] = s[pcbFree_h] \o PLists(f)
      /\ t[pseudoClockQueue] = Without(s[pseudoClockQueue], PList(D))
      /\ \A l \in Heads : l.at # "p_child" /\ l \notin {pcbFree_h, pseudoClockQueue} => t[l] = s[l]
  BY KillListsAre
<1>2. \A x \in Pcb : t[p_child(x)] = Without(s[p_child(x)], PSib(D))
  BY KillChildrenAre
<1> HIDE DEF KillLists
<1>3. /\ Queues = QueuesOf(s) /\ Children = ChildrenOf(s) /\ Inboxes = InboxesOf(s) /\ FreeMsgs = PoolOf(s)
      /\ DOMAIN Queues = ProcQ
  BY SeenNow, PlacesShown
<1>4. \A x, K : Sequences!Without(x, K) = Without(x, K)
  BY SameOperators
<1>5. /\ D \subseteq Pcb /\ (\A c \in Pcb : par[c] \in D => c \in D)
      /\ \A x \in D : \A q \in ProcQ \ {"pseudoClockQueue"} : p_list(x) \notin ToSet(s[head_of(q)])
  BY DEF Doomed
<1>6. /\ \A x : x \in PList(D) => x.of \in D
      /\ \A x : x \in PSib(D) => x.of \in D
      /\ \A x : [at |-> "p_list", of |-> x] \in PList(D) <=> x \in D
      /\ \A x : [at |-> "p_sib", of |-> x] \in PSib(D) <=> x \in D
  <2>1. \A x : [at |-> "p_list", of |-> x] \in PList(D) <=> x \in D
    BY DEF PList, p_list
  <2>2. \A x : [at |-> "p_sib", of |-> x] \in PSib(D) <=> x \in D
    BY DEF PSib, p_sib
  <2>3. \A x : x \in PList(D) => x.of \in D
    BY DEF PList, p_list
  <2>4. \A x : x \in PSib(D) => x.of \in D
    BY DEF PSib, p_sib
  <2> QED
    BY <2>1, <2>2, <2>3, <2>4
<1>7. InboxesOf(t) = Inboxes /\ PoolOf(t) = FreeMsgs
  <2>1. \A x \in Pcb : /\ msg_inbox(x) \in Heads /\ msg_inbox(x).at # "p_child"
                       /\ msg_inbox(x) \notin {pcbFree_h, pseudoClockQueue}
    BY QueueHeads DEF msg_inbox
  <2>2. msgFree_h \in Heads /\ msgFree_h.at # "p_child" /\ msgFree_h \notin {pcbFree_h, pseudoClockQueue}
    BY QueueHeads DEF msgFree_h, head_of
  <2> QED
    BY <1>1, <1>3, <2>1, <2>2 DEF InboxesOf, PoolOf
<1>8. ASSUME NEW x \in Pcb
      PROVE  Owners(t[p_child(x)]) = IF x \in D THEN <<>> ELSE Sequences!Without(Children[x], D)
  <2> DEFINE r == s[p_child(x)]
  <2>1. p_child(x) \in Heads /\ Field(p_child(x)) = "p_sib"
    BY Fields
  <2>2. /\ r \in Seq(list_head) /\ DOMAIN Owners(r) = DOMAIN r
        /\ \A i \in DOMAIN r : Owners(r)[i] = r[i].of /\ r[i] = [at |-> "p_sib", of |-> Owners(r)[i]]
    <3>1. \A k \in Heads :
            /\ s[k] \in Seq(list_head) /\ DOMAIN Owners(s[k]) = DOMAIN s[k]
            /\ \A j \in DOMAIN s[k] : Owners(s[k])[j] = s[k][j].of
            /\ \A j \in DOMAIN s[k] : s[k][j] = [at |-> Field(k), of |-> Owners(s[k])[j]]
      BY ListShown
    <3> QED
      BY <2>1, <3>1
  <2>3. Children[x] = Owners(r)
    BY <1>3 DEF ChildrenOf
  <2>4. t[p_child(x)] = Without(r, PSib(D))
    BY <1>2
  <2>5. \A c \in Pcb : p_sib(c) \in ToSet(r) <=> par[c] = x
    BY DEF Tree
  <2> HIDE DEF r
  <2>6. \A i \in DOMAIN r : r[i] \in PSib(D) <=> r[i].of \in D
    BY <1>6, <2>2
  <2>7. Owners(t[p_child(x)]) = Without(Owners(r), D)
    BY <2>2, <2>4, <2>6, OwnersWithout
  <2>8. ASSUME x \in D PROVE Owners(t[p_child(x)]) = <<>>
    <3> DEFINE u == t[p_child(x)]
    <3>1. u \in Seq(list_head) /\ ToSet(u) = ToSet(r) \ PSib(D)
      BY <2>2, <2>4, WithoutKeepsOthers
    <3>2. \A y \in ToSet(r) : y \in PSib(D)
      <4> TAKE y \in ToSet(r)
      <4>1. PICK i \in DOMAIN r : r[i] = y
        BY DEF ToSet
      <4>2. y.at = "p_sib" /\ y \in list_head
        <5>1. r[i] = [at |-> "p_sib", of |-> Owners(r)[i]]
          BY <2>2
        <5>2. r[i] \in list_head
          BY <2>2, ElementOfSeq, LenProperties
        <5> DEFINE o == Owners(r)[i]
        <5> HIDE DEF o
        <5> QED
          BY <4>1, <5>1, <5>2 DEF o
      <4>3. y.of \in Pcb /\ y = p_sib(y.of)
        BY <4>2, Fields
      <4>4. par[y.of] = x
        BY <2>5, <4>3
      <4> QED
        BY <1>5, <1>6, <2>8, <4>3, <4>4 DEF p_sib
    <3>3. ToSet(u) = {}
      BY <3>1, <3>2
    <3> HIDE DEF u
    <3>4. u = <<>>
      <4>1. DOMAIN u = 1..Len(u) /\ Len(u) \in Nat
        BY <3>1, LenProperties
      <4>2. DOMAIN u = {}
        BY <3>3 DEF ToSet
      <4>3. Len(u) = 0
        BY <4>1, <4>2
      <4> QED
        BY <3>1, <4>3, EmptySeq
    <3>5. Owners(<<>>) = <<>>
      BY DEF Owners
    <3> QED
      BY <3>4, <3>5 DEF u
  <2> QED
    BY <1>4, <2>3, <2>7, <2>8
<1>9. ChildrenOf(t) = [x \in Pcb |-> IF x \in D THEN <<>> ELSE Sequences!Without(Children[x], D)]
  BY <1>8 DEF ChildrenOf
<1>10. ASSUME NEW q \in ProcQ
       PROVE  Owners(t[head_of(q)]) = IF q = "pcbFree_h" THEN Sequences!Without(Queues[q], D) \o f
                                      ELSE Sequences!Without(Queues[q], D)
  <2> DEFINE r == s[head_of(q)]
  <2>1. /\ head_of(q) \in Heads /\ Field(head_of(q)) = "p_list" /\ head_of(q).at # "p_child"
        /\ pcbFree_h = head_of("pcbFree_h") /\ pseudoClockQueue = head_of("pseudoClockQueue")
        /\ (head_of(q) = pcbFree_h <=> q = "pcbFree_h")
        /\ (head_of(q) = pseudoClockQueue <=> q = "pseudoClockQueue")
    <3>1. head_of(q) \in Heads /\ Field(head_of(q)) = "p_list"
      BY Fields
    <3> QED
      BY <3>1 DEF head_of, pcbFree_h, pseudoClockQueue
  <2>2. /\ r \in Seq(list_head) /\ DOMAIN Owners(r) = DOMAIN r
        /\ \A i \in DOMAIN r : Owners(r)[i] = r[i].of /\ r[i] = [at |-> "p_list", of |-> Owners(r)[i]]
    <3>1. \A k \in Heads :
            /\ s[k] \in Seq(list_head) /\ DOMAIN Owners(s[k]) = DOMAIN s[k]
            /\ \A j \in DOMAIN s[k] : Owners(s[k])[j] = s[k][j].of
            /\ \A j \in DOMAIN s[k] : s[k][j] = [at |-> Field(k), of |-> Owners(s[k])[j]]
      BY ListShown
    <3> QED
      BY <2>1, <3>1
  <2>3. Queues[q] = Owners(r)
    BY <1>3, QueueShown
  <2>4. q # "pseudoClockQueue" => Sequences!Without(Queues[q], D) = Queues[q]
    BY <1>5, NotInQueue
  <2> HIDE DEF r
  <2>5. CASE q = "pcbFree_h"
    <3>1. t[head_of(q)] = r \o PLists(f)
      BY <1>1, <2>1, <2>5 DEF r
    <3>2. Owners(t[head_of(q)]) = Owners(r) \o f
      BY <2>2, <3>1, OwnersJoined
    <3> QED
      BY <2>3, <2>4, <2>5, <3>2
  <2>6. CASE q = "pseudoClockQueue"
    <3>1. t[head_of(q)] = Without(r, PList(D))
      BY <1>1, <2>1, <2>6 DEF r
    <3>2. \A i \in DOMAIN r : r[i] \in PList(D) <=> r[i].of \in D
      BY <1>6, <2>2
    <3>3. Owners(t[head_of(q)]) = Without(Owners(r), D)
      BY <2>2, <3>1, <3>2, OwnersWithout
    <3> QED
      BY <1>4, <2>3, <2>6, <3>3
  <2>7. CASE q # "pcbFree_h" /\ q # "pseudoClockQueue"
    <3>1. t[head_of(q)] = r
      BY <1>1, <2>1, <2>7 DEF r
    <3> QED
      BY <2>3, <2>4, <2>7, <3>1
  <2> QED
    BY <2>5, <2>6, <2>7
<1>11. QueuesOf(t) = Sequences!Added(Sequences!Unqueued(Queues, D), "pcbFree_h", f)
  <2> DEFINE w == Sequences!Unqueued(Queues, D)
  <2>1. DOMAIN w = ProcQ /\ \A q \in ProcQ : w[q] = Sequences!Without(Queues[q], D)
    BY <1>3 DEF Sequences!Unqueued
  <2> HIDE DEF w
  <2>2. Sequences!Added(w, "pcbFree_h", f) = [q \in ProcQ |-> IF q = "pcbFree_h" THEN w[q] \o f ELSE w[q]]
    BY <2>1 DEF Sequences!Added
  <2>3. \A q \in ProcQ : Owners(t[head_of(q)]) = IF q = "pcbFree_h" THEN w[q] \o f ELSE w[q]
    BY <1>10, <2>1
  <2> QED
    BY <2>2, <2>3 DEF QueuesOf, w
<1>12. QueuesOf(t)["pcbFree_h"] = Queues["pcbFree_h"] \o f
  <2>1. "pcbFree_h" \in ProcQ /\ "pcbFree_h" # "pseudoClockQueue"
    BY QueueHeads
  <2>2. Sequences!Without(Queues["pcbFree_h"], D) = Queues["pcbFree_h"]
    BY <1>5, <2>1, NotInQueue
  <2> QED
    BY <1>10, <2>1, <2>2 DEF QueuesOf
<1> QED
  BY <1>7, <1>9, <1>11, <1>12

\* terminateProcess().
LEMMA TerminateMatches ==
  ASSUME NEW s, Safe(heap, s, p_parent, current_process), NEW p \in Pcb, terminateProcess(p)
  PROVE  Sequences!Terminate(p)
<1> DEFINE cur == current_process
<1>1. PICK f \in Seq(Pcb) :
        LET D == ToSet(f)
            t == KillLists(s, f, D)
        IN  /\ IsInjective(f) /\ Lineage(D, p_parent, p) /\ Doomed(s, p_parent, p, D)
            /\ \E h : Stands(h, t)
            /\ Safe(heap', IF p = cur THEN Scheduled(t) ELSE t, p_parent', current_process')
            /\ current_process' = IF p = cur THEN NextOne(t) ELSE cur
            /\ p_parent' = Orphaned(p_parent, D)
            /\ UNCHANGED <<m_sender, blockedOnDevice>>
  BY TerminateSafe
<1> DEFINE D == ToSet(f)
           t == KillLists(s, f, D)
           dead == Sequences!Descendants(p)
           qs == Sequences!Added(Sequences!Unqueued(Queues, D), "pcbFree_h", f)
<1>2. /\ Stands(heap, s) /\ Tree(s, p_parent)
      /\ IsInjective(f) /\ Lineage(D, p_parent, p) /\ Doomed(s, p_parent, p, D) /\ \E h : Stands(h, t)
      /\ current_process' = IF p = cur THEN NextOne(t) ELSE cur
      /\ p_parent' = Orphaned(p_parent, D) /\ UNCHANGED <<m_sender, blockedOnDevice>>
      /\ p = cur => Stands(heap', Scheduled(t))
      /\ p # cur => Stands(heap', t)
  BY <1>1 DEF Safe, Core
<1>3. dead = D
  BY <1>2, DescendantsAre, OneLineage
<1>4. /\ QueuesOf(t) = qs /\ QueuesOf(t)["pcbFree_h"] = Queues["pcbFree_h"] \o f
      /\ ChildrenOf(t) = [x \in Pcb |-> IF x \in D THEN <<>> ELSE Sequences!Without(Children[x], D)]
      /\ InboxesOf(t) = Inboxes /\ PoolOf(t) = FreeMsgs
  BY <1>2, KilledShown
<1> HIDE DEF t, qs
<1>5. f \in Sequences!SetToSeqs(D)
  <2>1. Sequences!SetToSeqs(D) = SetToSeqs(D)
    BY SameOperators
  <2>2. Cardinality(D) = Len(f)
    BY <1>2, LengthCounts
  <2>3. f \in [1..Len(f) -> D] /\ DOMAIN f = 1..Len(f)
    <3>1. f \in [1..Len(f) -> Pcb] /\ DOMAIN f = 1..Len(f)
      BY LenProperties
    <3>2. \A i \in 1..Len(f) : f[i] \in D
      BY <3>1 DEF ToSet
    <3> HIDE DEF D
    <3> QED
      BY <3>1, <3>2
  <2>4. \A i, j \in 1..Len(f) : i # j => f[i] # f[j]
    BY <1>2, <2>3 DEF IsInjective
  <2> HIDE DEF D
  <2> QED
    BY <2>1, <2>2, <2>3, <2>4 DEF SetToSeqs
<1> HIDE DEF D
<1>6. /\ Children' = ChildrenOf(t) /\ Inboxes' = InboxesOf(t) /\ FreeMsgs' = PoolOf(t)
      /\ IF p = cur THEN Sequences!Schedules(qs) ELSE Sequences!Returns(qs)
      /\ Queues'["pcbFree_h"] = QueuesOf(t)["pcbFree_h"]
  <2>1. CASE p = cur
    <3>1. /\ Sequences!Schedules(QueuesOf(t))
          /\ Children' = ChildrenOf(t) /\ Inboxes' = InboxesOf(t) /\ FreeMsgs' = PoolOf(t)
      <4>1. Stands(heap', Scheduled(t)) /\ current_process' = NextOne(t)
        BY <1>2, <2>1
      <4> QED
        BY <1>2, <4>1, SchedulesMatches
    <3>2. Queues'["pcbFree_h"] = QueuesOf(t)["pcbFree_h"]
      <4> DEFINE w == QueuesOf(t)
      <4>1. DOMAIN w = ProcQ /\ "pcbFree_h" \in ProcQ /\ "pcbFree_h" # "readyQueue"
        BY QueueHeads DEF QueuesOf
      <4>2. Sequences!Schedules(w)
        BY <3>1
      <4> HIDE DEF w
      <4>3. Queues' = w \/ Queues' = [w EXCEPT !["readyQueue"] = Tail(@)]
        BY <4>2 DEF Sequences!Schedules
      <4>4. Queues'["pcbFree_h"] = w["pcbFree_h"]
        BY <4>1, <4>3
      <4> QED
        BY <4>4 DEF w
    <3> QED
      BY <1>4, <2>1, <3>1, <3>2
  <2>2. CASE p # cur
    <3>1. Stands(heap', t) /\ current_process' = cur
      BY <1>2, <2>2
    <3>2. Queues' = QueuesOf(t) /\ Children' = ChildrenOf(t) /\ Inboxes' = InboxesOf(t) /\ FreeMsgs' = PoolOf(t)
      BY <3>1, SeenNext
    <3> QED
      BY <1>4, <2>2, <3>1, <3>2 DEF Sequences!Returns
  <2> QED
    BY <2>1, <2>2
<1>7. Sequences!Pcb = Pcb
  BY SameOperators
<1>8. p_parent' = [x \in Sequences!Pcb |-> IF x \in dead THEN NULL ELSE p_parent[x]]
  BY <1>2, <1>3, <1>7 DEF Orphaned
<1>9. Children' = [x \in Sequences!Pcb |-> IF x \in dead THEN <<>> ELSE Sequences!Without(Children[x], dead)]
  BY <1>3, <1>4, <1>6, <1>7
<1>10. UNCHANGED <<Inboxes, FreeMsgs>>
  BY <1>4, <1>6
<1> HIDE DEF dead
<1>11. \E order \in Sequences!SetToSeqs(dead) :
         /\ Queues'["pcbFree_h"] = Queues["pcbFree_h"] \o order
         /\ LET ws == Sequences!Added(Sequences!Unqueued(Queues, dead), "pcbFree_h", order)
            IN  IF p = cur THEN Sequences!Schedules(ws) ELSE Sequences!Returns(ws)
  BY <1>3, <1>4, <1>5, <1>6 DEF qs
<1> QED
  BY <1>2, <1>8, <1>9, <1>10, <1>11 DEF Sequences!Terminate, dead

\* exitInterruptHandler() after all of e have been woken up.
LEMMA AwakenMatches ==
  ASSUME NEW s, Stands(heap, s), m_sender' \in [Msg -> Pcb \cup {NULL}],
         NEW e \in Seq(Pcb), NEW h, NEW t, Stands(h, t), Woken(s, t, e, m_sender, m_sender'),
         Stands(heap', Exited(t, current_process)),
         current_process' = IF current_process = NULL THEN NextOne(t) ELSE current_process,
         UNCHANGED <<p_parent, blockedOnDevice>>
  PROVE  Sequences!Awaken(e)
<1> DEFINE P == FreeMsgs
           given == {i \in DOMAIN P : i <= Len(e)}
           f == m_sender'
<1>1. Queues = QueuesOf(s) /\ Children = ChildrenOf(s) /\ Inboxes = InboxesOf(s) /\ P = PoolOf(s)
  BY SeenNow
<1>2. P \in Seq(Msg) /\ DOMAIN P = 1..Len(P) /\ Len(P) \in Nat /\ DOMAIN e = 1..Len(e) /\ Len(e) \in Nat
  <2>1. P \in Seq(Msg)
    BY <1>1, ListShown, Fields DEF PoolOf
  <2> QED
    BY <2>1, LenProperties
<1> HIDE DEF P
<1>3. /\ QueuesOf(t) = Sequences!Readied(Sequences!Unqueued(Queues, Range(e)), e)
      /\ ChildrenOf(t) = Children
      /\ Len(e) <= Len(P) /\ PoolOf(t) = SubSeq(P, Len(e) + 1, Len(P))
      /\ \A i \in DOMAIN e : InboxesOf(t)[e[i]] = Append(Inboxes[e[i]], P[i])
      /\ \A p \in Pcb : p \notin Range(e) => InboxesOf(t)[p] = Inboxes[p]
      /\ \A i \in DOMAIN e : f[P[i]] = ssi_pcb
      /\ \A m \in Msg : (\A i \in DOMAIN e : P[i] # m) => f[m] = m_sender[m]
  BY <1>1 DEF Woken
<1>4. given = DOMAIN e
  BY <1>2, <1>3
<1> HIDE DEF given, f
<1>5. f = [m \in Msg |-> IF \E i \in given : P[i] = m THEN ssi_pcb ELSE m_sender[m]]
  <2>1. f = [m \in Msg |-> f[m]]
    BY DEF f
  <2>2. \A m \in Msg : f[m] = IF \E i \in given : P[i] = m THEN ssi_pcb ELSE m_sender[m]
    BY <1>3, <1>4
  <2> QED
    BY <2>1, <2>2
<1>6. InboxesOf(t) = [p \in Pcb |-> IF \E i \in given : e[i] = p
                                    THEN Append(Inboxes[p], P[CHOOSE i \in given : e[i] = p])
                                    ELSE Inboxes[p]]
  <2> DEFINE w == InboxesOf(t)
  <2>1. w = [p \in Pcb |-> w[p]]
    BY DEF InboxesOf
  <2> HIDE DEF w
  <2>2. ASSUME NEW p \in Pcb
        PROVE  w[p] = IF \E i \in given : e[i] = p
                      THEN Append(Inboxes[p], P[CHOOSE i \in given : e[i] = p])
                      ELSE Inboxes[p]
    <3>1. CASE \E i \in given : e[i] = p
      <4> DEFINE j == CHOOSE i \in given : e[i] = p
      <4>1. j \in given /\ e[j] = p
        BY <3>1
      <4> HIDE DEF j
      <4>2. w[p] = Append(Inboxes[p], P[j])
        BY <1>3, <1>4, <4>1 DEF w
      <4> QED
        BY <3>1, <4>2 DEF j
    <3>2. CASE ~ \E i \in given : e[i] = p
      <4>1. p \notin Range(e)
        BY <1>4, <3>2 DEF Range
      <4> QED
        BY <1>3, <3>2, <4>1 DEF w
    <3> QED
      BY <3>1, <3>2
  <2>3. w = [p \in Pcb |-> IF \E i \in given : e[i] = p
                           THEN Append(Inboxes[p], P[CHOOSE i \in given : e[i] = p])
                           ELSE Inboxes[p]]
    BY <2>1, <2>2
  <2> QED
    BY <2>3 DEF w
<1>7. /\ Sequences!Resumes(QueuesOf(t))
      /\ Children' = ChildrenOf(t) /\ Inboxes' = InboxesOf(t) /\ FreeMsgs' = PoolOf(t)
  <2>1. CASE current_process = NULL
    <3>1. Stands(heap', Scheduled(t)) /\ current_process' = NextOne(t)
      BY <2>1 DEF Exited
    <3>2. /\ Sequences!Schedules(QueuesOf(t))
          /\ Children' = ChildrenOf(t) /\ Inboxes' = InboxesOf(t) /\ FreeMsgs' = PoolOf(t)
      BY <3>1, SchedulesMatches
    <3> QED
      BY <2>1, <3>2 DEF Sequences!Resumes
  <2>2. CASE current_process # NULL
    <3>1. Stands(heap', t) /\ current_process' = current_process
      BY <2>2 DEF Exited
    <3>2. /\ Queues' = QueuesOf(t) /\ Children' = ChildrenOf(t) /\ Inboxes' = InboxesOf(t)
          /\ FreeMsgs' = PoolOf(t)
      BY <3>1, SeenNext
    <3> QED
      BY <2>2, <3>1, <3>2 DEF Sequences!Resumes, Sequences!Returns
  <2> QED
    BY <2>1, <2>2
<1>8. Sequences!Pcb = Pcb /\ Sequences!Msg = Msg /\ Sequences!ssi_pcb = ssi_pcb
      /\ Sequences!Range(e) = Range(e)
  BY SameOperators
<1> DEFINE qs == Sequences!Readied(Sequences!Unqueued(Queues, Range(e)), e)
<1>9. Sequences!Resumes(qs)
  BY <1>3, <1>7
<1> HIDE DEF qs
<1>10. /\ UNCHANGED <<p_parent, blockedOnDevice>>
       /\ FreeMsgs' = SubSeq(FreeMsgs, Len(e) + 1, Len(FreeMsgs)) /\ Len(e) <= Len(FreeMsgs)
       /\ Children' = Children
  BY <1>3, <1>7 DEF P
<1>11. /\ m_sender' = [m \in Sequences!Msg |-> IF \E i \in given : FreeMsgs[i] = m
                                               THEN Sequences!ssi_pcb ELSE m_sender[m]]
       /\ Inboxes' = [p \in Sequences!Pcb |->
                        IF \E i \in given : e[i] = p
                        THEN Append(Inboxes[p], FreeMsgs[CHOOSE i \in given : e[i] = p])
                        ELSE Inboxes[p]]
  BY <1>5, <1>6, <1>7, <1>8 DEF P, f
<1>12. given = {i \in DOMAIN FreeMsgs : i <= Len(e)}
  BY DEF given, P
<1>13. Sequences!Resumes(Sequences!Readied(Sequences!Unqueued(Queues, Sequences!Range(e)), e))
  BY <1>8, <1>9 DEF qs
<1> HIDE DEF given
<1> QED
  BY <1>10, <1>11, <1>12, <1>13 DEF Sequences!Awaken

\* The interval timer's handler.
LEMMA TickMatches ==
  ASSUME NEW s, Safe(heap, s, p_parent, current_process), m_sender \in [Msg -> Pcb \cup {NULL}],
         intervalTimerHandler
  PROVE  Sequences!Tick
<1> DEFINE n == Len(s[pseudoClockQueue])
           C == QueuesOf(s)["pseudoClockQueue"]
<1>1. PICK x, t : /\ Awakening(x, s, t, n) /\ m_sender' = x.sender
                  /\ Safe(heap', Exited(t, current_process), p_parent, current_process')
                  /\ current_process' = IF current_process = NULL THEN NextOne(t) ELSE current_process
  BY IntervalTimerSafe
<1>2. Stands(heap, s) /\ Stands(heap', Exited(t, current_process)) /\ Stands(x.heap, t)
      /\ x.sender \in [Msg -> Pcb \cup {NULL}] /\ UNCHANGED <<p_parent, blockedOnDevice>>
  BY <1>1 DEF Awakening, Safe, Core, Held, intervalTimerHandler
<1>3. PICK e \in Seq(Pcb) : /\ Len(e) = n /\ e \o QueuesOf(t)["pseudoClockQueue"] = C
                            /\ Woken(s, t, e, m_sender, x.sender)
  BY <1>1 DEF Awakening
<1>4. "pseudoClockQueue" \in ProcQ /\ head_of("pseudoClockQueue") = pseudoClockQueue
      /\ pseudoClockQueue \in Heads
  BY QueueHeads
<1>5. QueuesOf(t)["pseudoClockQueue"] = <<>>
  <2>1. Len(t[pseudoClockQueue]) + n = n
    BY <1>1 DEF Awakening
  <2>2. n \in Nat /\ t[pseudoClockQueue] \in Seq(list_head) /\ Len(t[pseudoClockQueue]) \in Nat
    BY <1>2, <1>4, ListShown
  <2>3. Len(t[pseudoClockQueue]) = 0
    <3> DEFINE a == Len(t[pseudoClockQueue])
    <3>1. a + n = n /\ n \in Nat /\ a \in Nat
      BY <2>1, <2>2
    <3> HIDE DEF a, n
    <3> QED
      BY <3>1 DEF a
  <2>4. t[pseudoClockQueue] = <<>>
    BY <2>2, <2>3, EmptySeq
  <2> QED
    BY <1>2, <1>4, <2>4, QueueShown
<1>6. e = C
  BY <1>3, <1>5, ConcatEmptySeq
<1>7. m_sender' \in [Msg -> Pcb \cup {NULL}] /\ Woken(s, t, e, m_sender, m_sender')
  BY <1>1, <1>2, <1>3
<1>8. Sequences!Awaken(e)
  BY <1>1, <1>2, <1>7, AwakenMatches
<1>9. e = Queues["pseudoClockQueue"]
  BY <1>2, <1>6, SeenNow
<1> QED
  BY <1>8, <1>9 DEF Sequences!Tick

\* deviceHandler().
LEMMA DeviceMatches ==
  ASSUME NEW s, Safe(heap, s, p_parent, current_process), m_sender \in [Msg -> Pcb \cup {NULL}],
         NEW d, deviceHandler(d)
  PROVE  Sequences!DeviceDone(d)
<1> DEFINE l == blockedDiskQueue
           blocked == Queues["blockedDiskQueue"]
           W == {i \in DOMAIN blocked : blockedOnDevice[blocked[i]] = d}
<1>1. Stands(heap, s) /\ Core(heap, s, p_parent) /\ UNCHANGED <<p_parent, blockedOnDevice>>
  BY DEF Safe, Core, deviceHandler
<1>2. "blockedDiskQueue" \in ProcQ /\ head_of("blockedDiskQueue") = l /\ l \in Heads /\ Field(l) = "p_list"
  BY QueueHeads, Fields
<1>3. /\ DOMAIN blocked = DOMAIN s[l] /\ \A i \in DOMAIN s[l] : blocked[i] = s[l][i].of
      /\ DOMAIN s[l] = 1..Len(s[l]) /\ Len(s[l]) \in Nat
  <2>1. blocked = Owners(s[l])
    BY <1>1, <1>2, SeenNow DEF QueuesOf
  <2>2. /\ DOMAIN Owners(s[l]) = DOMAIN s[l] /\ DOMAIN s[l] = 1..Len(s[l]) /\ Len(s[l]) \in Nat
        /\ \A i \in DOMAIN s[l] : Owners(s[l])[i] = s[l][i].of
    BY <1>1, <1>2, ListShown
  <2> QED
    BY <2>1, <2>2
<1> HIDE DEF blocked
<1>4. PICK waiting :
           /\ \/ /\ waiting = NULL /\ m_sender' = m_sender
                 /\ \A i \in DOMAIN s[l] : blockedOnDevice[s[l][i].of] # d
              \/ /\ waiting \in Pcb /\ s[msgFree_h] # <<>>
                 /\ m_sender' = Signed(m_sender, s, ssi_pcb) /\ Head(s[msgFree_h]).of \in Msg
                 /\ \E i \in DOMAIN s[l] :
                      /\ s[l][i] = p_list(waiting) /\ blockedOnDevice[waiting] = d
                      /\ \A j \in DOMAIN s[l] : j < i => blockedOnDevice[s[l][j].of] # d
           /\ Safe(heap', Exited(Finished(s, waiting), current_process), p_parent, current_process')
           /\ current_process' = IF current_process = NULL THEN NextOne(Finished(s, waiting))
                                 ELSE current_process
  BY DeviceHandlerSafe
<1> DEFINE t == Finished(s, waiting)
<1>5. Stands(heap', Exited(t, current_process))
  BY <1>4 DEF Safe, Core
<1>6. \A N : Sequences!Min(N) = Min(N)
  BY SameOperators
<1>7. CASE waiting = NULL
  <2>1. m_sender' = m_sender /\ \A i \in DOMAIN s[l] : blockedOnDevice[s[l][i].of] # d
    BY <1>4, <1>7, Tables
  <2>2. W = {}
    BY <1>3, <2>1
  <2>3. t = s
    BY <1>7 DEF Finished
  <2>4. Woken(s, t, <<>>, m_sender, m_sender')
    BY <1>1, <2>1, <2>3, WokenNone
  <2>5. <<>> \in Seq(Pcb) /\ Stands(heap, t) /\ m_sender' \in [Msg -> Pcb \cup {NULL}]
    BY <1>1, <2>1, <2>3
  <2>6. current_process' = IF current_process = NULL THEN NextOne(t) ELSE current_process
    BY <1>4
  <2> HIDE DEF t
  <2>7. Sequences!Awaken(<<>>)
    BY <1>1, <1>5, <2>4, <2>5, <2>6, AwakenMatches
  <2> QED
    BY <2>2, <2>7 DEF Sequences!DeviceDone, blocked
<1>8. CASE waiting # NULL
  <2>1. /\ waiting \in Pcb /\ s[msgFree_h] # <<>>
        /\ m_sender' = Signed(m_sender, s, ssi_pcb) /\ Head(s[msgFree_h]).of \in Msg
    BY <1>4, <1>8
  <2>2. PICK i \in DOMAIN s[l] :
                      /\ s[l][i] = p_list(waiting) /\ blockedOnDevice[waiting] = d
                      /\ \A j \in DOMAIN s[l] : j < i => blockedOnDevice[s[l][j].of] # d
    BY <1>4, <1>8
  <2>3. i \in W /\ blocked[i] = waiting /\ \A j \in W : i <= j
    <3>1. blocked[i] = waiting
      BY <1>3, <2>2 DEF p_list
    <3>2. ASSUME NEW j \in W, ~(i <= j) PROVE FALSE
      BY <1>3, <2>2, <3>2
    <3> QED
      BY <1>3, <2>2, <3>1, <3>2
  <2>4. Min(W) = i
    <3>1. W \in SUBSET Nat /\ W # {}
      BY <1>3, <2>3
    <3>2. Min(W) \in W /\ \A j \in W : Min(W) <= j
      <4> HIDE DEF W
      <4> QED
        BY <3>1, FirstPosition
    <3>3. i \in Nat
      BY <1>3
    <3> DEFINE m == Min(W)
    <3>4. m \in Nat /\ m <= i /\ i <= m
      BY <2>3, <3>1, <3>2
    <3> HIDE DEF W, m
    <3> QED
      BY <3>3, <3>4 DEF m
  <2>5. p_list(waiting) \in ToSet(s[l])
    BY <2>2 DEF ToSet
  <2>6. t = Awoken(s, "blockedDiskQueue", waiting)
    BY <1>8 DEF Finished
  <2> DEFINE e == <<waiting>>
             y == [heap |-> heap, sender |-> m_sender]
  <2>7. Woken(s, t, e, m_sender, m_sender')
    <3>1. Woken(s, s, <<>>, m_sender, m_sender) /\ <<>> \in Seq(Pcb) /\ waiting \notin Range(<<>>)
      BY <1>1, WokenNone DEF Range
    <3>2. p_list(waiting) \in ToSet(s[head_of("blockedDiskQueue")])
      BY <1>2, <2>5
    <3>3. "blockedDiskQueue" \in {"pseudoClockQueue", "blockedDiskQueue"}
      OBVIOUS
    <3>4. Woken(s, Awoken(s, "blockedDiskQueue", waiting), Append(<<>>, waiting), m_sender,
                Signed(m_sender, s, ssi_pcb))
      BY <1>1, <2>1, <3>1, <3>2, <3>3, WokenOne
    <3>5. Append(<<>>, waiting) = e
      OBVIOUS
    <3> HIDE DEF t, e
    <3> QED
      BY <2>1, <2>6, <3>4, <3>5
  <2>8. e \in Seq(Pcb) /\ m_sender' \in [Msg -> Pcb \cup {NULL}]
    BY <2>1, Tables DEF Signed
  <2>9. \E h : Stands(h, t)
    <3>1. y \in Held /\ y.heap = heap
      BY <1>1 DEF Held, Stands, Holds
    <3> HIDE DEF y, t
    <3>2. Core(y.heap, s, p_parent) /\ p_list(waiting) \in ToSet(s[head_of("blockedDiskQueue")])
      BY <1>1, <1>2, <2>5, <3>1
    <3>3. Core(Awaken(y, waiting).heap, Awoken(s, "blockedDiskQueue", waiting), p_parent)
      BY <2>1, <3>1, <3>2, AwakensSafely
    <3> QED
      BY <2>6, <3>3 DEF Core
  <2>10. current_process' = IF current_process = NULL THEN NextOne(t) ELSE current_process
    BY <1>4
  <2> HIDE DEF t
  <2>11. Sequences!Awaken(e)
    <3> HIDE DEF e
    <3> QED
      BY <1>1, <1>5, <2>7, <2>8, <2>9, <2>10, AwakenMatches
  <2>12. W # {} /\ e = <<blocked[Sequences!Min(W)]>>
    BY <1>6, <2>3, <2>4
  <2> HIDE DEF e
  <2> QED
    BY <2>11, <2>12 DEF Sequences!DeviceDone, blocked
<1> QED
  BY <1>7, <1>8

-----------------------------------------------------------------------------
(* What main() finds: initPcbs() and initMsgs() have filled the free lists.*)
Blank   == [next |-> [l \in list_head |-> l], prev |-> [l \in list_head |-> l]]
Nothing == [l \in Heads |-> <<>>]

\* Memory in which every list_head points to itself holds empty lists.
LEMMA BlankHolds ==
  Stands(Blank, Nothing) /\ \A x : ~Linked(Nothing, x)
<1>1. \A l \in Heads : Nothing[l] = <<>> /\ Len(Nothing[l]) = 0 /\ DOMAIN Nothing[l] = {}
  BY DEF Nothing
<1>2. Nothing \in [Heads -> Seq(list_head \ Heads)]
  BY DEF Nothing
<1>3. Blank \in Heap /\ Heads \subseteq list_head
  BY DEF Blank, Heap, Heads
<1>4. \A l \in Heads : Ring(Blank, l, Nothing[l])
  <2> TAKE l \in Heads
  <2> SUFFICES ASSUME NEW i \in 0..0
               PROVE  /\ Blank.next[At(<<>>, l, i)] = At(<<>>, l, i + 1)
                      /\ Blank.prev[At(<<>>, l, i + 1)] = At(<<>>, l, i)
    BY <1>1 DEF Ring
  <2>1. At(<<>>, l, i) = l /\ At(<<>>, l, i + 1) = l
    BY DEF At
  <2> QED
    BY <1>3, <2>1 DEF Blank
<1> HIDE DEF Nothing
<1>5. Stands(Blank, Nothing)
  BY <1>1, <1>2, <1>3, <1>4 DEF Stands, Holds
<1>6. \A x : ~Linked(Nothing, x)
  BY <1>1 DEF Linked, ToSet
<1> QED
  BY <1>5, <1>6

\* The order in which the elements of a table are added to the free list.
PcbsInTurn == [i \in 1..Len(pcbTable) |-> p_list(pcbTable[(Len(pcbTable) - i) + 1])]
MsgsInTurn == [i \in 1..Len(msgTable) |-> m_list(msgTable[i])]

\* The tables hold each PCB and each message once.
LEMMA InTurn ==
  /\ PcbsInTurn \in Seq(list_head \ Heads) /\ IsInjective(PcbsInTurn)
  /\ Len(PcbsInTurn) = Len(pcbTable) /\ Len(pcbTable) \in Nat /\ Len(pcbTable) >= 2
  /\ \A i \in DOMAIN PcbsInTurn : PcbsInTurn[i].at = "p_list"
  /\ MsgsInTurn \in Seq(list_head \ Heads) /\ IsInjective(MsgsInTurn)
  /\ Len(MsgsInTurn) = Len(msgTable) /\ Len(msgTable) \in Nat
  /\ \A i \in DOMAIN MsgsInTurn : MsgsInTurn[i].at = "m_list"
  /\ \A i \in 1..Len(pcbTable) : pcbTable[i] \in Pcb
  /\ \A i, j \in 1..Len(pcbTable) : pcbTable[i] = pcbTable[j] => i = j
  /\ \A i \in 1..Len(msgTable) : msgTable[i] \in Msg
<1> DEFINE N == Len(pcbTable)
           M == Len(msgTable)
<1>1. /\ pcbTable \in Seq(Pcb) /\ IsInjective(pcbTable) /\ N >= 2
      /\ msgTable \in Seq(Msg) /\ IsInjective(msgTable)
  BY ListsAssumption
<1>2. N \in Nat /\ DOMAIN pcbTable = 1..N /\ M \in Nat /\ DOMAIN msgTable = 1..M
  BY <1>1, LenProperties
<1>3. /\ \A i \in 1..N : pcbTable[i] \in Pcb
      /\ \A i, j \in 1..N : pcbTable[i] = pcbTable[j] => i = j
      /\ \A i \in 1..M : msgTable[i] \in Msg
      /\ \A i, j \in 1..M : msgTable[i] = msgTable[j] => i = j
  BY <1>1, <1>2, ElementOfSeq DEF IsInjective
<1> HIDE DEF N, M
<1>4. \A i \in 1..N : (N - i) + 1 \in 1..N
  BY <1>2
<1>5. /\ PcbsInTurn = [i \in 1..N |-> p_list(pcbTable[(N - i) + 1])]
      /\ MsgsInTurn = [i \in 1..M |-> m_list(msgTable[i])]
  BY DEF PcbsInTurn, MsgsInTurn, N, M
<1>6. /\ PcbsInTurn \in [1..N -> list_head \ Heads]
      /\ \A i \in 1..N : PcbsInTurn[i] = p_list(pcbTable[(N - i) + 1])
  BY <1>3, <1>4, <1>5, Fields
<1>7. MsgsInTurn \in [1..M -> list_head \ Heads] /\ \A i \in 1..M : MsgsInTurn[i] = m_list(msgTable[i])
  BY <1>3, <1>5, Fields
<1>8. /\ PcbsInTurn \in Seq(list_head \ Heads) /\ Len(PcbsInTurn) = N /\ DOMAIN PcbsInTurn = 1..N
      /\ MsgsInTurn \in Seq(list_head \ Heads) /\ Len(MsgsInTurn) = M /\ DOMAIN MsgsInTurn = 1..M
  <2>1. \A S, n \in Nat : \A f \in [1..n -> S] : f \in Seq(S)
    BY SeqDef
  <2>2. PcbsInTurn \in Seq(list_head \ Heads) /\ MsgsInTurn \in Seq(list_head \ Heads)
    BY <1>2, <1>6, <1>7, SeqDef
  <2> QED
    BY <1>2, <1>6, <1>7, <2>2, LenProperties
<1>9. IsInjective(PcbsInTurn)
  <2> SUFFICES ASSUME NEW i \in 1..N, NEW j \in 1..N, PcbsInTurn[i] = PcbsInTurn[j]
               PROVE  i = j
    BY <1>8 DEF IsInjective
  <2>1. pcbTable[(N - i) + 1] = pcbTable[(N - j) + 1]
    BY <1>6 DEF p_list
  <2>2. (N - i) + 1 = (N - j) + 1
    BY <1>3, <1>4, <2>1
  <2> QED
    BY <1>2, <2>2
<1>10. IsInjective(MsgsInTurn)
  <2> SUFFICES ASSUME NEW i \in 1..M, NEW j \in 1..M, MsgsInTurn[i] = MsgsInTurn[j]
               PROVE  i = j
    BY <1>8 DEF IsInjective
  <2>1. msgTable[i] = msgTable[j]
    BY <1>7 DEF m_list
  <2> QED
    BY <1>3, <2>1
<1>11. /\ \A i \in DOMAIN PcbsInTurn : PcbsInTurn[i].at = "p_list"
       /\ \A i \in DOMAIN MsgsInTurn : MsgsInTurn[i].at = "m_list"
  BY <1>6, <1>7, <1>8 DEF p_list, m_list
<1> QED
  BY <1>1, <1>2, <1>3, <1>8, <1>9, <1>10, <1>11 DEF N, M

\* The lists at the start: the tables, in the free lists.
LEMMA InitialisedIs ==
  \E s : /\ Stands(Initialised, s)
         /\ Len(s[pcbFree_h]) = Len(pcbTable)
         /\ \A i \in 1..Len(pcbTable) : s[pcbFree_h][i] = p_list(pcbTable[i])
         /\ Filled(s, [Nothing EXCEPT ![pcbFree_h] = s[pcbFree_h]], MsgsInTurn, msgFree_h, Len(msgTable))
<1> DEFINE N == Len(pcbTable)
           M == Len(msgTable)
           P(w) == [n \in 0..N |->
                      IF n = 0 THEN [next |-> [l \in list_head |-> l], prev |-> [l \in list_head |-> l]]
                      ELSE list_add(w[n - 1], p_list(pcbTable[N - n + 1]), pcbFree_h)]
           w1 == CHOOSE w : w = P(w)
           g == w1[N]
           Q(w) == [n \in 0..M |->
                      IF n = 0 THEN g ELSE list_add(w[n - 1], m_list(msgTable[n]), msgFree_h)]
           w2 == CHOOSE w : w = Q(w)
<1>1. Initialised = w2[M]
  BY DEF Initialised
<1>2. /\ N \in Nat /\ M \in Nat /\ Len(PcbsInTurn) = N /\ Len(MsgsInTurn) = M
      /\ pcbFree_h \in Heads /\ msgFree_h \in Heads /\ pcbFree_h # msgFree_h
      /\ Field(pcbFree_h) = "p_list" /\ Field(msgFree_h) = "m_list"
  BY InTurn, QueueHeads, Fields
<1>3. \A w : w = P(w) <=> AddsAll(w, Blank, PcbsInTurn, pcbFree_h)
  <2> TAKE w
  <2> DEFINE A == [n \in 0..N |-> IF n = 0 THEN Blank ELSE list_add(w[n - 1], PcbsInTurn[n], pcbFree_h)]
             B == P(w)
  <2>1. ASSUME NEW n \in 0..N PROVE A[n] = B[n]
    <3>1. CASE n = 0
      BY <1>2, <3>1 DEF Blank
    <3>2. CASE n # 0
      <4>1. n \in 1..N /\ N - n + 1 = (N - n) + 1
        BY <1>2, <3>2
      <4>2. PcbsInTurn[n] = p_list(pcbTable[N - n + 1])
        BY <4>1 DEF PcbsInTurn
      <4> HIDE DEF N
      <4> QED
        BY <3>2, <4>2
    <3> QED
      BY <3>1, <3>2
  <2>2. A = [n \in 0..N |-> A[n]] /\ B = [n \in 0..N |-> B[n]]
    OBVIOUS
  <2>3. A = B
    <3> HIDE DEF A, B
    <3> QED
      BY <2>1, <2>2
  <2>4. AddsAll(w, Blank, PcbsInTurn, pcbFree_h) <=> w = A
    BY <1>2 DEF AddsAll
  <2> HIDE DEF A
  <2> QED
    BY <2>3, <2>4
<1>4. \A w : w = Q(w) <=> AddsAll(w, g, MsgsInTurn, msgFree_h)
  <2> HIDE DEF g
  <2> TAKE w
  <2> DEFINE A == [n \in 0..M |-> IF n = 0 THEN g ELSE list_add(w[n - 1], MsgsInTurn[n], msgFree_h)]
             B == Q(w)
  <2>1. ASSUME NEW n \in 0..M PROVE A[n] = B[n]
    <3>1. CASE n = 0
      BY <1>2, <3>1
    <3>2. CASE n # 0
      <4>1. n \in 1..M
        BY <1>2, <3>2
      <4>2. MsgsInTurn[n] = m_list(msgTable[n])
        BY <4>1 DEF MsgsInTurn
      <4> HIDE DEF M
      <4> QED
        BY <3>2, <4>2
    <3> QED
      BY <3>1, <3>2
  <2>2. A = [n \in 0..M |-> A[n]] /\ B = [n \in 0..M |-> B[n]]
    OBVIOUS
  <2>3. A = B
    <3> HIDE DEF A, B
    <3> QED
      BY <2>1, <2>2
  <2>4. AddsAll(w, g, MsgsInTurn, msgFree_h) <=> w = A
    BY <1>2 DEF AddsAll
  <2> HIDE DEF A
  <2> QED
    BY <2>3, <2>4
<1>5. \E u : Stands(g, u) /\ Filled(u, Nothing, PcbsInTurn, pcbFree_h, N)
  <2> HIDE DEF P
  <2>1. /\ Nothing[pcbFree_h] = <<>> /\ Stands(Blank, Nothing)
        /\ \A i \in DOMAIN PcbsInTurn : PcbsInTurn[i].at = Field(pcbFree_h) /\ ~Linked(Nothing, PcbsInTurn[i])
    BY <1>2, InTurn, BlankHolds DEF Nothing
  <2> DEFINE b == Blank
  <2>2. /\ \E w : AddsAll(w, b, PcbsInTurn, pcbFree_h)
        /\ \A w : AddsAll(w, b, PcbsInTurn, pcbFree_h) =>
                    \E u : Stands(w[Len(PcbsInTurn)], u) /\ Filled(u, Nothing, PcbsInTurn, pcbFree_h, Len(PcbsInTurn))
    <3>1. Stands(b, Nothing)
      BY <2>1
    <3> HIDE DEF b
    <3> QED
      BY <1>2, <2>1, <3>1, InTurn, FillsUp
  <2>3. w1 = P(w1)
    BY <1>3, <2>2
  <2>4. AddsAll(w1, b, PcbsInTurn, pcbFree_h)
    BY <1>3, <2>3
  <2> HIDE DEF w1, b
  <2> QED
    BY <1>2, <2>2, <2>4
<1>6. PICK u : Stands(g, u) /\ Filled(u, Nothing, PcbsInTurn, pcbFree_h, N)
  BY <1>5
<1> HIDE DEF g
<1>7. /\ DOMAIN u = Heads /\ \A k \in Heads \ {pcbFree_h} : u[k] = <<>>
      /\ Len(u[pcbFree_h]) = N /\ \A i \in 1..N : u[pcbFree_h][i] = PcbsInTurn[(N - i) + 1]
  BY <1>6 DEF Filled, Nothing
<1>8. \A i \in 1..N : u[pcbFree_h][i] = p_list(pcbTable[i])
  <2> TAKE i \in 1..N
  <2> DEFINE j == (N - i) + 1
  <2>1. PcbsInTurn[j] = p_list(pcbTable[(N - j) + 1]) /\ j \in 1..N
    BY <1>2 DEF PcbsInTurn
  <2>2. (N - j) + 1 = i
    BY <1>2
  <2>3. u[pcbFree_h][i] = PcbsInTurn[j]
    BY <1>7
  <2> HIDE DEF j, N
  <2> QED
    BY <2>1, <2>2, <2>3
<1>9. \E v : Stands(w2[M], v) /\ Filled(v, u, MsgsInTurn, msgFree_h, M)
  <2> HIDE DEF Q
  <2>1. u[msgFree_h] = <<>>
    BY <1>2, <1>7
  <2>2. ASSUME NEW i \in DOMAIN MsgsInTurn
        PROVE  MsgsInTurn[i].at = Field(msgFree_h) /\ ~Linked(u, MsgsInTurn[i])
    <3>1. MsgsInTurn[i].at = "m_list"
      BY InTurn
    <3> SUFFICES ASSUME NEW l \in Heads, MsgsInTurn[i] \in ToSet(u[l]) PROVE FALSE
      BY <1>2, <3>1 DEF Linked
    <3>2. MsgsInTurn[i].at = Field(l)
      BY <1>6, ListIs
    <3>3. l # pcbFree_h
      BY <1>2, <3>1, <3>2
    <3> QED
      BY <1>7, <3>3 DEF ToSet
  <2>3. /\ \E w : AddsAll(w, g, MsgsInTurn, msgFree_h)
        /\ \A w : AddsAll(w, g, MsgsInTurn, msgFree_h) =>
                    \E v : Stands(w[Len(MsgsInTurn)], v) /\ Filled(v, u, MsgsInTurn, msgFree_h, Len(MsgsInTurn))
    BY <1>2, <1>6, <2>1, <2>2, InTurn, FillsUp
  <2>4. w2 = Q(w2)
    BY <1>4, <2>3
  <2>5. AddsAll(w2, g, MsgsInTurn, msgFree_h)
    BY <1>4, <2>4
  <2> HIDE DEF w2
  <2> QED
    BY <1>2, <2>3, <2>5
<1>10. PICK v : Stands(w2[M], v) /\ Filled(v, u, MsgsInTurn, msgFree_h, M)
  BY <1>9
<1> HIDE DEF w2, w1
<1>11. v[pcbFree_h] = u[pcbFree_h]
  BY <1>2, <1>10 DEF Filled
<1>12. \A k \in Heads \ {msgFree_h} : v[k] = [Nothing EXCEPT ![pcbFree_h] = v[pcbFree_h]][k]
  BY <1>2, <1>7, <1>10, <1>11 DEF Filled, Nothing
<1>13. Filled(v, [Nothing EXCEPT ![pcbFree_h] = v[pcbFree_h]], MsgsInTurn, msgFree_h, M)
  BY <1>10, <1>12 DEF Filled
<1> QED
  BY <1>1, <1>7, <1>8, <1>10, <1>11, <1>13 DEF N, M

\* main() takes the first two PCBs.
LEMMA InitSafe ==
  ASSUME Init
  PROVE  \E s0 : LET s == Readied(Readied(s0))
                 IN  /\ Safe(heap, s, p_parent, current_process)
                     /\ Len(s0[pcbFree_h]) = Len(pcbTable)
                     /\ \A i \in 1..Len(pcbTable) : s0[pcbFree_h][i] = p_list(pcbTable[i])
                     /\ Filled(s0, [Nothing EXCEPT ![pcbFree_h] = s0[pcbFree_h]], MsgsInTurn,
                               msgFree_h, Len(msgTable))
                     /\ Stands(Initialised, s0) /\ DOMAIN s0 = Heads
<1> DEFINE N == Len(pcbTable)
           h0 == Initialised
           p1 == pcbTable[1]
           p2 == pcbTable[2]
           h1 == insertProcQ(allocPcb(h0), readyQueue, p1)
           h2 == insertProcQ(allocPcb(h1), readyQueue, p2)
<1>1. /\ heap = h2 /\ p_parent = [p \in Pcb |-> NULL] /\ current_process = NULL
  BY DEF Init
<1>2. PICK s0 : /\ Stands(h0, s0) /\ Len(s0[pcbFree_h]) = N
                /\ \A i \in 1..N : s0[pcbFree_h][i] = p_list(pcbTable[i])
                /\ Filled(s0, [Nothing EXCEPT ![pcbFree_h] = s0[pcbFree_h]], MsgsInTurn,
                          msgFree_h, Len(msgTable))
  BY InitialisedIs
<1> DEFINE f0 == s0[pcbFree_h]
           s1 == Readied(s0)
           s2 == Readied(s1)
<1>3. /\ N \in Nat /\ N >= 2 /\ p1 \in Pcb /\ p2 \in Pcb /\ p1 # p2 /\ p1 = ssi_pcb
      /\ pcbFree_h \in Heads /\ msgFree_h \in Heads /\ IsFiniteSet(list_head)
      /\ \A p \in Pcb : /\ p_child(p) \in Heads /\ p_child(p) # pcbFree_h /\ p_child(p) # msgFree_h
                        /\ p_child(p) # readyQueue /\ \A c \in Pcb : p_child(p) # msg_inbox(c)
      /\ NULL \notin Pcb /\ readyQueue \in Heads /\ readyQueue # pcbFree_h
      /\ \A p \in Pcb : msg_inbox(p) # pcbFree_h
  <2>1. 1 \in 1..N /\ 2 \in 1..N /\ N \in Nat /\ N >= 2
    BY InTurn
  <2> HIDE DEF N
  <2> QED
    BY <2>1, InTurn, QueueHeads, Tables DEF ssi_pcb, N
<1>4. \A l \in Heads : l # pcbFree_h /\ l # msgFree_h => s0[l] = <<>>
  BY <1>2 DEF Filled, Nothing
<1>5. /\ f0 \in Seq(list_head \ Heads) /\ f0 # <<>> /\ Head(f0) = p_list(p1)
      /\ Len(Tail(f0)) = N - 1 /\ Tail(f0)[1] = p_list(p2) /\ DOMAIN f0 = 1..N
  <2>1. f0 \in Seq(list_head \ Heads)
    BY <1>2, <1>3, ListIs
  <2>2. Len(f0) = N /\ f0[1] = p_list(p1) /\ f0[2] = p_list(p2)
    BY <1>2, <1>3
  <2> HIDE DEF f0, p1, p2, N
  <2>3. f0 # <<>>
    BY <1>3, <2>2
  <2> QED
    BY <1>3, <2>1, <2>2, <2>3, HeadTailProperties
<1>6. ASSUME NEW h, NEW s, Stands(h, s), \A p \in Pcb : s[p_child(p)] = <<>>,
             s[pcbFree_h] # <<>>, NEW p, p = First(h, pcbFree_h)
      PROVE  /\ Stands(insertProcQ(allocPcb(h), readyQueue, p), Readied(s))
             /\ \A x \in Pcb : Readied(s)[p_child(x)] = <<>>
             /\ Readied(s)[pcbFree_h] = Tail(s[pcbFree_h])
             /\ Tail(s[pcbFree_h]) = Without(s[pcbFree_h], {p_list(p)})
  <2>1. p \in Pcb
    BY <1>3, <1>6, QueueRemoved, QueueHeads
  <2>2. \A x \in Pcb : p_sib(p) \notin ToSet(s[p_child(x)])
    BY <1>6 DEF ToSet
  <2>3. ~Linked(s, p_sib(p)) /\ s[p_child(p)] = <<>>
    BY <1>6, <2>1, <2>2, Parentless
  <2>4. /\ Stands(insertProcQ(allocPcb(h), readyQueue, p), Readied(s))
        /\ Tail(s[pcbFree_h]) = Without(s[pcbFree_h], {p_list(p)})
        /\ p = Head(s[pcbFree_h]).of
    BY <1>6, <2>3, ReadiedAre
  <2>5. Readied(s)[pcbFree_h] = Tail(s[pcbFree_h])
    BY <1>3, <2>1, <2>4 DEF Readied
  <2>6. \A x \in Pcb : Readied(s)[p_child(x)] = <<>>
    BY <1>3, <1>6, <2>1, <2>4 DEF Readied
  <2> QED
    BY <2>4, <2>5, <2>6
<1>7. /\ Stands(h1, s1) /\ (\A x \in Pcb : s1[p_child(x)] = <<>>)
      /\ s1[pcbFree_h] = Tail(f0) /\ Tail(f0) = Without(f0, {p_list(p1)})
  <2>1. \A x \in Pcb : s0[p_child(x)] = <<>>
    BY <1>3, <1>4
  <2>2. p1 = First(h0, pcbFree_h)
    BY <1>2, <1>3, <1>5, ListRead DEF First, p_list
  <2> HIDE DEF h0, p1
  <2> QED
    BY <1>2, <1>5, <1>6, <2>1, <2>2
<1>8. s1[pcbFree_h] # <<>> /\ Head(s1[pcbFree_h]) = p_list(p2)
  <2> DEFINE f1 == Tail(f0)
  <2>1. f1 \in Seq(list_head \ Heads)
    <3>1. s1[pcbFree_h] \in Seq(list_head \ Heads)
      <4>1. Stands(h1, s1)
        BY <1>7
      <4> HIDE DEF h1, s1
      <4> QED
        BY <1>3, <4>1, ListIs
    <3> QED
      BY <1>7, <3>1
  <2>2. Len(f1) # 0
    <3>1. Len(f1) = N - 1 /\ N \in Nat /\ N >= 2
      BY <1>3, <1>5
    <3> HIDE DEF f1, N
    <3> QED
      BY <3>1
  <2>3. f1[1] = p_list(p2) /\ s1[pcbFree_h] = f1
    BY <1>5, <1>7
  <2> HIDE DEF f1, s1
  <2>4. f1 # <<>> /\ Head(f1) = f1[1]
    BY <2>1, <2>2, HeadTailProperties
  <2> QED
    BY <2>3, <2>4
<1>9. /\ Stands(h2, s2) /\ (\A x \in Pcb : s2[p_child(x)] = <<>>)
      /\ s2[pcbFree_h] = Without(s1[pcbFree_h], {p_list(p2)})
  <2>1. p2 = First(h1, pcbFree_h)
    <3>1. h1.next[pcbFree_h] = Head(s1[pcbFree_h])
      <4>1. Stands(h1, s1) /\ s1[pcbFree_h] # <<>>
        BY <1>7, <1>8
      <4> HIDE DEF h1, s1
      <4> QED
        BY <1>3, <4>1, ListRead
    <3> QED
      BY <1>8, <3>1 DEF First, p_list
  <2> HIDE DEF h1, s1, p2
  <2> QED
    BY <1>6, <1>7, <1>8, <2>1, ZenonT(60)
<1>10. ~Free(s2, ssi_pcb)
  <2>1. ToSet(s1[pcbFree_h]) = ToSet(f0) \ {p_list(p1)}
    BY <1>5, <1>7, WithoutKeepsOthers
  <2>2. s1[pcbFree_h] \in Seq(list_head \ Heads)
    BY <1>3, <1>7, ListIs
  <2>3. ToSet(s2[pcbFree_h]) = ToSet(s1[pcbFree_h]) \ {p_list(p2)}
    BY <1>9, <2>2, WithoutKeepsOthers
  <2> HIDE DEF s1, s2
  <2> QED
    BY <1>3, <2>1, <2>3 DEF Free
<1> HIDE DEF s2, h2
<1>11. Tree(s2, p_parent)
  BY <1>1, <1>3, <1>9 DEF Tree, ToSet
<1>12. Acyclic(p_parent)
  BY <1>1, <1>3 DEF Acyclic
<1>13. Safe(heap, s2, p_parent, current_process)
  <2>1. Core(heap, s2, p_parent)
    BY <1>1, <1>3, <1>9, <1>10, <1>11, <1>12 DEF Core
  <2> QED
    BY <1>1, <2>1 DEF Safe
<1>14. DOMAIN s0 = Heads
  BY <1>2 DEF Filled
<1> QED
  BY <1>2, <1>13, <1>14 DEF s2

-----------------------------------------------------------------------------
(* The inductive invariant.                                                *)
ListsSound == Safe(heap, Contents(heap), p_parent, current_process)
IInv  == m_sender \in [Msg -> Pcb \cup {NULL}] /\ ListsSound

\* The lists of a memory are what its pointers go through.
LEMMA SoundIs ==
  ASSUME NEW h, NEW s, NEW par, NEW cur, Safe(h, s, par, cur)
  PROVE  s = Contents(h) /\ Safe(h, Contents(h), par, cur)
  BY ContentsAre, Tables DEF Safe, Core

\* main() establishes it.
LEMMA InitSound ==
  Init => IInv
<1> SUFFICES ASSUME Init PROVE IInv
  OBVIOUS
<1>1. PICK s : Safe(heap, s, p_parent, current_process)
  BY InitSafe
<1>2. ListsSound
  BY <1>1, SoundIs DEF ListsSound
<1>3. m_sender \in [Msg -> Pcb \cup {NULL}]
  BY DEF Init
<1> QED
  BY <1>2, <1>3 DEF IInv

\* Nothing but a PCB or NULL is ever a sender.
LEMMA SignedTyped ==
  ASSUME NEW senders \in [Msg -> Pcb \cup {NULL}], NEW s, NEW from \in Pcb
  PROVE  Signed(senders, s, from) \in [Msg -> Pcb \cup {NULL}]
  BY DEF Signed

\* Each handler and each service keeps the invariant.
LEMMA NextSound ==
  IInv /\ [Next]_vars => IInv'
<1> DEFINE s == Contents(heap)
           senders == [Msg -> Pcb \cup {NULL}]
<1> SUFFICES ASSUME IInv, [Next]_vars
             PROVE  m_sender' \in senders /\ \E t : Safe(heap', t, p_parent', current_process')
  <2> SUFFICES ASSUME NEW t, Safe(heap', t, p_parent', current_process')
               PROVE  Safe(heap', Contents(heap'), p_parent', current_process')
    BY DEF IInv, ListsSound, Contents
  <2> DEFINE g == heap'
             par == p_parent'
             cur == current_process'
  <2>1. Safe(g, t, par, cur)
    OBVIOUS
  <2> HIDE DEF g, par, cur
  <2>2. Safe(g, Contents(g), par, cur)
    BY <2>1, SoundIs
  <2> QED
    BY <2>2 DEF g, par, cur
<1>1. m_sender \in senders /\ Safe(heap, s, p_parent, current_process)
  BY DEF IInv, ListsSound
<1> HIDE DEF s
<1>2. ASSUME current_process = NULL, Schedules(heap), UNCHANGED <<p_parent, m_sender, blockedOnDevice>>
      PROVE  m_sender' \in senders /\ \E t : Safe(heap', t, p_parent', current_process')
  BY <1>1, <1>2, DispatchSafe
<1>3. CASE PLTHandler
  <2>1. UNCHANGED <<p_parent, m_sender>>
    BY <1>3 DEF PLTHandler
  <2> QED
    BY <1>1, <1>3, <2>1, PLTHandlerSafe
<1>4. CASE intervalTimerHandler
  <2>1. PICK x, t : /\ Awakening(x, s, t, Len(s[pseudoClockQueue])) /\ m_sender' = x.sender
                    /\ Safe(heap', Exited(t, current_process), p_parent, current_process')
    BY <1>1, <1>4, IntervalTimerSafe
  <2>2. x.sender \in senders
    BY <2>1 DEF Awakening, Held
  <2>3. p_parent' = p_parent
    BY <1>4 DEF intervalTimerHandler
  <2> QED
    BY <2>1, <2>2, <2>3
<1>5. ASSUME NEW d \in DevNo, deviceHandler(d)
      PROVE  m_sender' \in senders /\ \E t : Safe(heap', t, p_parent', current_process')
  <2>1. p_parent' = p_parent
    BY <1>5 DEF deviceHandler
  <2>2. PICK waiting : /\ m_sender' = m_sender \/ m_sender' = Signed(m_sender, s, ssi_pcb)
                       /\ Safe(heap', Exited(Finished(s, waiting), current_process), p_parent,
                               current_process')
    BY <1>1, <1>5, DeviceHandlerSafe
  <2>3. m_sender' \in senders
    BY <1>1, <2>2, SignedTyped, Tables
  <2> QED
    BY <2>1, <2>2, <2>3
<1>6. ASSUME NEW p \in Pcb, send(p)
      PROVE  m_sender' \in senders /\ \E t : Safe(heap', t, p_parent', current_process')
  <2>1. p_parent' = p_parent
    BY <1>6 DEF send
  <2>2. /\ Safe(heap', Sent(s, p, current_process), p_parent, current_process')
        /\ current_process \in Pcb /\ m_sender' = Signed(m_sender, s, current_process)
    BY <1>1, <1>6, SendSafe
  <2>3. m_sender' \in senders
    BY <1>1, <2>2, SignedTyped
  <2> QED
    BY <2>1, <2>2, <2>3
<1>7. ASSUME NEW p \in Pcb, createProcess(p)
      PROVE  m_sender' \in senders /\ \E t : Safe(heap', t, p_parent', current_process')
  BY <1>1, <1>7, CreateSafe
<1>8. ASSUME NEW p \in Pcb, terminateProcess(p)
      PROVE  m_sender' \in senders /\ \E t : Safe(heap', t, p_parent', current_process')
  <2>1. m_sender' = m_sender
    BY <1>8 DEF terminateProcess
  <2> QED
    BY <1>1, <1>8, <2>1, TerminateSafe
<1>9. ASSUME NEW p \in Pcb, wait4Clock(p)
      PROVE  m_sender' \in senders /\ \E t : Safe(heap', t, p_parent', current_process')
  <2>1. UNCHANGED <<p_parent, m_sender>>
    BY <1>9 DEF wait4Clock
  <2> QED
    BY <1>1, <1>9, <2>1, Wait4ClockSafe
<1>10. ASSUME NEW p \in Pcb, NEW d \in DevNo, doio(p, d)
       PROVE  m_sender' \in senders /\ \E t : Safe(heap', t, p_parent', current_process')
  <2>1. UNCHANGED <<p_parent, m_sender>>
    BY <1>10 DEF doio
  <2> QED
    BY <1>1, <1>10, <2>1, DoioSafe
<1>11. ASSUME NEW p \in Pcb \cup {NULL}, recv(p)
       PROVE  m_sender' \in senders /\ \E t : Safe(heap', t, p_parent', current_process')
  <2>1. UNCHANGED <<p_parent, m_sender>>
    BY <1>11 DEF recv
  <2>2. \E t : Safe(heap', t, p_parent, current_process')
    BY <1>1, <1>11, RecvSafe
  <2> QED
    BY <1>1, <2>1, <2>2
<1>12. CASE UNCHANGED vars
  BY <1>1, <1>12 DEF vars
<1> QED
  BY <1>2, <1>3, <1>4, <1>5, <1>6, <1>7, <1>8, <1>9, <1>10, <1>11, <1>12 DEF Next

\* At every moment the pointers hold lists that agree with p_parent, and the process
\* that runs is in no queue.
THEOREM AlwaysSound == Spec => []IInv
<1>1. Init => IInv
  BY InitSound
<1>2. IInv /\ [Next]_vars => IInv'
  BY NextSound
<1> QED
  BY <1>1, <1>2, PTL DEF Spec

-----------------------------------------------------------------------------
\* Every list of phase 1 comes back to its head both ways through the same elements,
\* whatever pointers freeMsg(), terminateProcess() and allocPcb() leave behind.
THEOREM RingsAlwaysWhole == Spec => []RingsWhole
<1>1. IInv => RingsWhole
  <2> SUFFICES ASSUME IInv, NEW l \in Lists
               PROVE  /\ Len(Elements(l)) < Cardinality(list_head)
                      /\ Walk(heap.prev, l) = Reverse(Elements(l))
    BY DEF RingsWhole
  <2>1. Stands(heap, Contents(heap))
    BY DEF IInv, ListsSound, Safe, Core
  <2>2. l \in Heads
    BY QueueHeads DEF Lists, InUse
  <2>3. /\ Walk(heap.next, l) = Contents(heap)[l] /\ Walk(heap.prev, l) = Reverse(Contents(heap)[l])
        /\ Len(Contents(heap)[l]) < Cardinality(list_head)
    BY <2>1, <2>2, Tables, ListRead
  <2> QED
    BY <2>3 DEF Elements
<1> QED
  BY <1>1, AlwaysSound, PTL

\* The lists of children and p_parent always tell the same tree, with no free PCB in it.
THEOREM TreeAlwaysAgrees == Spec => []TreeAgrees
<1>1. IInv => TreeAgrees
  <2> SUFFICES ASSUME IInv, NEW p \in Pcb, NEW c \in Pcb
               PROVE  /\ OnList(heap, p_sib(c), p_child(p)) <=> p_parent[c] = p
                      /\ p_parent[c] = p => ~IsFree(p) /\ ~IsFree(c)
    BY DEF TreeAgrees
  <2> DEFINE s == Contents(heap)
  <2>1. /\ Stands(heap, s) /\ Tree(s, p_parent)
        /\ p_parent[c] = p => ~Free(s, p) /\ ~Free(s, c)
    BY DEF IInv, ListsSound, Safe, Core
  <2> HIDE DEF s
  <2>2. OnList(heap, p_sib(c), p_child(p)) <=> p_sib(c) \in ToSet(s[p_child(p)])
    BY <2>1, QueueHeads, Tables, ListRead
  <2>3. \A x \in Pcb : IsFree(x) <=> Free(s, x)
    BY <2>1, QueueHeads, Tables, ListRead DEF IsFree, Queued, Free
  <2> QED
    BY <2>1, <2>2, <2>3 DEF Tree
<1> QED
  BY <1>1, AlwaysSound, PTL

-----------------------------------------------------------------------------
(* The pointers implement the sequences.                                   *)

\* What a sequence of one element has once another is added.
LEMMA AppendToOne ==
  ASSUME NEW S, NEW r \in Seq(S), NEW y \in S, Len(r) = 1
  PROVE  Append(r, y) \in Seq(S) /\ Len(Append(r, y)) = 2 /\ Append(r, y)[1] = r[1] /\ Append(r, y)[2] = y
<1>1. Append(r, y) \in Seq(S)
  BY AppendProperties
<1>2. Len(Append(r, y)) = Len(r) + 1
  BY AppendProperties
<1>3. \A i \in 1..Len(r) : Append(r, y)[i] = r[i]
  BY AppendProperties
<1>4. Append(r, y)[Len(r) + 1] = y
  BY AppendProperties
<1> DEFINE a == Append(r, y)
<1> HIDE DEF a
<1> QED
  BY <1>1, <1>2, <1>3, <1>4 DEF a

\* Two elements, the second added to the first.
LEMMA PairIs ==
  ASSUME NEW x, NEW y
  PROVE  Append(<<x>>, y) = <<x, y>>
<1> DEFINE S == {x, y}
           r == <<x>>
           a == Append(r, y)
           e == <<x, y>>
<1>1. r \in Seq(S) /\ Len(r) = 1 /\ r[1] = x /\ y \in S
  OBVIOUS
<1>2. e \in Seq(S) /\ Len(e) = 2 /\ e[1] = x /\ e[2] = y
  OBVIOUS
<1> HIDE DEF S, r, e
<1>3. a \in Seq(S) /\ Len(a) = 2 /\ a[1] = x /\ a[2] = y
  <2>1. r \in Seq(S) /\ y \in S /\ Len(r) = 1
    BY <1>1
  <2>2. Append(r, y) \in Seq(S) /\ Len(Append(r, y)) = 2 /\ Append(r, y)[1] = r[1] /\ Append(r, y)[2] = y
    BY <2>1, AppendToOne
  <2> QED
    BY <1>1, <2>2
<1> HIDE DEF a
<1>4. \A i \in 1..2 : a[i] = e[i]
  <2>1. \A i \in 1..2 : i = 1 \/ i = 2
    OBVIOUS
  <2> QED
    BY <1>2, <1>3, <2>1
<1>5. a = e
  BY <1>2, <1>3, <1>4, SeqEqual
<1> QED
  BY <1>5 DEF a, e, r

\* What main() finds and does.
LEMMA InitMatches ==
  ASSUME Init
  PROVE  Sequences!Init
<1> DEFINE N == Len(pcbTable)
           M == Len(msgTable)
           p1 == pcbTable[1]
           p2 == pcbTable[2]
<1>1. PICK s0 : LET s == Readied(Readied(s0))
                IN  /\ Safe(heap, s, p_parent, current_process)
                    /\ Len(s0[pcbFree_h]) = N
                    /\ \A i \in 1..N : s0[pcbFree_h][i] = p_list(pcbTable[i])
                    /\ Filled(s0, [Nothing EXCEPT ![pcbFree_h] = s0[pcbFree_h]], MsgsInTurn, msgFree_h, M)
                    /\ Stands(Initialised, s0) /\ DOMAIN s0 = Heads
  BY InitSafe
<1> DEFINE f0 == s0[pcbFree_h]
           s1 == Readied(s0)
           s2 == Readied(s1)
<1>2. /\ Stands(heap, s2) /\ Stands(Initialised, s0) /\ Len(f0) = N
      /\ \A i \in 1..N : f0[i] = p_list(pcbTable[i])
      /\ Filled(s0, [Nothing EXCEPT ![pcbFree_h] = f0], MsgsInTurn, msgFree_h, M)
  BY <1>1 DEF Safe, Core
<1> HIDE DEF f0
<1>3. /\ pcbTable \in Seq(Pcb) /\ N \in Nat /\ N >= 2 /\ 1 \in 1..N /\ 2 \in 1..N /\ p1 \in Pcb /\ p2 \in Pcb
      /\ \A i \in 1..N : pcbTable[i] \in Pcb
      /\ msgTable \in Seq(Msg) /\ M \in Nat /\ \A i \in 1..M : msgTable[i] \in Msg
      /\ DOMAIN pcbTable = 1..N /\ DOMAIN msgTable = 1..M
  <2>1. pcbTable \in Seq(Pcb) /\ msgTable \in Seq(Msg)
    BY ListsAssumption
  <2>2. N \in Nat /\ N >= 2 /\ M \in Nat /\ (\A i \in 1..N : pcbTable[i] \in Pcb)
        /\ \A i \in 1..M : msgTable[i] \in Msg
    BY InTurn
  <2>3. DOMAIN pcbTable = 1..N /\ DOMAIN msgTable = 1..M
    BY <2>1, LenProperties
  <2> HIDE DEF N
  <2>4. 1 \in 1..N /\ 2 \in 1..N
    BY <2>2
  <2> QED
    BY <2>1, <2>2, <2>3, <2>4
<1>4. f0 \in Seq(list_head) /\ s0[msgFree_h] \in Seq(list_head) /\ Owners(f0) = pcbTable
      /\ DOMAIN Owners(s0[msgFree_h]) = DOMAIN s0[msgFree_h]
  <2>1. /\ f0 \in Seq(list_head) /\ s0[msgFree_h] \in Seq(list_head)
        /\ DOMAIN Owners(f0) = DOMAIN f0 /\ DOMAIN f0 = 1..Len(f0)
        /\ \A i \in DOMAIN f0 : Owners(f0)[i] = f0[i].of
        /\ DOMAIN Owners(s0[msgFree_h]) = DOMAIN s0[msgFree_h]
        /\ Owners(f0) \in Seq(IF Field(pcbFree_h) = "m_list" THEN Msg ELSE Pcb)
    <3>1. \A l \in Heads :
            /\ s0[l] \in Seq(list_head)
            /\ DOMAIN Owners(s0[l]) = DOMAIN s0[l] /\ DOMAIN s0[l] = 1..Len(s0[l])
            /\ \A i \in DOMAIN s0[l] : Owners(s0[l])[i] = s0[l][i].of
            /\ Owners(s0[l]) \in Seq(IF Field(l) = "m_list" THEN Msg ELSE Pcb)
      BY <1>2, ListShown
    <3>2. pcbFree_h \in Heads /\ msgFree_h \in Heads
      BY QueueHeads
    <3> QED
      BY <3>1, <3>2 DEF f0
  <2>2. Field(pcbFree_h) = "p_list"
    BY QueueHeads, Fields
  <2> DEFINE o == Owners(f0)
  <2>3. o \in Seq(Pcb) /\ DOMAIN o = 1..N
    BY <1>2, <2>1, <2>2
  <2>4. \A i \in 1..N : o[i] = pcbTable[i]
    BY <1>2, <2>1 DEF p_list
  <2> HIDE DEF o, N
  <2>5. Len(o) = N
    BY <1>3, <2>3, LenProperties
  <2>6. o = pcbTable
    BY <1>3, <2>3, <2>4, <2>5, SeqEqual DEF N
  <2> QED
    BY <2>1, <2>6 DEF o
<1>5. Owners(s0[msgFree_h]) = Reverse(msgTable)
  <2> DEFINE o == Owners(s0[msgFree_h])
             r == s0[msgFree_h]
  <2>1. /\ Len(r) = M /\ \A i \in 1..M : r[i] = MsgsInTurn[(M - i) + 1]
    BY <1>2 DEF Filled
  <2>2. DOMAIN r = 1..M
    BY <1>4, <2>1, LenProperties
  <2>3. \A i \in 1..M : o[i] = msgTable[(M - i) + 1]
    <3> TAKE i \in 1..M
    <3>1. (M - i) + 1 \in 1..M
      BY <1>3
    <3>2. r[i] = m_list(msgTable[(M - i) + 1])
      BY <2>1, <3>1 DEF MsgsInTurn
    <3>3. o[i] = r[i].of
      BY <2>2 DEF Owners
    <3> QED
      BY <3>2, <3>3 DEF m_list
  <2>4. o = [i \in 1..M |-> o[i]]
    BY <2>2 DEF Owners
  <2> HIDE DEF o
  <2>5. o = [i \in 1..M |-> msgTable[(M - i) + 1]]
    BY <2>3, <2>4
  <2> QED
    BY <2>5 DEF Reverse, o
<1>6. \A l \in Heads : l # pcbFree_h /\ l # msgFree_h => s0[l] = <<>>
  <2>1. pcbFree_h \in Heads
    BY QueueHeads
  <2> QED
    BY <1>2, <2>1 DEF Filled, Nothing
<1>7. /\ Head(f0).of = p1 /\ Tail(f0) \in Seq(list_head) /\ Owners(Tail(f0)) = Tail(pcbTable)
      /\ Tail(f0) # <<>> /\ Head(Tail(f0)).of = p2
      /\ Owners(Tail(Tail(f0))) = SubSeq(pcbTable, 3, N)
  <2>1. f0 # <<>> /\ pcbTable # <<>>
    BY <1>2, <1>3, EmptySeq
  <2>2. Owners(Tail(f0)) = Tail(pcbTable) /\ Head(pcbTable) = Head(f0).of /\ Tail(f0) \in Seq(list_head)
    BY <1>4, <2>1, OwnersTaken, HeadTailProperties
  <2>3. /\ Head(pcbTable) = p1 /\ Tail(pcbTable) \in Seq(Pcb) /\ Len(Tail(pcbTable)) = N - 1
        /\ Len(Tail(f0)) = N - 1
        /\ \A i \in 1..Len(Tail(pcbTable)) : Tail(pcbTable)[i] = pcbTable[i + 1]
    BY <1>2, <1>3, <1>4, <2>1, HeadTailProperties
  <2>4. 1 \in 1..(N - 1) /\ N - 1 # 0 /\ N \in 2..N
    <3> HIDE DEF N
    <3> QED
      BY <1>3
  <2>5. Tail(f0) # <<>> /\ Tail(pcbTable) # <<>>
    BY <2>3, <2>4, EmptySeq
  <2>6. Tail(pcbTable)[1] = p2 /\ Head(Tail(pcbTable)) = Tail(pcbTable)[1]
    BY <2>3, <2>4, <2>5, HeadTailProperties
  <2>7. /\ Owners(Tail(Tail(f0))) = Tail(Owners(Tail(f0)))
        /\ Head(Owners(Tail(f0))) = Head(Tail(f0)).of
    <3> DEFINE f1 == Tail(f0)
    <3>1. f1 \in Seq(list_head) /\ f1 # <<>>
      BY <2>2, <2>5
    <3> HIDE DEF f1
    <3>2. Owners(Tail(f1)) = Tail(Owners(f1)) /\ Head(Owners(f1)) = Head(f1).of
      BY <3>1, OwnersTaken
    <3> QED
      BY <3>2 DEF f1
  <2>8. Tail(pcbTable) = SubSeq(pcbTable, 2, N)
    BY <1>3, <2>1, TailIsSubSeq
  <2>9. Tail(SubSeq(pcbTable, 2, N)) = SubSeq(pcbTable, 2 + 1, N)
    BY <1>3, <2>4, HeadTailOfSubSeq
  <2>10. Owners(Tail(Tail(f0))) = SubSeq(pcbTable, 3, N)
    <3>1. 2 + 1 = 3
      OBVIOUS
    <3> HIDE DEF N
    <3> QED
      BY <2>2, <2>7, <2>8, <2>9, <3>1
  <2>11. Head(Tail(f0)).of = p2
    BY <2>2, <2>6, <2>7
  <2> QED
    BY <2>2, <2>3, <2>5, <2>10, <2>11
<1> HIDE DEF s2
<1>8. /\ pcbFree_h \in Heads /\ readyQueue \in Heads /\ msgFree_h \in Heads /\ pcbFree_h # readyQueue
      /\ \A x \in Pcb : msg_inbox(x) \in Heads /\ msg_inbox(x) # pcbFree_h /\ msg_inbox(x) # msgFree_h
                        /\ msg_inbox(x) # readyQueue
      /\ pcbFree_h # msgFree_h /\ readyQueue # msgFree_h
  BY QueueHeads
<1>9. ASSUME NEW s, NEW p \in Pcb, p = Head(s[pcbFree_h]).of
      PROVE  \A l \in Heads : Readied(s)[l] = IF l = pcbFree_h THEN Tail(s[l])
                                              ELSE IF l = msg_inbox(p) THEN <<>>
                                              ELSE IF l = readyQueue THEN Append(s[l], p_list(p)) ELSE s[l]
  BY <1>8, <1>9 DEF Readied
<1>10. \A l \in Heads : s1[l] = IF l = pcbFree_h THEN Tail(f0)
                                ELSE IF l = readyQueue THEN <<p_list(p1)>>
                                ELSE IF l = msgFree_h THEN s0[l] ELSE <<>>
  <2>1. p1 = Head(s0[pcbFree_h]).of
    BY <1>7 DEF f0
  <2>2. Append(<<>>, p_list(p1)) = <<p_list(p1)>>
    OBVIOUS
  <2> HIDE DEF p1
  <2>3. \A l \in Heads : Readied(s0)[l] = IF l = pcbFree_h THEN Tail(s0[l])
                                          ELSE IF l = msg_inbox(p1) THEN <<>>
                                          ELSE IF l = readyQueue THEN Append(s0[l], p_list(p1)) ELSE s0[l]
    BY <1>3, <1>9, <2>1
  <2> QED
    BY <1>6, <1>8, <2>2, <2>3, <1>3 DEF f0
<1> HIDE DEF s1
<1>11. \A l \in Heads : s2[l] = IF l = pcbFree_h THEN Tail(Tail(f0))
                                ELSE IF l = readyQueue THEN <<p_list(p1), p_list(p2)>>
                                ELSE IF l = msgFree_h THEN s0[l] ELSE <<>>
  <2>1. p2 = Head(s1[pcbFree_h]).of
    <3>1. s1[pcbFree_h] = Tail(f0)
      BY <1>8, <1>10
    <3> HIDE DEF p2
    <3> QED
      BY <1>7, <3>1
  <2>2. Append(<<p_list(p1)>>, p_list(p2)) = <<p_list(p1), p_list(p2)>>
    BY PairIs
  <2> HIDE DEF p1, p2
  <2>3. \A l \in Heads : Readied(s1)[l] = IF l = pcbFree_h THEN Tail(s1[l])
                                          ELSE IF l = msg_inbox(p2) THEN <<>>
                                          ELSE IF l = readyQueue THEN Append(s1[l], p_list(p2)) ELSE s1[l]
    BY <1>3, <1>9, <2>1
  <2>4. \A l \in Heads : s2[l] = IF l = pcbFree_h THEN Tail(s1[l])
                                 ELSE IF l = msg_inbox(p2) THEN <<>>
                                 ELSE IF l = readyQueue THEN Append(s1[l], p_list(p2)) ELSE s1[l]
    BY <2>3 DEF s2
  <2> QED
    BY <1>3, <1>8, <1>10, <2>2, <2>4
<1>12. Owners(<<p_list(p1), p_list(p2)>>) = SubSeq(pcbTable, 1, 2) /\ Owners(<<>>) = <<>>
  <2>1. Owners(<<>>) = <<>>
    BY DEF Owners
  <2> DEFINE r == <<p_list(p1), p_list(p2)>>
             o == Owners(r)
             z == SubSeq(pcbTable, 1, 2)
  <2>2. o = <<p1, p2>>
    <3>1. DOMAIN r = 1..2 /\ r[1].of = p1 /\ r[2].of = p2
      BY DEF p_list
    <3>2. o = [i \in 1..2 |-> r[i].of]
      BY <3>1 DEF Owners
    <3> DEFINE e == <<p1, p2>>
    <3>3. e = [i \in 1..2 |-> e[i]] /\ e[1] = p1 /\ e[2] = p2
      OBVIOUS
    <3> HIDE DEF r, e, o
    <3>4. \A i \in 1..2 : r[i].of = e[i]
      BY <3>1, <3>3
    <3> QED
      BY <3>2, <3>3, <3>4 DEF e
  <2>3. z = <<p1, p2>>
    <3> DEFINE e == <<p1, p2>>
    <3>1. z \in Seq(Pcb) /\ Len(z) = 2 /\ \A i \in 1..2 : z[i] = pcbTable[i]
      <4>1. \A i \in 1..2 : pcbTable[i] \in Pcb
        BY <1>3
      <4>2. /\ z \in Seq(Pcb) /\ Len(z) = IF 1 <= 2 THEN (2 - 1) + 1 ELSE 0
            /\ \A i \in 1..(2 - 1) + 1 : z[i] = pcbTable[(1 + i) - 1]
        BY <4>1, SubSeqProperties
      <4> QED
        BY <4>2
    <3>2. e \in Seq(Pcb) /\ Len(e) = 2 /\ \A i \in 1..2 : e[i] = pcbTable[i]
      BY <1>3
    <3> HIDE DEF z, e
    <3>3. z = e
      BY <3>1, <3>2, SeqEqual
    <3> QED
      BY <3>3 DEF e
  <2> QED
    BY <2>1, <2>2, <2>3
<1>13. /\ Queues = QueuesOf(s2) /\ Children = ChildrenOf(s2) /\ Inboxes = InboxesOf(s2)
       /\ FreeMsgs = PoolOf(s2)
  BY <1>2, SeenNow
<1> HIDE DEF p1, p2
<1>14. /\ Owners(s2[pcbFree_h]) = SubSeq(pcbTable, 3, N) /\ Owners(s2[readyQueue]) = SubSeq(pcbTable, 1, 2)
       /\ Owners(s2[msgFree_h]) = Reverse(msgTable)
       /\ \A l \in Heads : l \notin {pcbFree_h, readyQueue, msgFree_h} => Owners(s2[l]) = <<>>
  BY <1>5, <1>7, <1>8, <1>11, <1>12
<1>15. /\ \A q \in ProcQ : head_of(q) \in Heads /\ head_of(q) # msgFree_h
       /\ pcbFree_h = head_of("pcbFree_h") /\ readyQueue = head_of("readyQueue")
       /\ "pcbFree_h" \in ProcQ /\ "readyQueue" \in ProcQ
       /\ \A x, y \in ProcQ : head_of(x) = head_of(y) => x = y
       /\ \A x \in Pcb : /\ p_child(x) \in Heads /\ msg_inbox(x) \in Heads
                         /\ p_child(x) \notin {pcbFree_h, readyQueue, msgFree_h}
                         /\ msg_inbox(x) \notin {pcbFree_h, readyQueue, msgFree_h}
  BY QueueHeads DEF head_of
<1>16. /\ Queues["pcbFree_h"] = SubSeq(pcbTable, 3, N) /\ Queues["readyQueue"] = SubSeq(pcbTable, 1, 2)
       /\ \A q \in ProcQ : q \notin {"pcbFree_h", "readyQueue"} => Queues[q] = <<>>
  BY <1>13, <1>14, <1>15 DEF QueuesOf
<1>17. Queues = [pcbFree_h |-> SubSeq(pcbTable, 3, N), readyQueue |-> SubSeq(pcbTable, 1, 2),
                 pseudoClockQueue |-> <<>>, blockedDiskQueue |-> <<>>]
  <2> DEFINE f == Queues
             a == SubSeq(pcbTable, 3, N)
             b == SubSeq(pcbTable, 1, 2)
  <2>1. f = [q \in ProcQ |-> f[q]]
    BY DEF Queues
  <2>2. /\ f["pcbFree_h"] = a /\ f["readyQueue"] = b
        /\ f["pseudoClockQueue"] = <<>> /\ f["blockedDiskQueue"] = <<>>
    BY <1>16 DEF ProcQ
  <2> HIDE DEF f, a, b
  <2>3. f = [pcbFree_h |-> a, readyQueue |-> b, pseudoClockQueue |-> <<>>, blockedDiskQueue |-> <<>>]
    BY <2>1, <2>2 DEF ProcQ
  <2> QED
    BY <2>3 DEF f, a, b
<1>18. Children = [p \in Pcb |-> <<>>] /\ Inboxes = [p \in Pcb |-> <<>>] /\ FreeMsgs = Reverse(msgTable)
  BY <1>13, <1>14, <1>15 DEF ChildrenOf, InboxesOf, PoolOf
<1>19. /\ Sequences!Pcb = Pcb /\ Sequences!Msg = Msg /\ Sequences!Reverse(msgTable) = Reverse(msgTable)
  BY SameOperators
<1>20. /\ p_parent = [p \in Pcb |-> NULL] /\ m_sender = [m \in Msg |-> NULL]
       /\ blockedOnDevice = [p \in Pcb |-> 0] /\ current_process = NULL
  BY DEF Init
<1> QED
  BY <1>17, <1>18, <1>19, <1>20 DEF Sequences!Init

\* A step of the pointers is a step of the sequences, or changes nothing of them.
LEMMA NextMatches ==
  IInv /\ [Next]_vars => [Sequences!Next]_(Sequences!vars)
<1> DEFINE s == Contents(heap)
<1> SUFFICES ASSUME IInv, [Next]_vars
             PROVE  [Sequences!Next]_(Sequences!vars)
  OBVIOUS
<1>1. m_sender \in [Msg -> Pcb \cup {NULL}] /\ Safe(heap, s, p_parent, current_process)
  BY DEF IInv, ListsSound
<1> HIDE DEF s
<1>2. Sequences!Pcb = Pcb
  BY SameOperators
<1>3. ASSUME current_process = NULL, Schedules(heap), UNCHANGED <<p_parent, m_sender, blockedOnDevice>>
      PROVE  Sequences!Next
  BY <1>1, <1>3, DispatchMatches DEF Sequences!Next
<1>4. CASE PLTHandler
  BY <1>1, <1>4, PreemptMatches DEF Sequences!Next
<1>5. CASE intervalTimerHandler
  BY <1>1, <1>5, TickMatches DEF Sequences!Next
<1>6. ASSUME NEW d \in DevNo, deviceHandler(d)
      PROVE  Sequences!Next
  BY <1>1, <1>6, DeviceMatches DEF Sequences!Next
<1>7. ASSUME NEW p \in Pcb, send(p)
      PROVE  Sequences!Next
  BY <1>1, <1>2, <1>7, SendMatches DEF Sequences!Next
<1>8. ASSUME NEW p \in Pcb, createProcess(p)
      PROVE  Sequences!Next
  BY <1>1, <1>2, <1>8, CreateMatches DEF Sequences!Next
<1>9. ASSUME NEW p \in Pcb, terminateProcess(p)
      PROVE  Sequences!Next
  BY <1>1, <1>2, <1>9, TerminateMatches DEF Sequences!Next
<1>10. ASSUME NEW p \in Pcb, wait4Clock(p)
       PROVE  Sequences!Next
  BY <1>1, <1>2, <1>10, WaitForClockMatches DEF Sequences!Next
<1>11. ASSUME NEW p \in Pcb, NEW d \in DevNo, doio(p, d)
       PROVE  Sequences!Next
  BY <1>1, <1>2, <1>11, WaitForDeviceMatches DEF Sequences!Next
<1>12. ASSUME NEW p \in Pcb \cup {NULL}, recv(p)
       PROVE  Sequences!Next
  BY <1>1, <1>2, <1>12, ReceiveMatches DEF Sequences!Next
<1>13. CASE UNCHANGED vars
  <2>1. UNCHANGED <<heap, p_parent, m_sender, blockedOnDevice, current_process>>
    BY <1>13 DEF vars
  <2>2. Stands(heap, s) /\ Stands(heap', s)
    BY <1>1, <2>1 DEF Safe, Core
  <2>3. /\ Queues' = Queues /\ Children' = Children /\ Inboxes' = Inboxes /\ FreeMsgs' = FreeMsgs
    BY <2>2, SeenNow, SeenNext
  <2> QED
    BY <2>1, <2>3 DEF Sequences!vars
<1> QED
  BY <1>3, <1>4, <1>5, <1>6, <1>7, <1>8, <1>9, <1>10, <1>11, <1>12, <1>13 DEF Next

\* What the handlers and services do to the pointers is what AbstractLists does to
\* sequences: every operation of phase 1 does its whole job and nothing else.
THEOREM ListsImplementSequences == Spec => ImplementsSequences
<1>1. Init => Sequences!Init
  BY InitMatches
<1>2. IInv /\ [Next]_vars => [Sequences!Next]_(Sequences!vars)
  BY NextMatches
<1> QED
  BY <1>1, <1>2, AlwaysSound, PTL DEF Spec, ImplementsSequences, Sequences!Spec
=============================================================================
