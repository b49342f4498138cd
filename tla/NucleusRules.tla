---------------------------- MODULE NucleusRules -----------------------------
(***************************************************************************)
(* Theorems about Nucleus, for any number of PCBs, devices and messages:   *)
(* processes that keep the rules of section "Discipline" keep RuleInv, and *)
(* so CallInv.  It follows that every call is answered once and by its own *)
(* answer, that a process on a device queue has an operation to wait for,  *)
(* that no list is ever broken, that a system of callers never stops, and  *)
(* that the nucleus implements ServiceCalls.                               *)
(***************************************************************************)
EXTENDS NucleusCalls, NucleusRefinement

\* A step that begins no call of q, and does not wake it in the middle of one.
OldCall(q) ==
  /\ Open(q)'   => Open(q) /\ Wish(q)' = Wish(q)
  /\ InCall(q)' => InCall(q) /\ Wish(q)' = Wish(q)
GoesOn(q) ==
  /\ OldCall(q) /\ ~Parked(q)
  /\ InCall(q)' /\ IsReady(q)' => Answered(q)'

\* A call nothing happens to is an old one ...
LEMMA StaysOld == ASSUME NEW q, Stays(q) PROVE OldCall(q)
BY StaysPhased DEF OldCall

\* A call on its way is not open any more; a process in no call has none.
LEMMA PhaseClosed ==
  ASSUME NEW p
  PROVE  /\ Idle(p) \/ Departed(p) => ~InCall(p) /\ ~Open(p)
         /\ Replied(p) \/ Queued(p) \/ Answered(p) => ~Open(p)
         /\ Open(p) => InCall(p)
BY DEF Idle, Departed, Replied, Queued, Answered, Open, Pending, Served, InCall, Calm,
       Serving, Running, OnItsQueue, SoftBlocked, OnDevice, Lines

\* ... and so is one that has been served.
LEMMA ClosedOld ==
  ASSUME NEW p
  PROVE  /\ Idle(p)' \/ Departed(p)' => ~Open(p)' /\ ~InCall(p)' /\ OldCall(p)
         /\ Replied(p)' \/ Queued(p)' \/ Answered(p)' =>
              ~Open(p)' /\ (InCall(p) /\ Wish(p)' = Wish(p) => OldCall(p))
<1>1. /\ Idle(p)' \/ Departed(p)' => ~InCall(p)' /\ ~Open(p)'
      /\ Replied(p)' \/ Queued(p)' \/ Answered(p)' => ~Open(p)'
  BY DEF Idle, Departed, Replied, Queued, Answered, Open, Pending, Served, InCall, Calm,
         Serving, Running, OnItsQueue, SoftBlocked, OnDevice, Lines
<1> QED
  BY <1>1 DEF OldCall

\* Who parks in no call parks on, unless it is dispatched or linked.
LEMMA ParkedStays ==
  ASSUME NEW q \in Clients, Parked(q), Stays(q), q # current_process', ~IsReady(q)'
  PROVE  Parked(q)'
<1>1. q # current_process /\ ~IsFree(q) /\ ~SoftBlocked(q) /\ ~Awaits(q)
      /\ p_s[q].op = "receive"
  BY DEF Parked, Linked
<1>2. p_s'[q] = p_s[q]
  BY <1>1 DEF Stays, ControlOf
<1> QED
  BY <1>1, <1>2, StaysPhased DEF Parked, Linked, Stays

\* The victims of an open call are clients.
LEMMA DoomedClients ==
  ASSUME TypeInv, SSIStands, DoomInv, NEW p \in Clients, Open(p)
  PROVE  /\ Ends(p, Wish(p)) \subseteq Clients
         /\ \A q \in Doomed(p) : q \in Clients /\ Parked(q)
<1>1. \A v \in Clients : Subtree(v) \subseteq Clients
  BY SSIOutside, SubtreeClosed, ClientFacts DEF SSIStands, TypeInv, Clients
<1>2. Ends(p, Wish(p)) \subseteq Clients
  <2>1. CASE Wish(p).service = "TERMPROCESS" /\ Wish(p).arg = NULL
    BY <2>1, <1>1 DEF Ends
  <2>2. CASE Wish(p).service = "TERMPROCESS" /\ Wish(p).arg # NULL
    <3>1. Wish(p).arg \in Clients
      BY <2>2 DEF DoomInv, Foreseen
    <3> QED
      BY <3>1, <2>2, <1>1 DEF Ends
  <2>3. CASE Wish(p).service = "INVALID"
    BY <2>3, <1>1 DEF Ends
  <2>4. CASE Wish(p).service \notin {"TERMPROCESS", "INVALID"}
    BY <2>4 DEF Ends
  <2> QED
    BY <2>1, <2>2, <2>3, <2>4
<1> QED
  BY <1>2 DEF DoomInv, Foreseen, Doomed

\* What a caller has made sure of remains while nobody is born and nobody dies, and
\* its victims sleep.
LEMMA ForeseenKept ==
  ASSUME TypeInv, SSIStands, DoomInv, UNCHANGED p_parent,
         NEW p \in Clients, Open(p), Wish(p)' = Wish(p),
         \A q \in Clients : q \in Doomed(p) /\ Parked(q) => Parked(q)'
  PROVE  Foreseen(p)'
<1>1. Doomed(p)' = Doomed(p)
  BY DEF Doomed, Ends, Subtree
<1>2. \A q \in Doomed(p) : Parked(q)'
  BY DoomedClients
<1> QED
  BY <1>1, <1>2 DEF DoomInv, Foreseen

\* The invariant of the rules outlives every step that creates and kills nobody,
\* begins no call, and wakes nobody that is in a call or to be killed.
LEMMA CareKept ==
  ASSUME TypeInv, SSIStands, CareInv, UNCHANGED procs,
         \A q \in Clients : Stays(q) \/ GoesOn(q),
         \A q \in Clients : Stays(q) /\ IsReady(q)' /\ InCall(q) => IsReady(q),
         \A p, q \in Clients : Open(p) /\ q \in Doomed(p) /\ Parked(q) =>
                             q # current_process' /\ ~IsReady(q)'
  PROVE  CareInv'
<1>1. UNCHANGED <<pcbFree_h, p_parent>>
  BY DEF procs
<1>2. \A q \in Clients : OldCall(q)
  BY StaysOld DEF GoesOn
<1>3. RestInv'
  BY StaysPhased DEF RestInv, CareInv, GoesOn
<1>4. BirthInv'
  <2>1. Births' \subseteq Births /\ Births \in SUBSET Pcb
    BY <1>2, CallSetsFinite DEF Births, OldCall
  <2>2. Cardinality(Births') <= Cardinality(Births) /\ Cardinality(Births') \in Nat
    BY <2>1, CallSetsFinite, FS_Subset
  <2>3. Cardinality(pcbFree_h) \in Nat /\ Cardinality(Births) \in Nat
    BY <2>1, CallSetsFinite DEF TypeInv, Procs
  <2> QED
    BY <2>2, <2>3, <1>1 DEF CareInv, BirthInv
<1>5. DoomInv'
  <2> SUFFICES ASSUME NEW p \in Clients, Open(p)' PROVE Foreseen(p)'
    BY DEF DoomInv
  <2>1. Open(p) /\ Wish(p)' = Wish(p)
    BY <1>2 DEF OldCall
  <2>2. \A q \in Clients : q \in Doomed(p) /\ Parked(q) => Parked(q)'
    BY <2>1, ParkedStays DEF GoesOn
  <2> QED
    BY <2>1, <2>2, <1>1, ForeseenKept DEF CareInv
<1>6. TreeInv'
  BY <1>1 DEF CareInv, TreeInv
<1>7. RivalInv'
  BY <1>2 DEF CareInv, RivalInv, OldCall
<1> QED
  BY <1>3, <1>4, <1>5, <1>6, <1>7 DEF CareInv

\* In particular, a step that readies or dispatches only who goes on or was ready.
LEMMA CareQuiet ==
  ASSUME TypeInv, SSIStands, CareInv, UNCHANGED procs,
         \A q \in Clients : Stays(q) \/ GoesOn(q),
         \A q \in Clients : Stays(q) =>
            /\ IsReady(q)' => IsReady(q)
            /\ q = current_process' => q = current_process \/ IsReady(q)
  PROVE  CareInv'
<1>1. \A p, q \in Clients : Open(p) /\ q \in Doomed(p) /\ Parked(q) =>
                             q # current_process' /\ ~IsReady(q)'
  BY DEF GoesOn, Parked, Linked
<1> QED
  BY <1>1, CareKept

\* Who waits for a device goes on waiting for a device at work.
LEMMA BusyKept ==
  ASSUME BusyInv, UNCHANGED dev, \A q \in Clients : Stays(q) \/ Lines(q)' = {}
  PROVE  BusyInv'
BY StaysPhased DEF BusyInv, Stays

\* The dispatched process was ready, and nobody becomes ready on the way.
LEMMA SchedulerReady ==
  ASSUME NEW ready \in Seq(Pcb), Scheduler(ready), NEW q \in Pcb, q \notin ToSet(ready)
  PROVE  q # current_process' /\ ~IsReady(q)'
<1>1. CASE ready # <<>>
  <2>1. Head(ready) \in ToSet(ready) /\ ToSet(ready) = ToSet(Tail(ready)) \cup {Head(ready)}
    BY <1>1, HeadTaken
  <2>2. current_process' = Head(ready) /\ readyQueue' = Tail(ready)
    BY <1>1 DEF Scheduler
  <2> QED
    BY <2>1, <2>2 DEF IsReady
<1>2. CASE ready = <<>>
  BY <1>2, ClientFacts DEF Scheduler, IsReady, ToSet
<1> QED
  BY <1>1, <1>2

\* exitInterruptHandler() readies nobody, nor gives the CPU to who is not ready.
LEMMA ExitInterruptReady ==
  ASSUME NEW ready \in Seq(Pcb), ExitInterrupt(ready), NEW q \in Pcb, q \notin ToSet(ready)
  PROVE  (q = current_process' => q = current_process) /\ ~IsReady(q)'
BY SchedulerReady DEF ExitInterrupt, IsReady

\* Room for all who may take a message or lose one.
PoolRoom == Cardinality(Takers) + Cardinality(Leavers) <= Cardinality(Pcb)

\* At most one process both may take a message and loses its answer: the one the SSI
\* is at work for.
LEMMA PoolBound == CallInv => PoolRoom
<1> SUFFICES ASSUME CallInv
             PROVE  Cardinality(Takers) + Cardinality(Leavers) <= Cardinality(Pcb)
  BY DEF PoolRoom
<1>1. /\ IsFiniteSet(Takers) /\ IsFiniteSet(Leavers) /\ IsFiniteSet(Takers \cap Leavers)
      /\ IsFiniteSet(Takers \cup Leavers) /\ IsFiniteSet(Pcb)
      /\ Cardinality(Takers) \in Nat /\ Cardinality(Leavers) \in Nat
      /\ Cardinality(Pcb) \in Nat
  BY CallSetsFinite, FS_Union, FS_Intersection, NucleusAssumption
<1>2. Cardinality(Takers \cap Leavers) <= 1
  <2>1. ASSUME NEW p \in Takers \cap Leavers
        PROVE  p = cpu.who
    <3>1. Asked(p) = {} /\ (Departed(p) \/ Pending(p) \/ Served(p))
      BY DEF Takers, Leavers, Open
    <3>2. Departed(p) \/ Served(p)
      BY <3>1 DEF Pending
    <3>3. Work(p) # Running
      BY <3>2 DEF Departed, Served, Serving, Running
    <3> QED
      BY <3>3 DEF Work
  <2>2. Takers \cap Leavers \subseteq {cpu.who}
    BY <2>1
  <2>3. IsFiniteSet({cpu.who}) /\ Cardinality({cpu.who}) = 1
    BY FS_Singleton
  <2> QED
    BY <2>2, <2>3, FS_Subset
<1>3. Cardinality(Takers \cup Leavers) <= Cardinality(Pcb) - 1
  <2>1. Takers \cup Leavers \subseteq Pcb \ {ssi_pcb}
    BY DEF Takers, Leavers, Clients
  <2>2. IsFiniteSet(Pcb \ {ssi_pcb}) /\ Cardinality(Pcb \ {ssi_pcb}) = Cardinality(Pcb) - 1
    BY NucleusAssumption, FS_RemoveElement
  <2> QED
    BY <2>1, <2>2, FS_Subset
<1>4. Cardinality(Takers \cup Leavers) =
        Cardinality(Takers) + Cardinality(Leavers) - Cardinality(Takers \cap Leavers)
  BY <1>1, FS_Union
<1>5. Cardinality(Takers \cup Leavers) \in Nat /\ Cardinality(Takers \cap Leavers) \in Nat
  BY <1>1, FS_CardinalityType
<1> QED
  BY <1>1, <1>2, <1>3, <1>4, <1>5

\* Messages taken for clients that may take one; a message lost with its reader; a
\* message given back by its reader; and a pool that has more than all can take.
LEMMA PoolSpends ==
  ASSUME TypeInv, TypeInv', PoolInv, NEW K \in SUBSET Takers,
         Takers' \subseteq Takers \ K, Leavers' \subseteq Leavers,
         msgFree' >= msgFree - Cardinality(K)
  PROVE  PoolInv'
<1>1. /\ IsFiniteSet(Takers) /\ IsFiniteSet(Leavers) /\ IsFiniteSet(K)
      /\ Cardinality(Takers) \in Nat /\ Cardinality(Leavers) \in Nat /\ Cardinality(K) \in Nat
  BY CallSetsFinite
<1>2. Cardinality(Takers \ K) = Cardinality(Takers) - Cardinality(K)
  <2>1. Takers \cap K = K
    OBVIOUS
  <2> QED
    BY <1>1, <2>1, FS_Difference
<1>3. Cardinality(Takers') <= Cardinality(Takers \ K) /\ Cardinality(Takers') \in Nat
  BY <1>1, FS_Subset, FS_Difference, FS_CardinalityType
<1>4. Cardinality(Leavers') <= Cardinality(Leavers) /\ Cardinality(Leavers') \in Nat
  BY <1>1, FS_Subset, FS_CardinalityType
<1> QED
  BY <1>1, <1>2, <1>3, <1>4 DEF PoolInv, TypeInv, Msgs

\* A descriptor may go with a process whose answer is lost ...
LEMMA PoolLoses ==
  ASSUME TypeInv, TypeInv', PoolInv, NEW p \in Leavers,
         Takers' \subseteq Takers, Leavers' \subseteq Leavers \ {p},
         msgFree' >= msgFree - 1
  PROVE  PoolInv'
<1>1. /\ IsFiniteSet(Takers) /\ IsFiniteSet(Leavers)
      /\ Cardinality(Takers) \in Nat /\ Cardinality(Leavers) \in Nat
  BY CallSetsFinite
<1>2. /\ IsFiniteSet(Leavers \ {p})
      /\ Cardinality(Leavers \ {p}) = Cardinality(Leavers) - 1
  BY <1>1, FS_RemoveElement
<1>3. Cardinality(Takers') <= Cardinality(Takers) /\ Cardinality(Takers') \in Nat
  BY <1>1, FS_Subset, FS_CardinalityType
<1>4. Cardinality(Leavers') <= Cardinality(Leavers \ {p}) /\ Cardinality(Leavers') \in Nat
  BY <1>2, FS_Subset, FS_CardinalityType
<1> QED
  BY <1>1, <1>2, <1>3, <1>4 DEF PoolInv, TypeInv, Msgs

\* ... one that comes back makes room for one more taker ...
LEMMA PoolGains ==
  ASSUME TypeInv, TypeInv', PoolInv, NEW p,
         Takers' \subseteq Takers \cup {p}, Leavers' \subseteq Leavers,
         msgFree' = msgFree + 1
  PROVE  PoolInv'
<1>1. /\ IsFiniteSet(Takers) /\ IsFiniteSet(Leavers)
      /\ Cardinality(Takers) \in Nat /\ Cardinality(Leavers) \in Nat
  BY CallSetsFinite
<1>2. /\ IsFiniteSet(Takers \cup {p})
      /\ Cardinality(Takers \cup {p}) <= Cardinality(Takers) + 1
      /\ Cardinality(Takers \cup {p}) \in Nat
  <2>1. /\ IsFiniteSet(Takers \cup {p})
        /\ Cardinality(Takers \cup {p}) =
             IF p \in Takers THEN Cardinality(Takers) ELSE Cardinality(Takers) + 1
    BY <1>1, FS_AddElement
  <2> QED
    BY <2>1, <1>1
<1>3. Cardinality(Takers') <= Cardinality(Takers \cup {p}) /\ Cardinality(Takers') \in Nat
  BY <1>2, FS_Subset, FS_CardinalityType
<1>4. Cardinality(Leavers') <= Cardinality(Leavers) /\ Cardinality(Leavers') \in Nat
  BY <1>1, FS_Subset, FS_CardinalityType
<1> QED
  BY <1>1, <1>2, <1>3, <1>4 DEF PoolInv, TypeInv, Msgs

\* ... and a pool with a descriptor per PCB has room whatever the calls.
LEMMA PoolRich ==
  ASSUME TypeInv', CallInv', msgFree' >= Cardinality(Pcb)
  PROVE  PoolInv'
<1>1. Cardinality(Takers') + Cardinality(Leavers') <= Cardinality(Pcb)
  <2>1. PoolRoom'
    BY PoolBound, PTL
  <2> QED
    BY <2>1 DEF PoolRoom
<1>2. /\ Cardinality(Pcb) \in Nat /\ msgFree' \in Nat
      /\ Cardinality(Takers') \in Nat /\ Cardinality(Leavers') \in Nat
  <2>1. Takers' \in SUBSET Pcb /\ Leavers' \in SUBSET Pcb
    BY ClientFacts DEF Takers, Leavers
  <2> QED
    BY <2>1, CallSetsFinite, NucleusAssumption DEF TypeInv, Msgs
<1> QED
  BY <1>1, <1>2 DEF PoolInv

\* Who may take a message and who will lose one, by the phase of its call.
LEMMA PoolPhase ==
  ASSUME NEW p \in Clients
  PROVE  /\ Stays(p) => (p \in Takers' <=> p \in Takers) /\ (p \in Leavers' <=> p \in Leavers)
         /\ Idle(p) \/ Departed(p) \/ Served(p) \/ Replied(p) \/ Queued(p) => p \in Takers
         /\ Pending(p) \/ Answered(p) => p \notin Takers
         /\ Pending(p)' \/ Answered(p)' => p \notin Takers'
         /\ Idle(p)' \/ Replied(p)' \/ Queued(p)' \/ Answered(p)' => p \notin Leavers'
         /\ Departed(p) => p \in Leavers
<1>1. Stays(p) => (p \in Takers' <=> p \in Takers) /\ (p \in Leavers' <=> p \in Leavers)
  BY StaysPhased DEF Takers, Leavers, Stays
<1>2. /\ Idle(p) \/ Departed(p) \/ Served(p) \/ Replied(p) \/ Queued(p) => p \in Takers
      /\ Departed(p) => p \in Leavers
  BY DEF Idle, Departed, Served, Replied, Queued, Calm, Takers, Leavers
<1>3. /\ Pending(p) \/ Answered(p) => p \notin Takers
      /\ Pending(p)' \/ Answered(p)' => p \notin Takers'
  BY DEF Pending, Answered, Takers
<1>4. Idle(p)' \/ Replied(p)' \/ Queued(p)' \/ Answered(p)' => p \notin Leavers'
  BY DEF Idle, Departed, Replied, Queued, Answered, Open, Pending, Served, InCall, Calm,
         Serving, Running, OnItsQueue, SoftBlocked, OnDevice, Lines, Leavers
<1> QED
  BY <1>1, <1>2, <1>3, <1>4
-----------------------------------------------------------------------------
(* The rules through interrupts *)

\* What a client waits for is a request.
LEMMA WishType ==
  ASSUME TypeInv, NEW p \in Clients
  PROVE  Wish(p) \in Payload
BY ClientFacts DEF Wish, ControlOf, TypeInv, CPU, Saved, AtWork, AtRest, Control

\* A service and its argument are the request.
LEMMA SameRequest ==
  ASSUME NEW r \in Payload, NEW s \in Payload,
         r.service = s.service, r.arg = s.arg
  PROVE  r = s
BY DEF Payload

\* Who is on a device queue waits for one device.
LEMMA LinesTell ==
  ASSUME PlaceInv, CallInv, NEW p \in Clients, Lines(p) # {}
  PROVE  /\ Queued(p) /\ InCall(p)
         /\ Wish(p).service = "DOIO" /\ Wish(p).arg \in Device
         /\ Lines(p) = {Wish(p).arg.line} /\ blockedOnDevice[p] = Wish(p).arg.no
<1>1. SoftBlocked(p) /\ ~OnClock(p)
  BY ClientFacts DEF Lines, SoftBlocked, OnDevice, PlaceInv, Settled, OnClock
<1>2. Queued(p)
  BY <1>1, PhaseOf DEF CallInv
<1> QED
  BY <1>1, <1>2 DEF Queued, OnItsQueue

\* Nobody takes a message without having given one.
LEMMA PoolQuiet ==
  ASSUME TypeInv, TypeInv', PoolInv, msgFree' >= msgFree,
         \A q \in Clients : Stays(q) \/ (q \in Takers /\ (q \in Leavers' => q \in Leavers))
  PROVE  PoolInv'
<1>1. Takers' \subseteq Takers /\ Leavers' \subseteq Leavers
  BY PoolPhase DEF Takers, Leavers
<1>2. {} \in SUBSET Takers /\ Cardinality({}) = 0 /\ Takers' \subseteq Takers \ {}
  BY <1>1, FS_EmptySet
<1>3. msgFree' >= msgFree - Cardinality({})
  BY <1>2 DEF TypeInv, Msgs
<1> QED
  BY <1>1, <1>2, <1>3, PoolSpends

\* One client's phase changes on a message of the pool.
LEMMA PoolSpendsOne ==
  ASSUME TypeInv, TypeInv', PoolInv, msgFree' >= msgFree - 1,
         NEW p \in Clients, p \in Takers, p \notin Takers', p \notin Leavers',
         \A q \in Clients \ {p} : Stays(q)
  PROVE  PoolInv'
<1>1. Takers' \subseteq Takers \ {p} /\ Leavers' \subseteq Leavers
  BY PoolPhase DEF Takers, Leavers
<1>2. {p} \in SUBSET Takers /\ Cardinality({p}) = 1
  BY FS_Singleton
<1>3. msgFree' >= msgFree - Cardinality({p})
  BY <1>2
<1> QED
  BY <1>1, <1>2, <1>3, PoolSpends

\* An interrupt that nobody waits for.
LEMMA DismissRules ==
  ASSUME TypeInv, TypeInv', PlaceInv, SSIStands, CallInv, RuleInv, NEW d \in Device, Dismiss(d)
  PROVE  RuleInv'
<1>1. \A q \in Clients : Stays(q)
  BY DismissMoves DEF TypeInv, CPU, CallInv
<1>2. /\ UNCHANGED procs /\ msgFree' >= msgFree /\ ExitInterrupt(readyQueue)
      /\ readyQueue \in Seq(Pcb) /\ dev' = [dev EXCEPT ![d] = "idle"] /\ Waiters(d) = {}
  BY DEF Dismiss, msgs, TypeInv, CPU, Msgs
<1>3. CareInv'
  <2>1. \A q \in Clients : /\ IsReady(q)' => IsReady(q)
                           /\ q = current_process' => q = current_process \/ IsReady(q)
    BY <1>2, ExitInterruptReady, ClientFacts DEF IsReady
  <2> QED
    BY <2>1, <1>1, <1>2, CareQuiet DEF RuleInv
<1>4. PoolInv'
  BY <1>1, <1>2, PoolQuiet DEF RuleInv
<1>5. BusyInv'
  <2> SUFFICES ASSUME NEW q \in Clients, Lines(q)' # {} PROVE (dev[Wish(q).arg] # "idle")'
    BY DEF BusyInv
  <2>1. Lines(q) # {} /\ Wish(q)' = Wish(q)
    BY <1>1, StaysPhased DEF Stays
  <2>2. /\ Wish(q).arg \in Device /\ q \in ToSet(blockedQueue[Wish(q).arg.line])
        /\ blockedOnDevice[q] = Wish(q).arg.no /\ dev[Wish(q).arg] # "idle"
    BY <2>1, LinesTell DEF RuleInv, BusyInv, Lines
  <2>3. Wish(q).arg # d
    BY <2>2, <1>2 DEF Waiters, ToSet
  <2> QED
    BY <2>1, <2>2, <2>3, <1>2 DEF TypeInv, Devs
<1> QED
  BY <1>3, <1>4, <1>5 DEF RuleInv

\* A device at work has completed.
LEMMA DeviceCompletesRules ==
  ASSUME TypeInv, TypeInv', PlaceInv, SSIStands, CallInv, RuleInv, NEW d \in Device,
         DeviceCompletes(d)
  PROVE  RuleInv'
<1>1. /\ UNCHANGED <<procs, readyQueue, queues, msgs, current_process, cpu, p_s>>
      /\ dev'[d] # "idle" /\ \A e \in Device \ {d} : dev'[e] = dev[e]
      /\ msgFree' >= msgFree
  BY DEF DeviceCompletes, TypeInv, Devs, Msgs, msgs
<1>2. \A q \in Clients : Stays(q)
  BY <1>1, QuietMoves DEF CallInv
<1>3. CareInv'
  BY <1>1, <1>2, CareQuiet DEF RuleInv, IsReady
<1>4. PoolInv'
  BY <1>1, <1>2, PoolQuiet DEF RuleInv
<1>5. BusyInv'
  <2> SUFFICES ASSUME NEW q \in Clients, Lines(q)' # {} PROVE (dev[Wish(q).arg] # "idle")'
    BY DEF BusyInv
  <2>1. Lines(q) # {} /\ Wish(q)' = Wish(q)
    BY <1>2, StaysPhased DEF Stays
  <2>2. Wish(q).arg \in Device /\ dev[Wish(q).arg] # "idle"
    BY <2>1, LinesTell DEF RuleInv, BusyInv
  <2> QED
    BY <2>1, <2>2, <1>1
<1> QED
  BY <1>3, <1>4, <1>5 DEF RuleInv

\* The waiting process is told its status: nobody else wants that device.
LEMMA CompleteRules ==
  ASSUME TypeInv, TypeInv', PlaceInv, SSIStands, CallInv, RuleInv, NEW d \in Device,
         Complete(d)
  PROVE  RuleInv'
<1>1. PICK w \in Clients :
        /\ w = Waiter(d) /\ Queued(w) /\ Lines(w) # {} /\ Wish(w) = Status(d)
        /\ Answered(w)' /\ InCall(w)' /\ Wish(w)' = Wish(w)
        /\ \A p \in Clients \ {w} : Stays(p)
  BY CompleteMoves
<1>2. /\ UNCHANGED procs /\ msgFree' = msgFree - 1 /\ dev' = [dev EXCEPT ![d] = "idle"]
      /\ ExitInterrupt(insertProcQ(readyQueue, w))
  BY <1>1 DEF Complete
<1>3. /\ insertProcQ(readyQueue, w) \in Seq(Pcb)
      /\ ToSet(insertProcQ(readyQueue, w)) = ToSet(readyQueue) \cup {w}
  BY <1>1, AppendAdds, ClientFacts DEF insertProcQ, TypeInv, CPU
<1>4. CareInv'
  <2>1. \A q \in Clients \ {w} :
          /\ IsReady(q)' => IsReady(q)
          /\ q = current_process' => q = current_process \/ IsReady(q)
    BY <1>2, <1>3, ExitInterruptReady, ClientFacts DEF IsReady
  <2>2. ~Parked(w) /\ InCall(w)
    <3>1. SoftBlocked(w) /\ InCall(w)
      BY <1>1 DEF Queued, Lines, SoftBlocked, OnDevice
    <3> QED
      BY <3>1 DEF Parked, Linked
  <2>3. GoesOn(w)
    BY <1>1, <2>2, ClosedOld DEF GoesOn
  <2>4. ~Stays(w)
    BY <1>1, PoolPhase
  <2> QED
    BY <2>1, <2>3, <2>4, <1>1, <1>2, CareQuiet DEF RuleInv
<1>5. PoolInv'
  BY <1>1, <1>2, PoolPhase, PoolSpendsOne DEF RuleInv, TypeInv, Msgs
<1>6. BusyInv'
  <2> SUFFICES ASSUME NEW q \in Clients, Lines(q)' # {} PROVE (dev[Wish(q).arg] # "idle")'
    BY DEF BusyInv
  <2>1. q # w
    BY <1>1 DEF Answered, SoftBlocked, OnDevice, Lines
  <2>2. Lines(q) # {} /\ Wish(q)' = Wish(q)
    BY <1>1, <2>1, StaysPhased DEF Stays
  <2>3. /\ Wish(q).arg \in Device /\ Wish(q).service = "DOIO" /\ InCall(q)
        /\ dev[Wish(q).arg] # "idle"
    BY <2>2, LinesTell DEF RuleInv, BusyInv
  <2>4. ASSUME Wish(q).arg = d PROVE FALSE
    <3>1. InCall(w) /\ Wish(w).service = "DOIO" /\ Wish(w).arg = d
      BY <1>1 DEF Queued, Status
    <3>2. Wish(q) = Wish(w)
      BY <2>3, <2>4, <3>1, WishType, SameRequest
    <3> QED
      BY <2>1, <2>3, <3>1, <3>2 DEF RuleInv, CareInv, RivalInv
  <2> QED
    BY <2>2, <2>3, <2>4, <1>2 DEF TypeInv, Devs
<1> QED
  BY <1>4, <1>5, <1>6 DEF RuleInv

\* At a tick every process on the pseudo-clock queue takes a message and is ready.
LEMMA TimerInterruptRules ==
  ASSUME TypeInv, TypeInv', PlaceInv, SSIStands, CallInv, RuleInv, TimerInterrupt, ~Break
  PROVE  RuleInv'
<1>1. \A q \in Clients :
        IF OnClock(q) THEN Queued(q) /\ Answered(q)' /\ InCall(q)' /\ Wish(q)' = Wish(q)
                      ELSE Stays(q)
  BY TimerInterruptMoves
<1>2. /\ UNCHANGED <<procs, dev>> /\ msgFree' = msgFree - Len(pseudoClockQueue)
      /\ ExitInterrupt(readyQueue \o pseudoClockQueue)
  BY DEF TimerInterrupt
<1>3. /\ readyQueue \o pseudoClockQueue \in Seq(Pcb)
      /\ ToSet(readyQueue \o pseudoClockQueue) = ToSet(readyQueue) \cup ToSet(pseudoClockQueue)
      /\ pseudoClockQueue \in Seq(Pcb) /\ IsInjective(pseudoClockQueue)
  BY ConcatAdds DEF TypeInv, CPU, Queues, PlaceInv, Settled
<1>4. CareInv'
  <2>1. \A q \in Clients : ~OnClock(q) =>
          /\ IsReady(q)' => IsReady(q)
          /\ q = current_process' => q = current_process \/ IsReady(q)
    BY <1>2, <1>3, ExitInterruptReady, ClientFacts DEF IsReady, OnClock
  <2>2. \A q \in Clients : OnClock(q) => GoesOn(q) /\ ~Stays(q)
    <3> SUFFICES ASSUME NEW q \in Clients, OnClock(q) PROVE GoesOn(q) /\ ~Stays(q)
      OBVIOUS
    <3>1. ~Parked(q) /\ InCall(q)
      BY <1>1 DEF Parked, Linked, SoftBlocked, Queued
    <3> QED
      BY <1>1, <3>1, ClosedOld, PoolPhase DEF GoesOn
  <2> QED
    BY <2>1, <2>2, <1>1, <1>2, CareQuiet DEF RuleInv
<1>5. PoolInv'
  <2> DEFINE K == ToSet(pseudoClockQueue)
  <2>1. /\ K \subseteq Clients /\ \A q \in K : OnClock(q)
        /\ \A q \in Clients \ K : ~OnClock(q)
    <3>1. K \subseteq Pcb
      BY <1>3 DEF ToSet
    <3> QED
      BY <3>1, ClientFacts DEF SSIStands, SoftBlocked, OnClock
  <2>2. /\ \A q \in K : q \in Takers /\ q \notin Takers' /\ q \notin Leavers'
        /\ \A q \in Clients \ K : Stays(q)
    BY <2>1, <1>1, PoolPhase
  <2>3. K \in SUBSET Takers /\ Takers' \subseteq Takers \ K /\ Leavers' \subseteq Leavers
    BY <2>1, <2>2, PoolPhase DEF Takers, Leavers
  <2>4. Cardinality(K) = Len(pseudoClockQueue)
    BY <1>3, LengthCounts
  <2>5. msgFree' >= msgFree - Cardinality(K)
    BY <1>2, <2>4, <1>3 DEF TypeInv, Msgs
  <2> HIDE DEF K
  <2> QED
    BY <2>3, <2>5, PoolSpends DEF RuleInv
<1>6. BusyInv'
  BY <1>1, <1>2, BusyKept DEF RuleInv, Answered, SoftBlocked, OnDevice, Lines
<1> QED
  BY <1>4, <1>5, <1>6 DEF RuleInv
-----------------------------------------------------------------------------
(* The rules through the steps of the processes *)

\* A process wants a message outside a call.
LEMMA WantMessageRules ==
  ASSUME TypeInv, TypeInv', PlaceInv, SSIStands, CallInv, RuleInv, WantMessage
  PROVE  RuleInv'
<1>1. PICK p \in Clients :
        /\ p = current_process /\ Idle(p) /\ Idle(p)'
        /\ \A q \in Clients \ {p} : Stays(q)
  BY WantMessageMoves
<1>2. /\ UNCHANGED <<procs, readyQueue, current_process, dev>> /\ msgFree' >= msgFree
  BY DEF WantMessage, msgs, TypeInv, Msgs
<1>3. GoesOn(p)
  BY <1>1, ClosedOld DEF GoesOn, Parked, Idle
<1>4. CareInv'
  BY <1>1, <1>2, <1>3, CareQuiet DEF RuleInv, IsReady
<1>5. PoolInv'
  BY <1>1, <1>2, PoolPhase, PoolQuiet DEF RuleInv
<1>6. BusyInv'
  BY <1>1, <1>2, BusyKept DEF RuleInv, Idle, Calm, SoftBlocked, OnDevice, Lines
<1> QED
  BY <1>4, <1>5, <1>6 DEF RuleInv

\* A receive gives a message back to the pool, or the CPU away.
LEMMA ReceiveRules ==
  ASSUME TypeInv, TypeInv', PlaceInv, SSIStands, CallInv, RuleInv, Receive
  PROVE  RuleInv'
<1>1. ClientTakes \/ SSITakes \/ NobodyTakes
  BY ReceiveMoves
<1>2. CASE ClientTakes
  <2>1. PICK p \in Clients :
          /\ p = current_process /\ (Answered(p) \/ Idle(p))
          /\ Idle(p)' /\ \A q \in Clients \ {p} : Stays(q)
    BY <1>2 DEF ClientTakes
  <2>2. UNCHANGED <<procs, readyQueue, current_process, dev>> /\ msgFree' = msgFree + 1
    BY <1>2 DEF ClientTakes
  <2>3. GoesOn(p)
    BY <1>2, <2>1, ClosedOld DEF GoesOn, Parked, Idle, ClientTakes
  <2>4. CareInv'
    BY <2>1, <2>2, <2>3, CareQuiet DEF RuleInv, IsReady
  <2>5. PoolInv'
    <3>1. Takers' \subseteq Takers \cup {p} /\ Leavers' \subseteq Leavers
      BY <2>1, PoolPhase DEF Takers, Leavers
    <3> QED
      BY <3>1, <2>2, PoolGains DEF RuleInv
  <2>6. BusyInv'
    BY <2>1, <2>2, BusyKept DEF RuleInv, Idle, Calm, SoftBlocked, OnDevice, Lines
  <2> QED
    BY <2>4, <2>5, <2>6 DEF RuleInv
<1>3. CASE SSITakes
  <2>1. PICK p \in Clients :
          /\ Pending(p) /\ Served(p)' /\ Wish(p)' = Wish(p)
          /\ \A q \in Clients \ {p} : Stays(q)
    BY <1>3 DEF SSITakes
  <2>2. UNCHANGED <<procs, readyQueue, current_process, dev>> /\ msgFree' = msgFree + 1
    BY <1>3 DEF SSITakes
  <2>3. InCall(p) /\ Open(p) /\ ~Answered(p)
    BY <2>1 DEF Pending, Open, Answered
  <2>4. GoesOn(p)
    <3>1. ~Parked(p) /\ ~IsReady(p)
      BY <2>3 DEF Parked, InCall, RuleInv, CareInv, RestInv
    <3> QED
      BY <2>1, <2>2, <2>3, <3>1 DEF GoesOn, OldCall, IsReady
  <2>5. CareInv'
    BY <2>1, <2>2, <2>4, CareQuiet DEF RuleInv, IsReady
  <2>6. PoolInv'
    <3>1. p \in Leavers' => p \in Leavers
      BY <2>1, <2>3 DEF Leavers, Served, Departed, InCall
    <3>2. Takers' \subseteq Takers \cup {p} /\ Leavers' \subseteq Leavers
      BY <2>1, <3>1, PoolPhase DEF Takers, Leavers
    <3> QED
      BY <3>2, <2>2, PoolGains DEF RuleInv
  <2>7. BusyInv'
    BY <2>1, <2>2, BusyKept DEF RuleInv, Served, Calm, SoftBlocked, OnDevice, Lines
  <2> QED
    BY <2>5, <2>6, <2>7 DEF RuleInv
<1>4. CASE NobodyTakes
  <2>1. /\ UNCHANGED <<procs, dev>> /\ msgFree' >= msgFree /\ Scheduler(readyQueue)
        /\ readyQueue \in Seq(Pcb) /\ \A q \in Clients : Stays(q)
    BY <1>4 DEF NobodyTakes, msgs, TypeInv, Msgs, CPU
  <2>2. \A q \in Clients : /\ IsReady(q)' => IsReady(q)
                           /\ q = current_process' => IsReady(q)
    BY <2>1, SchedulerReady, ClientFacts DEF IsReady
  <2>3. CareInv'
    BY <2>1, <2>2, CareQuiet DEF RuleInv
  <2>4. PoolInv'
    BY <2>1, PoolQuiet DEF RuleInv
  <2>5. BusyInv'
    BY <2>1, BusyKept DEF RuleInv
  <2> QED
    BY <2>3, <2>4, <2>5 DEF RuleInv
<1> QED
  BY <1>1, <1>2, <1>3, <1>4

\* The caller of an open call is neither ready nor parked.
LEMMA OpenSleeps ==
  ASSUME RestInv, NEW p \in Clients, Open(p)
  PROVE  InCall(p) /\ ~IsReady(p) /\ ~Parked(p) /\ ~SoftBlocked(p) /\ ~Answered(p)
<1>1. InCall(p) /\ ~SoftBlocked(p) /\ ~Answered(p)
  BY DEF Open, Pending, Served, Calm, Answered, Serving, Running
<1> QED
  BY <1>1 DEF RestInv, Parked, InCall

\* The caller of doio() leaves the SSI for the queue of its device, which is busy now.
LEMMA DoIORules ==
  ASSUME TypeInv, TypeInv', PlaceInv, SSIStands, CallInv, RuleInv,
         NEW p, NEW r, ServesCall(p, r), DoIO(p, r), ~Break
  PROVE  RuleInv'
<1>1. /\ p \in Clients /\ Served(p) /\ Wish(p) = r /\ r.arg \in Device
      /\ Queued(p)' /\ InCall(p)' /\ Wish(p)' = r
      /\ \A q \in Clients \ {p} : Stays(q)
  BY DoIOMoves DEF ServesCall, ServesAnother, Serves, NamesDevice, DoIO
<1>2. /\ UNCHANGED <<procs, current_process>> /\ msgFree' >= msgFree
      /\ readyQueue' = Without(readyQueue, {p}) /\ dev' = [dev EXCEPT ![r.arg] = "busy"]
  BY DEF DoIO, msgs, TypeInv, Msgs
<1>3. \A q \in Pcb : IsReady(q)' => IsReady(q) /\ q # p
  BY <1>2, WithoutKeepsOthers DEF IsReady, TypeInv, CPU
<1>4. GoesOn(p)
  BY <1>1, <1>3, ClosedOld, ClientFacts, OpenSleeps DEF GoesOn, Open, RuleInv, CareInv
<1>5. CareInv'
  BY <1>1, <1>2, <1>3, <1>4, ClientFacts, CareQuiet DEF RuleInv
<1>6. PoolInv'
  BY <1>1, <1>2, PoolPhase, PoolQuiet DEF RuleInv
<1>7. BusyInv'
  <2> SUFFICES ASSUME NEW q \in Clients, Lines(q)' # {} PROVE (dev[Wish(q).arg] # "idle")'
    BY DEF BusyInv
  <2>1. CASE q = p
    BY <2>1, <1>1, <1>2 DEF TypeInv, Devs
  <2>2. CASE q # p
    <3>1. Lines(q) # {} /\ Wish(q)' = Wish(q)
      BY <2>2, <1>1, StaysPhased DEF Stays
    <3>2. Wish(q).arg \in Device /\ dev[Wish(q).arg] # "idle"
      BY <3>1, LinesTell DEF RuleInv, BusyInv
    <3> QED
      BY <3>1, <3>2, <1>1, <1>2 DEF TypeInv, Devs
  <2> QED
    BY <2>1, <2>2
<1> QED
  BY <1>5, <1>6, <1>7 DEF RuleInv

\* The caller of wait4Clock() leaves the SSI for the pseudo-clock queue.
LEMMA WaitForClockRules ==
  ASSUME TypeInv, TypeInv', PlaceInv, SSIStands, CallInv, RuleInv,
         NEW p, NEW r, ServesCall(p, r), WaitForClock(p, r), ~Break
  PROVE  RuleInv'
<1>1. /\ p \in Clients /\ Served(p) /\ Wish(p) = r
      /\ Queued(p)' /\ InCall(p)' /\ Wish(p)' = r
      /\ \A q \in Clients \ {p} : Stays(q)
  BY WaitForClockMoves DEF ServesCall
<1>2. /\ UNCHANGED <<procs, readyQueue, blockedQueue, current_process, dev>>
      /\ msgFree' >= msgFree
  BY DEF WaitForClock, msgs, TypeInv, Msgs
<1>3. GoesOn(p) /\ ~SoftBlocked(p)
  BY <1>1, <1>2, ClosedOld, OpenSleeps DEF GoesOn, Open, RuleInv, CareInv, IsReady
<1>4. CareInv'
  BY <1>1, <1>2, <1>3, CareQuiet DEF RuleInv, IsReady
<1>5. PoolInv'
  BY <1>1, <1>2, PoolPhase, PoolQuiet DEF RuleInv
<1>6. BusyInv'
  BY <1>1, <1>2, <1>3, BusyKept DEF RuleInv, SoftBlocked, OnDevice, Lines
<1> QED
  BY <1>4, <1>5, <1>6 DEF RuleInv

\* The caller of an inquiry is to be answered.
LEMMA InquireRules ==
  ASSUME TypeInv, TypeInv', PlaceInv, SSIStands, CallInv, RuleInv,
         NEW p, NEW r, ServesCall(p, r), Inquire(p, r), ~Break
  PROVE  RuleInv'
<1>1. /\ p \in Clients /\ Served(p) /\ Wish(p) = r
      /\ Replied(p)' /\ InCall(p)' /\ Wish(p)' = r
      /\ UNCHANGED <<procs, readyQueue, queues, msgs, current_process, p_s, dev>>
      /\ \A q \in Clients \ {p} : Stays(q)
  BY InquireMoves DEF ServesCall
<1>2. UNCHANGED <<procs, readyQueue, current_process, dev>> /\ msgFree' >= msgFree
  BY <1>1 DEF msgs, TypeInv, Msgs
<1>3. GoesOn(p)
  BY <1>1, <1>2, ClosedOld, OpenSleeps DEF GoesOn, Open, RuleInv, CareInv, IsReady
<1>4. CareInv'
  BY <1>1, <1>2, <1>3, CareQuiet DEF RuleInv, IsReady
<1>5. PoolInv'
  BY <1>1, <1>2, PoolPhase, PoolQuiet DEF RuleInv
<1>6. BusyInv'
  BY <1>1, <1>2, BusyKept DEF RuleInv, Replied, Calm, SoftBlocked, OnDevice, Lines
<1> QED
  BY <1>4, <1>5, <1>6 DEF RuleInv

\* The answer is in its caller's inbox, or is lost with it.
LEMMA ReplyRules ==
  ASSUME TypeInv, TypeInv', PlaceInv, SSIStands, CallInv, RuleInv, Reply, ~Break
  PROVE  RuleInv'
<1>1. UNCHANGED <<procs, current_process, dev>> /\ msgFree \in Nat
  BY ReplyMoves DEF RuleInv, TypeInv, Msgs
<1>2. PICK p \in Clients :
        /\ \/ /\ Departed(p) /\ Idle(p)' /\ UNCHANGED readyQueue
              /\ (PoolEmpty /\ msgFree' = msgFree) \/ msgFree' = msgFree - 1
           \/ /\ Replied(p) /\ Answered(p)' /\ InCall(p)' /\ Wish(p)' = Wish(p)
              /\ msgFree' = msgFree - 1 /\ p \in Takers
              /\ readyQueue' = readyQueue \/ readyQueue' = insertProcQ(readyQueue, p)
        /\ \A q \in Clients \ {p} : Stays(q)
  BY ReplyMoves DEF RuleInv
<1>3. CASE Departed(p) /\ Idle(p)' /\ UNCHANGED readyQueue
  <2>1. IsFree(p) /\ msgFree' >= msgFree - 1
    BY <1>1, <1>2, <1>3 DEF Departed, Replied, InCall
  <2>2. GoesOn(p)
    BY <1>3, <2>1, ClosedOld DEF GoesOn, Parked, Linked, Idle
  <2>3. CareInv'
    BY <1>1, <1>2, <1>3, <2>2, CareQuiet DEF RuleInv, IsReady
  <2>4. PoolInv'
    <3>1. p \in Takers /\ p \in Leavers /\ p \notin Leavers'
      BY <1>3, PoolPhase
    <3>2. Takers' \subseteq Takers /\ Leavers' \subseteq Leavers \ {p}
      BY <3>1, <1>2, PoolPhase DEF Takers, Leavers
    <3> QED
      BY <3>1, <3>2, <2>1, PoolLoses DEF RuleInv
  <2>5. BusyInv'
    BY <1>1, <1>2, <1>3, BusyKept DEF RuleInv, Idle, Calm, SoftBlocked, OnDevice, Lines
  <2> QED
    BY <2>3, <2>4, <2>5 DEF RuleInv
<1>4. CASE /\ Replied(p) /\ Answered(p)' /\ InCall(p)' /\ Wish(p)' = Wish(p)
           /\ msgFree' = msgFree - 1 /\ p \in Takers
           /\ readyQueue' = readyQueue \/ readyQueue' = insertProcQ(readyQueue, p)
  <2>1. \A q \in Clients \ {p} : IsReady(q)' => IsReady(q)
    <3>1. ToSet(insertProcQ(readyQueue, p)) = ToSet(readyQueue) \cup {p}
      BY AppendAdds, ClientFacts DEF insertProcQ, TypeInv, CPU
    <3> QED
      BY <3>1, <1>4 DEF IsReady
  <2>2. p \notin Takers' /\ p \notin Leavers' /\ ~Stays(p)
    BY <1>4, PoolPhase
  <2>3. GoesOn(p)
    BY <1>4, ClosedOld DEF GoesOn, Parked, Replied, InCall
  <2>4. CareInv'
    BY <1>1, <1>2, <2>1, <2>2, <2>3, CareQuiet DEF RuleInv
  <2>5. PoolInv'
    BY <1>1, <1>2, <1>4, <2>2, PoolSpendsOne DEF RuleInv
  <2>6. BusyInv'
    BY <1>1, <1>2, <1>4, BusyKept DEF RuleInv, Answered, SoftBlocked, OnDevice, Lines
  <2> QED
    BY <2>4, <2>5, <2>6 DEF RuleInv
<1> QED
  BY <1>2, <1>3, <1>4

\* What a request names.
LEMMA RequestNames ==
  ASSUME SSISpared, NEW r \in Requests
  PROVE  /\ r.service = "CREATEPROCESS" => r.arg = NULL
         /\ r.service = "TERMPROCESS" /\ r.arg # NULL => r.arg \in Clients
BY NucleusAssumption DEF Requests, SSISpared, Clients

\* While nothing happens to the tree the same processes are to end.
LEMMA SameEnds ==
  ASSUME UNCHANGED p_parent, NEW p, NEW r
  PROVE  Ends(p, r)' = Ends(p, r) /\ Subtree(p)' = Subtree(p)
BY DEF Ends, Subtree

\* A prudent request: a PCB or a message is there for the call, the device is
\* nobody else's, and whoever is to be killed besides the caller sleeps.
LEMMA RequestRules ==
  ASSUME Prudent = TRUE, SSISpared, TypeInv, TypeInv', PlaceInv, SSIStands,
         CallInv, CallInv', RuleInv, Request, ~Break
  PROVE  RuleInv'
<1>1. PICK p \in Clients, r \in Requests :
        /\ p = current_process /\ PrudentRequest(r)
        /\ Idle(p) /\ Pending(p)' /\ Wish(p)' = r
        /\ msgFree' = msgFree - 1 /\ p \in Takers
        /\ \A q \in Clients \ {p} : Stays(q)
  BY RequestMoves DEF RuleInv
<1>2. /\ UNCHANGED <<pcbFree_h, p_parent, current_process, dev>> /\ msgFree \in Nat
      /\ \A q \in Clients : IsReady(q)' => IsReady(q)
  <2>1. /\ UNCHANGED <<pcbFree_h, p_parent, current_process, dev>> /\ msgFree \in Nat
        /\ readyQueue' \in {readyQueue, insertProcQ(readyQueue, ssi_pcb)}
    BY DEF Request, Send, procs, TypeInv, Msgs
  <2>2. ToSet(insertProcQ(readyQueue, ssi_pcb)) = ToSet(readyQueue) \cup {ssi_pcb}
    BY AppendAdds, ClientFacts DEF insertProcQ, TypeInv, CPU
  <2> QED
    BY <2>1, <2>2, ClientFacts DEF IsReady
<1>3. ~Open(p) /\ ~InCall(p) /\ ~IsReady(p) /\ r \in Payload /\ p \notin Takers'
  BY <1>1, PhaseClosed, WishType, RequestsSound, PoolPhase, ClientFacts
  DEF PlaceInv, Settled, IsReady, ClientRuns
<1>4. \A q \in Clients : Parked(q) => Parked(q)'
  <2> SUFFICES ASSUME NEW q \in Clients, Parked(q) PROVE Parked(q)'
    OBVIOUS
  <2>1. q # current_process /\ ~IsReady(q)
    BY DEF Parked, Linked
  <2> QED
    BY <2>1, <1>1, <1>2, ParkedStays
<1>5. RestInv'
  BY <1>1, <1>2, <1>3, StaysPhased DEF RuleInv, CareInv, RestInv
<1>6. BirthInv'
  <2>1. \A q \in Clients \ {p} : q \in Births' => q \in Births
    BY <1>1, StaysPhased DEF Births
  <2>2. /\ IsFiniteSet(Births) /\ Cardinality(Births) \in Nat /\ Births \in SUBSET Clients
        /\ Cardinality(pcbFree_h) \in Nat /\ Cardinality(Births) <= Cardinality(pcbFree_h)
    BY CallSetsFinite DEF RuleInv, CareInv, BirthInv, TypeInv, Procs, Births
  <2>3. CASE r.service # "CREATEPROCESS"
    <3>1. Births' \subseteq Births
      BY <2>1, <2>3, <1>1 DEF Births
    <3>2. Cardinality(Births') <= Cardinality(Births) /\ Cardinality(Births') \in Nat
      BY <3>1, <2>2, FS_Subset, FS_CardinalityType
    <3> QED
      BY <3>2, <2>2, <1>2 DEF BirthInv
  <2>4. CASE r.service = "CREATEPROCESS"
    <3>1. Births \subseteq Outstanding(r)
      <4> SUFFICES ASSUME NEW q \in Births PROVE q \in Outstanding(r)
        OBVIOUS
      <4>1. InCall(q) /\ q \in Clients /\ Wish(q).service = "CREATEPROCESS" /\ Foreseen(q)
        BY OpenSleeps DEF Births, RuleInv, CareInv, DoomInv
      <4>2. Wish(q) = r
        BY <4>1, <2>4, <1>3, RequestNames, WishType, SameRequest DEF Foreseen
      <4> QED
        BY <4>1, <4>2, ClientFacts DEF Outstanding, InCall, Wish, IsFree
    <3>2. Cardinality(Births) <= Cardinality(Outstanding(r)) /\ Cardinality(Outstanding(r)) \in Nat
      <4>1. Outstanding(r) \in SUBSET Pcb
        BY DEF Outstanding
      <4> QED
        BY <4>1, <3>1, CallSetsFinite, FS_Subset
    <3>3. Cardinality(Outstanding(r)) < Cardinality(pcbFree_h)
      BY <1>1, <2>4 DEF PrudentRequest
    <3>4. Births' \subseteq Births \cup {p}
      BY <2>1 DEF Births
    <3>5. /\ IsFiniteSet(Births \cup {p})
          /\ Cardinality(Births \cup {p}) =
               IF p \in Births THEN Cardinality(Births) ELSE Cardinality(Births) + 1
      BY <2>2, FS_AddElement
    <3>6. Cardinality(Births') <= Cardinality(Births) + 1 /\ Cardinality(Births') \in Nat
      BY <3>4, <3>5, <2>2, FS_Subset, FS_CardinalityType
    <3> QED
      BY <3>2, <3>3, <3>6, <2>2, <1>2 DEF BirthInv
  <2> QED
    BY <2>3, <2>4
<1>7. DoomInv'
  <2>1. ASSUME NEW q \in Clients \ {p}, Open(q)' PROVE Foreseen(q)'
    <3>1. Open(q) /\ Wish(q)' = Wish(q)
      BY <2>1, <1>1, StaysPhased
    <3> QED
      BY <3>1, <1>2, <1>4, ForeseenKept DEF RuleInv, CareInv
  <2>2. Foreseen(p)'
    <3>1. /\ r.service = "CREATEPROCESS" => r.arg = NULL
          /\ r.service = "TERMPROCESS" /\ r.arg # NULL => r.arg \in Clients /\ p_parent[r.arg] = p
          /\ r.service = "GETPROCESSID" /\ r.arg # NULL => p_parent[p] # NULL
      BY <1>1, RequestNames DEF PrudentRequest
    <3>2. \A q \in Ends(p, r) \ {p} : q \in Clients /\ Parked(q)
      <4>1. \A v \in Clients : Subtree(v) \subseteq Clients
        BY SSIOutside, SubtreeClosed, ClientFacts DEF SSIStands, TypeInv, Clients
      <4>2. CASE r.service = "TERMPROCESS" /\ r.arg # NULL
        BY <4>1, <4>2, <3>1, <1>1 DEF Ends, PrudentRequest, SafeToKill
      <4>3. CASE r.service = "TERMPROCESS" /\ r.arg = NULL
        BY <4>1, <4>3, <1>1 DEF Ends, PrudentRequest, SafeToKill
      <4>4. CASE r.service = "INVALID"
        BY <4>1, <4>4, <1>1 DEF Ends, PrudentRequest, SafeToKill
      <4>5. CASE r.service \notin {"TERMPROCESS", "INVALID"}
        BY <4>5 DEF Ends
      <4> QED
        BY <4>2, <4>3, <4>4, <4>5
    <3>3. Doomed(p)' = Ends(p, r) \ {p}
      BY <1>1, <1>2, SameEnds DEF Doomed
    <3> QED
      BY <3>1, <3>2, <3>3, <1>1, <1>2, <1>4 DEF Foreseen
  <2> QED
    BY <2>1, <2>2 DEF DoomInv
<1>8. TreeInv'
  BY <1>2 DEF RuleInv, CareInv, TreeInv
<1>9. RivalInv'
  <2>1. \A q \in Clients : InCall(q) /\ Wish(q) = r => r.service # "DOIO"
    BY <1>1, ClientFacts DEF InCall, Wish, Outstanding, PrudentRequest, IsFree
  <2> QED
    BY <2>1, <1>1, StaysPhased DEF RuleInv, CareInv, RivalInv
<1>10. PoolInv'
  <2>1. CASE r = Suicide
    <3>1. msgFree > Cardinality(Pcb)
      BY <1>1, <2>1 DEF PrudentRequest, Suicide, SpareMessages
    <3>2. msgFree' >= Cardinality(Pcb)
      BY <3>1, <1>1, <1>2, NucleusAssumption, FS_CardinalityType
    <3> QED
      BY <3>2, PoolRich
  <2>2. CASE r # Suicide
    <3>1. p \notin Leavers'
      BY <1>1, <2>2 DEF Leavers, Pending, Departed, InCall
    <3> QED
      BY <3>1, <1>1, <1>2, <1>3, PoolSpendsOne DEF RuleInv
  <2> QED
    BY <2>1, <2>2
<1>11. BusyInv'
  BY <1>1, <1>2, BusyKept DEF RuleInv, Pending, SoftBlocked, OnDevice, Lines
<1> QED
  BY <1>5, <1>6, <1>7, <1>8, <1>9, <1>10, <1>11 DEF RuleInv, CareInv

\* A message to a process in no call that nobody is about to kill.
LEMMA SendMessageRules ==
  ASSUME Prudent = TRUE, TypeInv, TypeInv', PlaceInv, SSIStands, CallInv, CallInv', RuleInv,
         SendMessage, ~Break
  PROVE  RuleInv'
<1>1. /\ \A q \in Clients : Stays(q)
      /\ msgFree > Cardinality(Pcb) /\ msgFree' = msgFree - 1
  BY SendMessageMoves
<1>2. PICK dest \in Clients :
        /\ PrudentSend(dest)
        /\ readyQueue' = readyQueue \/ readyQueue' = insertProcQ(readyQueue, dest)
  BY SendMessageMoves
<1>3. UNCHANGED <<procs, current_process, dev>> /\ cpu.op = "run"
  BY DEF SendMessage, ClientRuns
<1>4. \A q \in Clients : IsReady(q)' => IsReady(q) \/ q = dest
  <2>1. ToSet(insertProcQ(readyQueue, dest)) = ToSet(readyQueue) \cup {dest}
    BY AppendAdds, ClientFacts DEF insertProcQ, TypeInv, CPU
  <2> QED
    BY <2>1, <1>2 DEF IsReady
<1>5. ASSUME NEW p \in Clients, NEW q \in Clients, Open(p), q \in Doomed(p), Parked(q)
      PROVE  q # current_process' /\ ~IsReady(q)'
  <2>1. InCall(p)
    BY <1>5, OpenSleeps DEF RuleInv, CareInv
  <2>2. p # current_process
    BY <2>1, <1>3 DEF InCall, Awaits, ControlOf
  <2>3. q \in Condemned
    BY <1>5, <2>1, <2>2, ClientFacts DEF Condemned, Doomed, Wish, ControlOf, InCall, IsFree
  <2> QED
    BY <1>5, <2>3, <1>2, <1>3, <1>4 DEF PrudentSend, Parked, Linked
<1>6. CareInv'
  <2>1. \A q \in Clients : Stays(q) /\ IsReady(q)' /\ InCall(q) => IsReady(q)
    BY <1>2, <1>4 DEF PrudentSend, InCall
  <2> QED
    BY <2>1, <1>1, <1>3, <1>5, CareKept DEF RuleInv
<1>7. PoolInv'
  <2>1. msgFree' >= Cardinality(Pcb)
    BY <1>1, NucleusAssumption, FS_CardinalityType DEF TypeInv, Msgs
  <2> QED
    BY <2>1, PoolRich
<1>8. BusyInv'
  BY <1>1, <1>3, BusyKept DEF RuleInv
<1> QED
  BY <1>6, <1>7, <1>8 DEF RuleInv

-----------------------------------------------------------------------------
(* The rules through births and deaths *)

\* The root of what is to end with an open call.
Root(p) ==
  IF Wish(p).service = "TERMPROCESS" /\ Wish(p).arg # NULL THEN Wish(p).arg ELSE p

\* It is the caller or a child of it, and nothing ends but its progeny.
LEMMA RootFacts ==
  ASSUME TypeInv, SSIStands, DoomInv, NEW p \in Clients, Open(p)
  PROVE  /\ Root(p) \in Clients
         /\ Root(p) = p \/ p_parent[Root(p)] = p
         /\ Ends(p, Wish(p)) = {} \/ Ends(p, Wish(p)) = Subtree(Root(p))
         /\ Root(p) # p => Ends(p, Wish(p)) = Subtree(Root(p))
BY DEF DoomInv, Foreseen, Root, Ends

\* What a caller has made sure of remains when its victims' tree does not grow, it
\* stays their parent, and they sleep on.
LEMMA ForeseenAfter ==
  ASSUME TypeInv, SSIStands, DoomInv,
         NEW p \in Clients, Open(p), Wish(p)' = Wish(p),
         \A c \in Pcb : p_parent'[c] \in Ends(p, Wish(p)) => c \in Ends(p, Wish(p)),
         p_parent'[Root(p)] = p_parent[Root(p)], p_parent'[p] = p_parent[p],
         \A q \in Clients : q \in Doomed(p) /\ Parked(q) => Parked(q)'
  PROVE  Foreseen(p)'
<1>1. PICK r : r = Wish(p)
  OBVIOUS
<1>2. Wish(p)' = r
  BY <1>1
<1>3. Ends(p, r)' \subseteq Ends(p, r)
  <2>1. CASE Ends(p, r) = Subtree(Root(p)) /\ r.service \in {"TERMPROCESS", "INVALID"}
    <3>1. PICK e : e = Root(p)
      OBVIOUS
    <3>2. e \in Pcb /\ \A c \in Pcb : p_parent'[c] \in Subtree(e) => c \in Subtree(e)
      BY <3>1, <2>1, <1>1, RootFacts, ClientFacts
    <3>3. Subtree(e)' \subseteq Subtree(e)
      BY <3>2, SubtreeShrinks
    <3>4. Ends(p, r)' = Subtree(e)'
      BY <3>1, <2>1, <1>1 DEF Ends, Root
    <3> QED
      BY <3>1, <3>3, <3>4, <2>1
  <2>2. CASE r.service \notin {"TERMPROCESS", "INVALID"}
    BY <2>2 DEF Ends
  <2> QED
    BY <2>1, <2>2, <1>1 DEF Ends, Root
<1>4. Doomed(p)' \subseteq Doomed(p)
  BY <1>1, <1>2, <1>3 DEF Doomed
<1>5. \A q \in Doomed(p)' : Parked(q)'
  BY <1>4, DoomedClients
<1> QED
  BY <1>1, <1>2, <1>5 DEF DoomInv, Foreseen, Root

\* Two kills under way do not meet: a killer that does not sleep is nobody's victim,
\* and its victims are its own.
LEMMA KillsApart ==
  ASSUME TypeInv, SSIStands, DoomInv,
         NEW k \in Clients, ~Parked(k), NEW v \in Clients, v = k \/ p_parent[v] = k,
         NEW p \in Clients, p # k, Open(p), p \notin Subtree(v),
         NEW q \in Ends(p, Wish(p))
  PROVE  q \notin Subtree(v)
<1> SUFFICES ASSUME q \in Subtree(v) PROVE FALSE
  OBVIOUS
<1>1. PICK e : e = Root(p)
  OBVIOUS
<1>2. /\ e \in Pcb /\ v \in Pcb /\ Ends(p, Wish(p)) = Subtree(e)
      /\ e = p \/ p_parent[e] = p
  BY <1>1, RootFacts, ClientFacts
<1>3. k \notin Subtree(e)
  BY <1>2, DoomedClients DEF Doomed
<1>4. CASE e \in Subtree(v)
  <2>1. e # p /\ p_parent[e] = p
    BY <1>2, <1>4
  <2>2. e = v
    BY <1>4, <2>1, <1>2, SubtreeUp
  <2>3. v = k
    BY <2>1, <2>2
  <2> QED
    BY <2>2, <2>3, <1>2, <1>3, SubtreeClosed
<1>5. CASE v \in Subtree(e) /\ v # e
  BY <1>2, <1>3, <1>5, SubtreeUp
<1> QED
  BY <1>2, <1>4, <1>5, SubtreesNested, SubtreeClosed

\* The rules' invariant outlives a kill by a process that does not sleep, of itself
\* or of a child, when its victims slept.
LEMMA KillCare ==
  ASSUME TypeInv, TypeInv', PlaceInv, SSIStands, CallInv, CareInv,
         NEW k \in Clients, ~Parked(k), NEW v \in Clients, v = k \/ p_parent[v] = k,
         TerminateProcess(v), ~TerminateBreaks(v),
         OldCall(k), ~Open(k)', InCall(k)' /\ IsReady(k)' => Answered(k)',
         \A q \in Clients \ {k} :
           IF q \in Subtree(v) THEN Idle(q) /\ Idle(q)' /\ IsFree(q)' ELSE Stays(q),
         \A q \in Clients : /\ IsReady(q)' => IsReady(q)
                            /\ q = current_process' => q = current_process \/ IsReady(q)
  PROVE  CareInv'
<1>1. v \in Pcb /\ Clients \subseteq Pcb
  BY ClientFacts
<1>2. /\ pcbFree_h \subseteq pcbFree_h'
      /\ \A c \in Pcb : p_parent'[c] = IF c \in Subtree(v) THEN NULL ELSE p_parent[c]
  BY <1>1, KillView
<1>3. \A q \in Clients : OldCall(q)
  BY StaysOld, ClosedOld
<1>4. RestInv'
  BY ClosedOld, StaysPhased DEF CareInv, RestInv
<1>5. BirthInv'
  <2>1. Births' \subseteq Births /\ Births \in SUBSET Pcb
    BY <1>3, CallSetsFinite DEF Births, OldCall
  <2>2. Cardinality(Births') <= Cardinality(Births) /\ Cardinality(Births') \in Nat
    BY <2>1, CallSetsFinite, FS_Subset
  <2>3. /\ Cardinality(pcbFree_h) \in Nat /\ Cardinality(pcbFree_h') \in Nat
        /\ Cardinality(pcbFree_h) <= Cardinality(pcbFree_h')
    <3>1. pcbFree_h \in SUBSET Pcb /\ pcbFree_h' \in SUBSET Pcb
      BY DEF TypeInv, Procs
    <3> QED
      BY <3>1, <1>2, CallSetsFinite, FS_Subset
  <2>4. Cardinality(Births) \in Nat /\ Cardinality(Births) <= Cardinality(pcbFree_h)
    BY <2>1, CallSetsFinite DEF CareInv, BirthInv
  <2> QED
    BY <2>2, <2>3, <2>4 DEF BirthInv
<1>6. DoomInv'
  <2> SUFFICES ASSUME NEW p \in Clients, Open(p)' PROVE Foreseen(p)'
    BY DEF DoomInv
  <2>1. p # k /\ p \notin Subtree(v) /\ Stays(p)
    BY ClosedOld
  <2>2. Open(p) /\ Wish(p)' = Wish(p) /\ DoomInv
    BY <2>1, StaysPhased DEF CareInv
  <2>3. \A q \in Ends(p, Wish(p)) : q \notin Subtree(v)
    BY <2>1, <2>2, KillsApart
  <2>4. \A c \in Pcb : p_parent'[c] \in Ends(p, Wish(p)) => c \in Ends(p, Wish(p))
    <3>1. NULL \notin Ends(p, Wish(p))
      BY <2>2, DoomedClients, ClientFacts
    <3>2. \A c \in Pcb : p_parent[c] \in Ends(p, Wish(p)) => c \in Ends(p, Wish(p))
      BY <2>2, RootFacts, SubtreeClosed, ClientFacts
    <3> QED
      BY <3>1, <3>2, <1>2
  <2>5. p_parent'[Root(p)] = p_parent[Root(p)] /\ p_parent'[p] = p_parent[p]
    <3>1. Root(p) \in Pcb /\ (Root(p) = p \/ Root(p) \in Ends(p, Wish(p)))
      BY <2>2, RootFacts, SubtreeClosed, ClientFacts
    <3> QED
      BY <3>1, <2>1, <2>3, <1>1, <1>2
  <2>6. \A q \in Clients : q \in Doomed(p) /\ Parked(q) => Parked(q)'
    <3> SUFFICES ASSUME NEW q \in Clients, q \in Doomed(p), Parked(q) PROVE Parked(q)'
      OBVIOUS
    <3>1. Stays(q)
      BY <2>3 DEF Doomed
    <3>2. q # current_process' /\ ~IsReady(q)'
      BY DEF Parked, Linked
    <3> QED
      BY <3>1, <3>2, ParkedStays
  <2> QED
    BY <2>2, <2>4, <2>5, <2>6, ForeseenAfter
<1>7. TreeInv'
  <2>1. \A x \in Pcb : p_parent'[x] = NULL \/ p_parent'[x] = p_parent[x]
    BY <1>2
  <2> QED
    BY <2>1, ClientFacts DEF CareInv, TreeInv
<1>8. RivalInv'
  BY <1>3 DEF CareInv, RivalInv, OldCall
<1> QED
  BY <1>4, <1>5, <1>6, <1>7, <1>8 DEF CareInv

\* A trap ends processes that are in no call.
LEMMA TrapRules ==
  ASSUME Prudent = TRUE, TypeInv, TypeInv', PlaceInv, SSIStands, CallInv, RuleInv,
         Trap, ~Break
  PROVE  RuleInv'
<1>1. PICK p \in Clients :
        /\ p = current_process /\ TerminateProcess(p) /\ ~TerminateBreaks(p)
        /\ \A q \in Clients : IF q \in Subtree(p) THEN Idle(q) /\ Idle(q)' /\ IsFree(q)'
                                                  ELSE Stays(q)
  BY TrapMoves
<1>2. /\ Scheduler(readyQueue) /\ UNCHANGED dev /\ msgFree' >= msgFree
      /\ readyQueue \in Seq(Pcb) /\ p \in Subtree(p)
  BY <1>1, SubtreeClosed, ClientFacts DEF Trap, msgs, TypeInv, Msgs, CPU
<1>3. CareInv'
  <2>1. \A q \in Clients : /\ IsReady(q)' => IsReady(q)
                           /\ q = current_process' => IsReady(q)
    BY <1>2, SchedulerReady, ClientFacts DEF IsReady
  <2>2. ~Parked(p) /\ OldCall(p) /\ ~Open(p)' /\ ~InCall(p)'
    BY <1>1, <1>2, ClosedOld DEF Parked
  <2> QED
    BY <1>1, <2>1, <2>2, KillCare DEF RuleInv
<1>4. PoolInv'
  BY <1>1, <1>2, PoolPhase, PoolQuiet DEF RuleInv
<1>5. BusyInv'
  BY <1>1, <1>2, BusyKept DEF RuleInv, Idle, Calm, SoftBlocked, OnDevice, Lines
<1> QED
  BY <1>3, <1>4, <1>5 DEF RuleInv

\* A termination ends its caller, or a child of it, and nobody else that is in a call.
LEMMA TerminateRules ==
  ASSUME TypeInv, TypeInv', PlaceInv, SSIStands, CallInv, RuleInv,
         NEW p, NEW r, ServesCall(p, r), Terminate(p, r) \/ Refuse(p, r), ~Break
  PROVE  RuleInv'
<1>1. PICK v \in Clients :
        /\ v = p \/ p_parent[v] = p
        /\ v = p <=> p \in Subtree(v)
        /\ TerminateProcess(v) /\ ~TerminateBreaks(v)
        /\ UNCHANGED <<readyQueue, msgs, current_process, p_s, dev, mode>>
        /\ \A q \in Clients \ {p} :
             IF q \in Subtree(v) THEN Idle(q) /\ Idle(q)' /\ IsFree(q)' ELSE Stays(q)
        /\ IF v = p THEN Idle(p)' \/ (Departed(p)' /\ r = Suicide)
                    ELSE Replied(p)' /\ InCall(p)' /\ Wish(p)' = r
  BY TerminateMoves DEF RuleInv, CareInv
<1>2. p \in Clients /\ Served(p) /\ Wish(p) = r /\ Open(p)
  BY DEF ServesCall, Open
<1>3. UNCHANGED <<readyQueue, current_process, dev>> /\ msgFree' >= msgFree
  BY <1>1 DEF msgs, TypeInv, Msgs
<1>4. InCall(p) /\ ~Parked(p) /\ ~IsReady(p)
  BY <1>2, OpenSleeps DEF RuleInv, CareInv
<1>5. CareInv'
  <2>1. OldCall(p) /\ ~Open(p)'
    BY <1>1, <1>2, <1>4, ClosedOld
  <2> QED
    BY <1>1, <1>2, <1>3, <1>4, <2>1, KillCare DEF RuleInv, IsReady
<1>6. PoolInv'
  <2>1. p \in Takers /\ (p \in Leavers' => p \in Leavers)
    BY <1>1, <1>2, PoolPhase DEF Leavers
  <2> QED
    BY <2>1, <1>1, <1>3, PoolPhase, PoolQuiet DEF RuleInv
<1>7. BusyInv'
  <2>1. Lines(p)' = {}
    BY <1>1 DEF Idle, Departed, Replied, Calm, SoftBlocked, OnDevice, Lines
  <2> QED
    BY <2>1, <1>1, <1>3, BusyKept DEF RuleInv, Idle, Calm, SoftBlocked, OnDevice, Lines
<1> QED
  BY <1>5, <1>6, <1>7 DEF RuleInv

\* A birth takes one of the PCBs that were free, and is of no process to be killed.
LEMMA CreateProcessRules ==
  ASSUME TypeInv, TypeInv', PlaceInv, SSIStands, NoOrphans, CallInv, RuleInv,
         NEW p, NEW r, ServesCall(p, r), CreateProcess(p, r), ~Break
  PROVE  RuleInv'
<1>1. /\ Replied(p)' /\ InCall(p)' /\ Wish(p)' = r
      /\ p \in Clients /\ Served(p) /\ Wish(p) = r /\ Open(p)
      /\ r.service = "CREATEPROCESS"
  BY CreateProcessMoves DEF ServesCall, RuleInv, CareInv, Open, CreateProcess
<1>2. PICK child \in pcbFree_h \cap Clients :
        /\ child # p /\ Idle(child) /\ Idle(child)'
        /\ pcbFree_h' = pcbFree_h \ {child}
        /\ p_parent' = [p_parent EXCEPT ![child] = p]
        /\ readyQueue' = insertProcQ(readyQueue, child)
        /\ UNCHANGED <<msgFree, current_process, dev>>
        /\ \A q \in Clients \ {p, child} : Stays(q)
  BY CreateProcessMoves DEF RuleInv, CareInv
<1>3. \A q \in Clients \ {child} : IsReady(q)' => IsReady(q)
  <2>1. ToSet(insertProcQ(readyQueue, child)) = ToSet(readyQueue) \cup {child}
    BY AppendAdds, ClientFacts DEF insertProcQ, TypeInv, CPU
  <2> QED
    BY <2>1, <1>2 DEF IsReady
<1>4. InCall(p) /\ ~Parked(p) /\ ~IsReady(p)
  BY <1>1, OpenSleeps DEF RuleInv, CareInv
<1>5. /\ p_parent[child] = NULL /\ \A c \in Pcb : p_parent[c] # child
      /\ \A c \in Pcb : p_parent'[c] = IF c = child THEN p ELSE p_parent[c]
  BY <1>2, ClientFacts DEF NoOrphans, IsFree, TypeInv, Procs
<1>6. /\ OldCall(p) /\ ~Open(p)' /\ OldCall(child) /\ ~Open(child)' /\ ~InCall(child)'
      /\ \A q \in Clients : OldCall(q)
  BY <1>1, <1>2, <1>4, ClosedOld, StaysOld
<1>7. RestInv'
  BY <1>2, <1>3, <1>4, <1>6, StaysPhased DEF RuleInv, CareInv, RestInv
<1>8. BirthInv'
  <2>1. p \in Births /\ Births' \subseteq Births \ {p}
    BY <1>1, <1>6 DEF Births, OldCall
  <2>2. IsFiniteSet(Births) /\ Cardinality(Births) \in Nat /\ IsFiniteSet(pcbFree_h)
    BY CallSetsFinite DEF TypeInv, Procs
  <2>3. IsFiniteSet(Births \ {p}) /\ Cardinality(Births \ {p}) = Cardinality(Births) - 1
    BY <2>1, <2>2, FS_RemoveElement
  <2>4. Cardinality(Births') <= Cardinality(Births \ {p}) /\ Cardinality(Births') \in Nat
    BY <2>1, <2>3, FS_Subset, FS_CardinalityType
  <2>5. Cardinality(pcbFree_h') = Cardinality(pcbFree_h) - 1 /\ Cardinality(pcbFree_h) \in Nat
    BY <1>2, <2>2, FS_RemoveElement, FS_CardinalityType
  <2> QED
    BY <2>2, <2>3, <2>4, <2>5 DEF RuleInv, CareInv, BirthInv
<1>9. DoomInv'
  <2> SUFFICES ASSUME NEW q \in Clients, Open(q)' PROVE Foreseen(q)'
    BY DEF DoomInv
  <2>1. q # p /\ q # child /\ Stays(q)
    BY <1>2, <1>6
  <2>2. Open(q) /\ Wish(q)' = Wish(q) /\ DoomInv
    BY <2>1, StaysPhased DEF RuleInv, CareInv
  <2>3. p \notin Ends(q, Wish(q))
    BY <1>4, <2>1, <2>2, DoomedClients DEF Doomed
  <2>4. \A c \in Pcb : p_parent'[c] \in Ends(q, Wish(q)) => c \in Ends(q, Wish(q))
    <3>1. \A c \in Pcb : p_parent[c] \in Ends(q, Wish(q)) => c \in Ends(q, Wish(q))
      BY <2>2, RootFacts, SubtreeClosed, ClientFacts
    <3> QED
      BY <3>1, <2>3, <1>5
  <2>5. p_parent'[Root(q)] = p_parent[Root(q)] /\ p_parent'[q] = p_parent[q]
    <3>1. Root(q) \in Clients /\ (Root(q) = q \/ p_parent[Root(q)] = q)
      BY <2>2, RootFacts
    <3> QED
      BY <3>1, <2>1, <1>5, ClientFacts
  <2>6. \A x \in Clients : x \in Doomed(q) /\ Parked(x) => Parked(x)'
    <3> SUFFICES ASSUME NEW x \in Clients, x \in Doomed(q), Parked(x) PROVE Parked(x)'
      OBVIOUS
    <3>1. x # child /\ x # p /\ ~IsReady(x) /\ x # current_process
      BY <1>2, <1>4 DEF Parked, Linked, IsFree
    <3> QED
      BY <3>1, <1>2, <1>3, ParkedStays
  <2> QED
    BY <2>2, <2>4, <2>5, <2>6, ForeseenAfter
<1>10. TreeInv'
  <2> SUFFICES ASSUME NEW S \in SUBSET Pcb, S # {} PROVE \E x \in S : p_parent'[x] \notin S
    BY DEF TreeInv
  <2>1. CASE S \subseteq {child}
    BY <2>1, <1>2, <1>5
  <2>2. CASE ~(S \subseteq {child})
    <3>1. PICK x \in S \ {child} : p_parent[x] \notin S \ {child}
      BY <2>2 DEF RuleInv, CareInv, TreeInv
    <3> QED
      BY <3>1, <1>5
  <2> QED
    BY <2>1, <2>2
<1>11. RivalInv'
  BY <1>6 DEF RuleInv, CareInv, RivalInv, OldCall
<1>12. PoolInv'
  <2>1. msgFree' >= msgFree
    BY <1>2 DEF TypeInv, Msgs
  <2> QED
    BY <2>1, <1>1, <1>2, PoolPhase, PoolQuiet DEF RuleInv
<1>13. BusyInv'
  BY <1>1, <1>2, BusyKept DEF RuleInv, Replied, Idle, Calm, SoftBlocked, OnDevice, Lines
<1> QED
  BY <1>7, <1>8, <1>9, <1>10, <1>11, <1>12, <1>13 DEF RuleInv, CareInv

-----------------------------------------------------------------------------
(* The invariant *)

\* A step that changes the mode alone, or nothing.
LEMMA QuietCalls ==
  ASSUME TypeInv, TypeInv', SSIStands, CallInv, RuleInv,
         UNCHANGED <<procs, readyQueue, queues, msgs, current_process, cpu, p_s, dev>>
  PROVE  CallInv' /\ RuleInv'
<1>1. SingleInv' /\ \A q \in Clients : Stays(q)
  BY QuietMoves DEF CallInv
<1>2. UNCHANGED <<procs, readyQueue, current_process, dev>> /\ msgFree' >= msgFree
  BY DEF msgs, TypeInv, Msgs
<1>3. CallInv'
  BY <1>1, PhasesKept DEF CallInv
<1>4. CareInv'
  BY <1>1, <1>2, CareQuiet DEF RuleInv, IsReady
<1>5. PoolInv'
  BY <1>1, <1>2, PoolQuiet DEF RuleInv
<1>6. BusyInv'
  BY <1>1, <1>2, BusyKept DEF RuleInv
<1> QED
  BY <1>3, <1>4, <1>5, <1>6 DEF RuleInv

\* Every service.
LEMMA ServiceCallsKept ==
  ASSUME TypeInv, TypeInv', PlaceInv, SSIStands, NoOrphans, CallInv, RuleInv,
         NEW p, NEW r, ServesCall(p, r), SSIRequest(p, r), ~Break
  PROVE  CallInv' /\ RuleInv'
<1>1. \A q : Idle(q)' \/ Departed(q)' \/ Replied(q)' \/ Queued(q)' => Phased(q)'
  BY DEF Phased
<1>2. p \in Clients
  BY DEF ServesCall
<1>3. CASE CreateProcess(p, r)
  BY <1>1, <1>3, CreateProcessMoves, CreateProcessRules, PhasesKept
  DEF CallInv, RuleInv, CareInv
<1>4. CASE Terminate(p, r) \/ Refuse(p, r)
  <2>1. \A q \in Clients : Stays(q) \/ Phased(q)'
    <3>1. PICK v \in Clients :
            /\ \A q \in Clients \ {p} :
                 IF q \in Subtree(v) THEN Idle(q) /\ Idle(q)' /\ IsFree(q)' ELSE Stays(q)
            /\ IF v = p THEN Idle(p)' \/ (Departed(p)' /\ r = Suicide)
                        ELSE Replied(p)' /\ InCall(p)' /\ Wish(p)' = r
      BY <1>4, TerminateMoves DEF RuleInv, CareInv
    <3> QED
      BY <1>1, <3>1
  <2> QED
    BY <2>1, <1>4, TerminateMoves, TerminateRules, PhasesKept DEF CallInv, RuleInv, CareInv
<1>5. CASE DoIO(p, r)
  BY <1>1, <1>5, DoIOMoves, DoIORules, PhasesKept DEF CallInv
<1>6. CASE WaitForClock(p, r)
  BY <1>1, <1>6, WaitForClockMoves, WaitForClockRules, PhasesKept DEF CallInv
<1>7. CASE Inquire(p, r)
  BY <1>1, <1>7, InquireMoves, InquireRules, PhasesKept DEF CallInv
<1> QED
  BY <1>3, <1>4, <1>5, <1>6, <1>7 DEF SSIRequest

\* Every step keeps both parts of the invariant.
LEMMA NextCalls ==
  ASSUME Disciplined, TypeInv, TypeInv', PlaceInv, SSIStands, NoOrphans, CallInv, RuleInv,
         [Next]_vars
  PROVE  CallInv' /\ RuleInv'
<1>1. Prudent = TRUE /\ SSISpared /\ "PLT" \notin Behaviour
  BY DEF Disciplined
<1>2. \A q : Idle(q)' \/ Pending(q)' \/ Served(q)' \/ Answered(q)' => Phased(q)'
  BY DEF Phased
<1>3. CASE Break \/ UNCHANGED vars
  BY <1>3, QuietCalls DEF Break, vars, procs, queues, msgs
<1>4. CASE Request /\ ~Break
  <2>1. CallInv'
    BY <1>1, <1>2, <1>4, RequestMoves, PhasesKept DEF CallInv, RuleInv
  <2> QED
    BY <2>1, <1>1, <1>4, RequestRules
<1>5. CASE SendMessage /\ ~Break
  <2>1. CallInv'
    BY <1>1, <1>5, SendMessageMoves, PhasesKept DEF CallInv
  <2> QED
    BY <2>1, <1>1, <1>5, SendMessageRules
<1>6. CASE WantMessage
  BY <1>2, <1>6, WantMessageMoves, WantMessageRules, PhasesKept DEF CallInv
<1>7. CASE Receive
  <2>1. \A q \in Clients : Stays(q) \/ Phased(q)'
    BY <1>2, <1>7, ReceiveMoves DEF ClientTakes, SSITakes, NobodyTakes
  <2> QED
    BY <2>1, <1>7, ReceiveMoves, ReceiveRules, PhasesKept DEF CallInv
<1>8. CASE Trap /\ ~Break
  BY <1>1, <1>2, <1>8, TrapMoves, TrapRules, PhasesKept DEF CallInv
<1>9. CASE SSIServes /\ ~Break
  BY <1>9, SSIServesCall, ServiceCallsKept
<1>10. CASE Reply /\ ~Break
  <2>1. \A q \in Clients : Stays(q) \/ Phased(q)'
    BY <1>2, <1>10, ReplyMoves DEF RuleInv
  <2> QED
    BY <2>1, <1>10, ReplyMoves, ReplyRules, PhasesKept DEF CallInv, RuleInv
<1>11. CASE TimerInterrupt /\ ~Break
  <2>1. \A q \in Clients : Stays(q) \/ Phased(q)'
    BY <1>2, <1>11, TimerInterruptMoves
  <2> QED
    BY <2>1, <1>11, TimerInterruptMoves, TimerInterruptRules, PhasesKept DEF CallInv
<1>12. CASE DeviceInterrupt /\ ~Break
  <2>1. PICK d \in Device : Dismiss(d) \/ Complete(d)
    BY <1>12 DEF DeviceInterrupt
  <2>2. CASE Dismiss(d)
    BY <2>2, DismissMoves, DismissRules, PhasesKept DEF CallInv, TypeInv, CPU
  <2>3. CASE Complete(d)
    BY <1>2, <2>3, CompleteMoves, CompleteRules, PhasesKept DEF CallInv
  <2> QED
    BY <2>1, <2>2, <2>3
<1>13. CASE \E d \in Device : DeviceCompletes(d)
  <2>1. PICK d \in Device : DeviceCompletes(d)
    BY <1>13
  <2>2. UNCHANGED <<procs, queues, msgs, current_process, cpu, p_s>>
    BY <2>1 DEF DeviceCompletes
  <2> QED
    BY <2>1, <2>2, QuietMoves, DeviceCompletesRules, PhasesKept DEF CallInv
<1> QED
  BY <1>1, <1>3, <1>4, <1>5, <1>6, <1>7, <1>8, <1>9, <1>10, <1>11, <1>12, <1>13
  DEF Next, ProcessStep, PLTInterrupt, Stopped

\* At the start nobody is in a call, and the pool has a message for each client.
LEMMA InitCalls == Disciplined /\ Init => CallInv /\ RuleInv
<1> SUFFICES ASSUME Disciplined, Init PROVE CallInv /\ RuleInv
  OBVIOUS
<1>1. \A p \in Pcb : inbox[p] = <<>> /\ p_parent[p] = NULL /\ ~SoftBlocked(p)
  BY DEF Init, SoftBlocked, OnClock, OnDevice, ToSet
<1>2. \A p \in Clients : ControlOf(p) = Running /\ Work(p) = Running /\ Lines(p) = {}
  BY ClientFacts DEF Init, ControlOf, Work, AtLoopHead, ReceiveFrom, Lines, ToSet
<1>3. \A p \in Clients : /\ ~InCall(p) /\ Asked(p) = {} /\ Told(p) = {} /\ Idle(p)
                         /\ ~Open(p) /\ ~Departed(p)
                         /\ Single(inbox[ssi_pcb], p) /\ Single(inbox[p], ssi_pcb)
  <2> SUFFICES ASSUME NEW p \in Clients
               PROVE  /\ ~InCall(p) /\ Asked(p) = {} /\ Told(p) = {} /\ Idle(p)
                      /\ ~Open(p) /\ ~Departed(p)
                      /\ Single(inbox[ssi_pcb], p) /\ Single(inbox[p], ssi_pcb)
    OBVIOUS
  <2>1. inbox[ssi_pcb] = <<>> /\ inbox[p] = <<>> /\ ~SoftBlocked(p)
    BY <1>1, ClientFacts
  <2>2. Asked(p) = {} /\ Told(p) = {}
    BY <2>1 DEF Asked, Told, Words, Letters
  <2>3. Single(inbox[ssi_pcb], p) /\ Single(inbox[p], ssi_pcb)
    BY <2>1 DEF Single, Letters
  <2>4. ~InCall(p) /\ Work(p) = Running /\ Running.op = "run"
    BY <1>2 DEF InCall, Awaits, Running
  <2> QED
    BY <2>1, <2>2, <2>3, <2>4 DEF Idle, Calm, Open, Pending, Served, Departed
<1>4. CallInv
  BY <1>3 DEF CallInv, PhaseInv, SingleInv, Phased
<1>5. RestInv /\ DoomInv /\ RivalInv
  BY <1>3 DEF RestInv, DoomInv, RivalInv
<1>6. TreeInv
  BY <1>1, ClientFacts DEF TreeInv
<1>7. BirthInv
  <2>1. Births = {} /\ IsFiniteSet(pcbFree_h)
    BY <1>3, CallSetsFinite DEF Births, Init
  <2> QED
    BY <2>1, FS_EmptySet, FS_CardinalityType DEF BirthInv
<1>8. PoolInv
  <2>1. Leavers = {} /\ Takers \subseteq Pcb \ {ssi_pcb}
    BY <1>3 DEF Leavers, Takers, Clients
  <2>2. /\ IsFiniteSet(Pcb \ {ssi_pcb}) /\ Cardinality(Pcb \ {ssi_pcb}) = Cardinality(Pcb) - 1
        /\ Cardinality(Pcb) \in Nat
    BY NucleusAssumption, FS_RemoveElement, FS_CardinalityType
  <2>3. Cardinality(Takers) <= Cardinality(Pcb) - 1 /\ Cardinality(Takers) \in Nat
    BY <2>1, <2>2, FS_Subset, FS_CardinalityType
  <2>4. Cardinality(Leavers) = 0
    BY <2>1, FS_EmptySet
  <2> QED
    BY <2>2, <2>3, <2>4, NucleusAssumption DEF PoolInv, Init, Disciplined
<1>9. BusyInv
  BY <1>2 DEF BusyInv
<1> QED
  BY <1>4, <1>5, <1>6, <1>7, <1>8, <1>9 DEF RuleInv, CareInv

\* All that the theorems below rest on.
Inv == TypeInv /\ PlaceInv /\ SSIStands /\ NoOrphans /\ CountersAccurate /\ CallInv /\ RuleInv

\* It holds at the start.
LEMMA InitInv == Disciplined /\ Init => Inv
<1>1. Init => NoOrphans
  BY DEF Init, NoOrphans
<1> QED
  BY <1>1, InitTypes, InitPlaces, InitCounters, InitCalls DEF Inv

\* Every step keeps it.
LEMMA NextInv == Disciplined /\ Inv /\ [Next]_vars => Inv'
BY NextTypes, NextPlaces, NextTree, NextCounters, NextCalls DEF Inv, Disciplined

\* It holds of every disciplined behaviour.
LEMMA InvHolds == ASSUME Disciplined PROVE Spec => []Inv
<1>1. Init => Inv
  BY InitInv
<1>2. Inv /\ [Next]_vars => Inv'
  BY NextInv
<1> QED
  BY <1>1, <1>2, PTL DEF Spec
-----------------------------------------------------------------------------
(* One answer per call *)

\* What stands for a call, by the words and places of the phases.
LEMMA TokensOf ==
  ASSUME CallInv, NEW p \in Clients
  PROVE  /\ Calm(p) /\ Work(p) = Running => CallTokens(p) = {}
         /\ Calm(p) /\ Work(p).op \in {"serve", "reply"} => CallTokens(p) = {<<"ssi", 0>>}
         /\ Queued(p) => CallTokens(p) = {<<"queue", 0>>}
         /\ Pending(p) => \E t : CallTokens(p) = {t}
         /\ Answered(p) => \E t : CallTokens(p) = {t}
<1> DEFINE asked == {<<"inbox", i>> : i \in Letters(inbox[ssi_pcb], p)}
           told  == {<<"answer", i>> : i \in Letters(inbox[p], ssi_pcb)}
           work  == {<<"ssi", 0>> : q \in {x \in {p} : cpu.op \in {"serve", "reply"} /\ cpu.who = x}}
           queue == {<<"queue", 0>> : q \in {x \in {p} : SoftBlocked(x)}}
<1>1. CallTokens(p) = asked \cup work \cup queue \cup told
  BY ClientFacts DEF CallTokens, Letters, Matching
<1>2. /\ Asked(p) = {} => asked = {}
      /\ Told(p) = {} => told = {}
  BY DEF Asked, Told, Words
<1>3. /\ Asked(p) # {} => \E t : asked = {t}
      /\ Told(p) # {} => \E t : told = {t}
  <2>1. ASSUME NEW s, NEW q, Words(s, q) # {}, Single(s, q)
        PROVE  \E i : Letters(s, q) = {i}
    <3>1. PICK i : i \in Letters(s, q)
      BY <2>1 DEF Words
    <3> QED
      BY <2>1, <3>1 DEF Single
  <2>2. ASSUME Asked(p) # {} PROVE \E t : asked = {t}
    <3>1. PICK i : Letters(inbox[ssi_pcb], p) = {i}
      BY <2>1, <2>2 DEF Asked, CallInv, SingleInv
    <3>2. asked = {<<"inbox", i>>}
      BY <3>1
    <3> HIDE DEF asked
    <3> QED
      BY <3>2
  <2>3. ASSUME Told(p) # {} PROVE \E t : told = {t}
    <3>1. PICK i : Letters(inbox[p], ssi_pcb) = {i}
      BY <2>1, <2>3 DEF Told, CallInv, SingleInv
    <3>2. told = {<<"answer", i>>}
      BY <3>1
    <3> HIDE DEF told
    <3> QED
      BY <3>2
  <2> QED
    BY <2>2, <2>3
<1>4. /\ Work(p).op \in {"serve", "reply"} => work = {<<"ssi", 0>>}
      /\ Work(p) = Running => work = {}
  BY DEF Work, Running
<1>5. /\ SoftBlocked(p) => queue = {<<"queue", 0>>}
      /\ ~SoftBlocked(p) => queue = {}
  OBVIOUS
<1> HIDE DEF asked, told, work, queue
<1>6. Calm(p) => CallTokens(p) = work
  BY <1>1, <1>2, <1>5 DEF Calm
<1>7. Queued(p) => CallTokens(p) = {<<"queue", 0>>}
  <2>1. Queued(p) => SoftBlocked(p)
    BY DEF Queued, OnItsQueue, SoftBlocked, OnDevice, Lines
  <2> QED
    BY <2>1, <1>1, <1>2, <1>4, <1>5 DEF Queued
<1>8. Pending(p) => CallTokens(p) = asked /\ Asked(p) # {}
  BY <1>1, <1>2, <1>4, <1>5 DEF Pending
<1>9. Answered(p) => CallTokens(p) = told /\ Told(p) # {}
  BY <1>1, <1>2, <1>4, <1>5 DEF Answered
<1> QED
  BY <1>3, <1>4, <1>6, <1>7, <1>8, <1>9

\* A call is in one phase, and each phase has one token.
LEMMA PhasesCount == CallInv => OneAnswerPerCall
<1> SUFFICES ASSUME CallInv, NEW p \in Clients, ~IsFree(p)
             PROVE  /\ Cardinality(CallTokens(p)) = IF Awaits(p) THEN 1 ELSE 0
                    /\ \A i \in Matching(p, ssi_pcb) :
                         Awaits(p) /\ Answers(ControlOf(p).val, inbox[p][i].payload)
  BY DEF OneAnswerPerCall, Live, Clients, IsFree
<1>1. IF Awaits(p) THEN \E t : CallTokens(p) = {t} ELSE CallTokens(p) = {}
  <2>1. CASE Idle(p)
    BY <2>1, TokensOf DEF Idle, InCall
  <2>2. CASE Pending(p) \/ Queued(p) \/ Answered(p)
    BY <2>2, TokensOf DEF Pending, Queued, Answered, InCall
  <2>3. CASE Served(p) \/ Replied(p)
    <3>1. Awaits(p) /\ Calm(p) /\ Work(p).op \in {"serve", "reply"}
      BY <2>3 DEF Served, Replied, InCall, Serving
    <3>2. CallTokens(p) = {<<"ssi", 0>>}
      BY <3>1, TokensOf
    <3> QED
      BY <3>1, <3>2
  <2> QED
    BY <2>1, <2>2, <2>3 DEF CallInv, PhaseInv, Phased, Departed
<1>2. Cardinality(CallTokens(p)) = IF Awaits(p) THEN 1 ELSE 0
  BY <1>1, FS_Singleton, FS_EmptySet
<1>3. ASSUME NEW i \in Matching(p, ssi_pcb)
      PROVE  Awaits(p) /\ Answers(Wish(p), inbox[p][i].payload)
  <2>1. inbox[p][i].payload \in Told(p)
    BY ClientFacts DEF Matching, Told, Words, Letters
  <2>2. Answered(p)
    BY <2>1, PhaseOf DEF CallInv
  <2> QED
    BY <2>1, <2>2 DEF Answered, InCall
<1> QED
  BY <1>2, <1>3 DEF Wish

\* Processes that keep the rules have every call answered once: a process in a call
\* has one request, one place in the SSI or a queue, or one answer to that request;
\* a process outside a call has none of these.  Nothing is lost, answered twice, or
\* answered to another process or another call.
THEOREM EveryCallHasOneToken == ASSUME Disciplined PROVE Spec => []OneAnswerPerCall
<1>1. Inv => OneAnswerPerCall
  BY PhasesCount DEF Inv
<1> QED
  BY <1>1, InvHolds, PTL
-----------------------------------------------------------------------------
(* Waiting for a device *)

\* A place in a queue is a client's, and its call names the device.
LEMMA WaitersWait == ASSUME Inv PROVE WaiterHasOperation
<1> SUFFICES ASSUME NEW l \in Line, NEW i \in DOMAIN blockedQueue[l]
             PROVE  LET no == blockedOnDevice[blockedQueue[l][i]] IN
                      /\ \E d \in Device : d.line = l /\ d.no = no /\ dev[d] # "idle"
                      /\ \A j \in DOMAIN blockedQueue[l] \ {i} :
                           blockedOnDevice[blockedQueue[l][j]] # no
  BY DEF WaiterHasOperation
<1>1. ASSUME NEW k \in DOMAIN blockedQueue[l], NEW w, w = blockedQueue[l][k]
      PROVE  /\ w \in Clients /\ InCall(w) /\ Wish(w).service = "DOIO"
             /\ Wish(w).arg \in Device /\ Wish(w).arg.line = l
             /\ blockedOnDevice[w] = Wish(w).arg.no /\ dev[Wish(w).arg] # "idle"
  <2>1. w \in Pcb /\ w \in ToSet(blockedQueue[l])
    BY <1>1 DEF ToSet, Inv, TypeInv, Queues
  <2>2. w \in Clients
    BY <2>1, ClientFacts DEF SoftBlocked, OnDevice, Inv, SSIStands
  <2>3. Lines(w) # {} /\ l \in Lines(w)
    BY <2>1 DEF Lines
  <2> QED
    BY <2>2, <2>3, LinesTell DEF Inv, RuleInv, BusyInv
<1>2. PICK w : w = blockedQueue[l][i]
  OBVIOUS
<1>3. \E d \in Device : d.line = l /\ d.no = blockedOnDevice[w] /\ dev[d] # "idle"
  BY <1>1, <1>2
<1>4. ASSUME NEW j \in DOMAIN blockedQueue[l] \ {i},
             blockedOnDevice[blockedQueue[l][j]] = blockedOnDevice[w]
      PROVE  FALSE
  <2>1. PICK x : x = blockedQueue[l][j]
    OBVIOUS
  <2>2. /\ x \in Clients /\ InCall(x) /\ Wish(x).service = "DOIO" /\ Wish(x).arg \in Device
        /\ Wish(x).arg.line = l /\ Wish(x).arg.no = blockedOnDevice[w]
    BY <2>1, <1>1, <1>4
  <2>3. /\ w \in Clients /\ InCall(w) /\ Wish(w).service = "DOIO" /\ Wish(w).arg \in Device
        /\ Wish(w).arg.line = l /\ Wish(w).arg.no = blockedOnDevice[w]
    BY <1>1, <1>2
  <2>4. Wish(x).arg = Wish(w).arg
    BY <2>2, <2>3, NucleusAssumption
  <2>5. x = w
    BY <2>2, <2>3, <2>4, WishType, SameRequest DEF Inv, RuleInv, CareInv, RivalInv
  <2>6. IsInjective(blockedQueue[l])
    BY DEF Inv, PlaceInv, Settled
  <2> QED
    BY <2>1, <2>5, <2>6, <1>2 DEF IsInjective
<1> QED
  BY <1>2, <1>3, <1>4

\* Processes that keep the rules never wait for a device that does nothing: whoever
\* is on a device queue has its device at work or its interrupt raised, and is the
\* only one there that the interrupt can be for.
THEOREM EveryWaiterHasOperation == ASSUME Disciplined PROVE Spec => []WaiterHasOperation
<1>1. Inv => WaiterHasOperation
  BY WaitersWait
<1> QED
  BY <1>1, InvHolds, PTL
-----------------------------------------------------------------------------
(* No list is broken *)

\* deviceHandler() understands the status of the terminals.
TerminalsWork == \A d \in Device : LineNo(d.line) = 7 => "DEVERROR" \notin Behaviour

\* A device reports an error only where errors occur.
ErrorInv == \A d \in Device : dev[d] = "error" => "DEVERROR" \in Behaviour

\* Only DeviceCompletes reports one.
LEMMA NextErrors == TypeInv /\ ErrorInv /\ [Next]_vars => ErrorInv'
<1> SUFFICES ASSUME TypeInv, ErrorInv, [Next]_vars PROVE ErrorInv'
  OBVIOUS
<1>1. \A d \in Device : dev'[d] = dev[d] \/ dev'[d] # "error" \/ "DEVERROR" \in Behaviour
  <2>1. CASE UNCHANGED dev
    BY <2>1
  <2>2. CASE SSIServes
    BY <2>2 DEF SSIServes, SSIRequest, CreateProcess, Terminate, Refuse, DoIO, WaitForClock,
                Inquire, Break, TypeInv, Devs
  <2>3. CASE DeviceInterrupt
    BY <2>3 DEF DeviceInterrupt, Dismiss, Complete, Break, TypeInv, Devs
  <2>4. CASE \E d \in Device : DeviceCompletes(d)
    BY <2>4 DEF DeviceCompletes, TypeInv, Devs
  <2>5. CASE ProcessStep /\ ~SSIServes
    BY <2>5 DEF ProcessStep, Request, SendMessage, WantMessage, Receive, Trap, Reply, Break
  <2> QED
    BY <2>1, <2>2, <2>3, <2>4, <2>5
    DEF Next, TimerInterrupt, PLTInterrupt, Stopped, Break, vars
<1> QED
  BY <1>1 DEF ErrorInv

\* The SSI is alive, so the scheduler never counts down to no process at all.
LEMMA SchedulerDecides ==
  ASSUME Inv', NEW ready, Scheduler(ready)
  PROVE  mode' # "broken"
<1>1. /\ IsFiniteSet(Live') /\ Cardinality(Live') \in Nat /\ ssi_pcb \in Live'
      /\ processCount' = Cardinality(Live') /\ softBlockCount' \in Int
  <2>1. Live' \in SUBSET Pcb
    BY DEF Live
  <2> QED
    BY <2>1, CallSetsFinite, ClientFacts
    DEF Inv, TypeInv, Queues, SSIStands, SSILives, Live, IsFree, CountersAccurate
<1>2. Cardinality({ssi_pcb}) <= Cardinality(Live') /\ Cardinality({ssi_pcb}) = 1
  BY <1>1, FS_Subset, FS_Singleton
<1> QED
  BY <1>1, <1>2 DEF Scheduler, Verdict

\* There is a message for each process on a device or clock queue.
LEMMA QueuedServed ==
  ASSUME Inv
  PROVE  /\ \A p \in Pcb : SoftBlocked(p) => p \in Clients /\ Queued(p) /\ ~PoolEmpty
         /\ Len(pseudoClockQueue) <= msgFree
<1>1. \A p \in Pcb : SoftBlocked(p) => p \in Clients /\ Queued(p) /\ p \in Takers
  BY ClientFacts, PhaseOf, PoolPhase DEF Inv, CallInv, SSIStands
<1>2. /\ ToSet(pseudoClockQueue) \subseteq Takers
      /\ Cardinality(ToSet(pseudoClockQueue)) = Len(pseudoClockQueue)
  <2>1. pseudoClockQueue \in Seq(Pcb) /\ IsInjective(pseudoClockQueue)
    BY DEF Inv, TypeInv, Queues, PlaceInv, Settled
  <2>2. ToSet(pseudoClockQueue) \subseteq Pcb
    BY <2>1 DEF ToSet
  <2> QED
    BY <2>1, <2>2, <1>1, LengthCounts DEF SoftBlocked, OnClock
<1>3. Cardinality(ToSet(pseudoClockQueue)) <= Cardinality(Takers)
  BY <1>2, CallSetsFinite, FS_Subset
<1>4. /\ Cardinality(Takers) \in Nat /\ Cardinality(Leavers) \in Nat /\ msgFree \in Nat
      /\ Len(pseudoClockQueue) \in Nat
  BY CallSetsFinite DEF Inv, TypeInv, Msgs, Queues
<1> QED
  BY <1>1, <1>2, <1>3, <1>4, TakerServed DEF Inv, RuleInv, PoolInv

\* Only a process in a call could be woken on a queue.
LEMMA SendsLink ==
  ASSUME Inv, NEW dest \in Pcb, SendBreaks(dest)
  PROVE  dest \in Clients /\ Queued(dest) /\ Awaits(dest)
<1>1. SoftBlocked(dest)
  BY DEF SendBreaks, Wakes, Linked
<1> QED
  BY <1>1, QueuedServed DEF Queued, InCall

\* Who ends besides a process that is on no list sleeps on none.
LEMMA KillsUnlinked ==
  ASSUME NEW v, NEW k, ~Linked(k), \A q \in Subtree(v) : q = k \/ Parked(q)
  PROVE  ~TerminateBreaks(v)
BY DEF TerminateBreaks, Parked

\* The service of a call of which the caller has made sure breaks no list.
LEMMA ServicesUnbroken ==
  ASSUME Inv, NEW p, NEW r, ServesCall(p, r), SSIRequest(p, r), mode # "broken"
  PROVE  mode' # "broken"
<1>1. /\ p \in Clients /\ p \in Pcb /\ Open(p) /\ Wish(p) = r
      /\ Foreseen(p) /\ ~Linked(p) /\ ~IsFree(p) /\ ~SoftBlocked(p)
  <2>1. p \in Clients /\ p \in Pcb /\ Open(p) /\ Wish(p) = r
    BY ClientFacts DEF ServesCall, Open
  <2> QED
    BY <2>1, OpenSleeps DEF Inv, RuleInv, CareInv, DoomInv, Linked, InCall
<1>2. \A q \in Ends(p, r) : q = p \/ Parked(q)
  BY <1>1, DoomedClients DEF Inv, RuleInv, CareInv, Doomed
<1>3. CASE CreateProcess(p, r)
  BY <1>1, <1>3 DEF CreateProcess
<1>4. CASE Terminate(p, r)
  <2>1. PICK v : v = IF r.arg = NULL THEN p ELSE r.arg
    OBVIOUS
  <2>2. Ends(p, r) = Subtree(v)
    BY <2>1, <1>4 DEF Terminate, Ends
  <2>3. ~TerminateBreaks(v)
    BY <2>2, <1>1, <1>2, KillsUnlinked
  <2> QED
    BY <2>1, <2>3, <1>4 DEF Terminate
<1>5. CASE Refuse(p, r)
  <2>1. Ends(p, r) = Subtree(p)
    BY <1>5 DEF Refuse, Ends
  <2>2. ~TerminateBreaks(p)
    BY <2>1, <1>1, <1>2, KillsUnlinked
  <2> QED
    BY <2>2, <1>5 DEF Refuse
<1>6. CASE DoIO(p, r)
  BY <1>1, <1>6 DEF DoIO
<1>7. CASE WaitForClock(p, r)
  BY <1>1, <1>7 DEF WaitForClock
<1>8. CASE Inquire(p, r)
  BY <1>1, <1>8 DEF Inquire, Foreseen
<1> QED
  BY <1>3, <1>4, <1>5, <1>6, <1>7, <1>8 DEF SSIRequest

\* Every step of processes that keep the rules stays within the lists' contract.
LEMMA NextUnbroken ==
  ASSUME Disciplined, TerminalsWork, Inv, Inv', ErrorInv, NotBroken, [Next]_vars
  PROVE  NotBroken'
<1>1. mode # "broken" /\ Prudent = TRUE /\ "PLT" \notin Behaviour
  BY DEF NotBroken, Disciplined
<1>2. CASE Request
  <2>1. ~SendBreaks(ssi_pcb)
    BY SendsLink, ClientFacts
  <2> QED
    BY <2>1, <1>1, <1>2 DEF Request, NotBroken
<1>3. CASE SendMessage
  <2>1. PICK dest \in Pcb \ {ssi_pcb} :
          PrudentSend(dest) /\ (SendBreaks(dest) \/ UNCHANGED mode)
    BY <1>1, <1>3 DEF SendMessage
  <2>2. ~SendBreaks(dest)
    BY <2>1, SendsLink DEF PrudentSend
  <2> QED
    BY <2>1, <2>2, <1>1 DEF NotBroken
<1>4. CASE WantMessage
  BY <1>1, <1>4 DEF WantMessage, NotBroken
<1>5. CASE Receive
  BY <1>1, <1>5, SchedulerDecides DEF Receive, NotBroken
<1>6. CASE Trap
  <2>1. current_process \in Pcb /\ ~Linked(current_process)
    BY <1>6, ClientIdle, ClientFacts DEF Trap, Inv, Linked
  <2>2. ~TerminateBreaks(current_process)
    BY <2>1, <1>1, <1>6, KillsUnlinked DEF Trap, SafeToKill
  <2> QED
    BY <2>2, <1>6, SchedulerDecides DEF Trap, NotBroken
<1>7. CASE SSIServes
  <2>1. PICK p, r : ServesCall(p, r) /\ SSIRequest(p, r)
    BY <1>7, SSIServesCall DEF Inv
  <2> QED
    BY <2>1, <1>1, ServicesUnbroken DEF NotBroken
<1>8. CASE Reply
  <2>1. PICK p : p = cpu.who
    OBVIOUS
  <2>2. p \in Clients /\ Work(p).op = "reply"
    BY <2>1, <1>8, ClientFacts
    DEF Reply, Work, Clients, Inv, TypeInv, CPU, AtWork, SSIStands, SSIServesOthers
  <2>3. Replied(p) \/ Departed(p)
    BY <2>2, PhaseOf DEF Inv, CallInv
  <2>4. ~SendBreaks(p)
    BY <2>2, <2>3, ClientFacts DEF Replied, Departed, Calm, SendBreaks, Wakes, Linked
  <2> QED
    BY <2>1, <2>4, <1>1, <1>8 DEF Reply, NotBroken
<1>9. CASE TimerInterrupt
  <2>1. ~(msgFree < Len(pseudoClockQueue))
    BY QueuedServed DEF Inv, TypeInv, Msgs, Queues
  <2> QED
    BY <2>1, <1>1, <1>9, SchedulerDecides DEF TimerInterrupt, ExitInterrupt, NotBroken
<1>10. CASE DeviceInterrupt
  <2>1. PICK d \in Device : InterruptBreaks(d) \/ Dismiss(d) \/ Complete(d)
    BY <1>10 DEF DeviceInterrupt
  <2>2. ~InterruptBreaks(d)
    <3>1. ~StatusUnread(d)
      BY DEF StatusUnread, TerminalsWork, ErrorInv
    <3>2. Waiters(d) # {} => ~PoolEmpty
      <4>1. d.line \in Line
        BY NucleusAssumption
      <4> QED
        BY <4>1, WaiterIsPcb, QueuedServed DEF Inv, TypeInv, SoftBlocked, OnDevice
    <3> QED
      BY <3>1, <3>2 DEF InterruptBreaks
  <2> QED
    BY <2>1, <2>2, <1>1, SchedulerDecides DEF Dismiss, Complete, ExitInterrupt, NotBroken
<1>11. CASE \E d \in Device : DeviceCompletes(d)
  BY <1>1, <1>11 DEF DeviceCompletes, NotBroken
<1>12. CASE Stopped \/ UNCHANGED vars
  BY <1>1, <1>12 DEF Stopped, vars, NotBroken
<1> QED
  BY <1>1, <1>2, <1>3, <1>4, <1>5, <1>6, <1>7, <1>8, <1>9, <1>10, <1>11, <1>12
  DEF Next, ProcessStep, PLTInterrupt

\* Processes that keep the rules, on devices whose status deviceHandler() understands,
\* never make the nucleus link a PCB twice, free a linked one, use the NULL of an
\* empty message pool, or run its scheduler out of processes to count.
THEOREM NothingBreaks == ASSUME Disciplined, TerminalsWork PROVE Spec => []NotBroken
<1>1. Init => Inv /\ ErrorInv /\ NotBroken
  <2>1. Init => ErrorInv /\ NotBroken
    BY DEF Init, ErrorInv, NotBroken
  <2> QED
    BY <2>1, InitInv
<1>2. (Inv /\ ErrorInv /\ NotBroken) /\ [Next]_vars => (Inv /\ ErrorInv /\ NotBroken)'
  BY NextInv, NextErrors, NextUnbroken DEF Inv
<1> QED
  BY <1>1, <1>2, PTL DEF Spec
-----------------------------------------------------------------------------
(* Nothing stops *)

\* Nobody dies, and nobody receives but the answers to its calls.
OnlyCalls ==
  Behaviour \cap {"TERMPROCESS", "INVALID", "KILL", "TRAP", "RECEIVEMESSAGE"} = {}

\* Then a client that is in a receive is in a call that kills nobody, the SSI in one
\* is at its loop head, and the first process lives.
Calls(p) ==
  /\ ControlOf(p).op = "receive" => Awaits(p)
  /\ Awaits(p) => Wish(p).service \notin {"TERMPROCESS", "INVALID"}
Loops     == ControlOf(ssi_pcb).op = "receive" => ControlOf(ssi_pcb) = AtLoopHead
SteadyInv == (\A p \in Clients : Calls(p)) /\ Loops /\ ~IsFree(test_pcb)

\* A control that stays, or a call that goes on, is as before.
LEMMA CallsKept ==
  ASSUME SteadyInv, NEW p \in Clients
  PROVE  /\ Stays(p) => Calls(p)'
         /\ InCall(p) /\ InCall(p)' /\ Wish(p)' = Wish(p) => Calls(p)'
<1>1. Stays(p) => Calls(p)'
  BY StaysPhased DEF SteadyInv, Calls, Stays
<1>2. InCall(p) /\ InCall(p)' /\ Wish(p)' = Wish(p) => Calls(p)'
  BY DEF SteadyInv, Calls, InCall
<1> QED
  BY <1>1, <1>2

\* A process that receives nothing but answers runs on when it has one.
LEMMA ReceiveSteady ==
  ASSUME TypeInv, TypeInv', PlaceInv, SSIStands, CallInv, SteadyInv, Receive
  PROVE  SteadyInv'
<1>1. PICK p : p = current_process
  OBVIOUS
<1>2. UNCHANGED pcbFree_h /\ p \in Pcb
  BY <1>1, ClientFacts DEF Receive, procs, Executes, TypeInv, CPU
<1>3. CASE Matching(p, cpu.who) # {}
  <2>1. /\ UNCHANGED <<current_process, p_s>>
        /\ cpu' = AfterReceive(inbox[p][Min(Matching(p, cpu.who))])
    BY <1>1, <1>3 DEF Receive
  <2>2. IF p = ssi_pcb THEN cpu'.op = "serve" ELSE cpu'.op = "run"
    BY <1>1, <2>1 DEF AfterReceive, Serving, Running
  <2>3. \A q \in Clients : Calls(q)'
    BY <1>1, <2>1, <2>2, ClientFacts DEF SteadyInv, Calls, ControlOf, Awaits, Wish
  <2>4. Loops'
    BY <1>1, <2>1, <2>2 DEF SteadyInv, Loops, ControlOf
  <2> QED
    BY <1>2, <2>3, <2>4 DEF SteadyInv, IsFree
<1>4. CASE Matching(p, cpu.who) = {}
  <2>1. /\ p_s' = [p_s EXCEPT ![p] = cpu] /\ Scheduler(readyQueue)
        /\ readyQueue \in Seq(Pcb)
    BY <1>1, <1>4 DEF Receive, TypeInv, CPU
  <2>2. \A q \in Pcb : ControlOf(q)' = ControlOf(q)
    BY <1>1, <1>2, <2>1, SchedulerView DEF TypeInv, Saved, ControlOf
  <2>3. \A q \in Clients : Calls(q)'
    BY <2>2, ClientFacts DEF SteadyInv, Calls, Awaits, Wish
  <2>4. Loops'
    BY <2>2, ClientFacts DEF SteadyInv, Loops
  <2> QED
    BY <1>2, <2>3, <2>4 DEF SteadyInv, IsFree
<1> QED
  BY <1>3, <1>4

\* The services but the terminations kill nobody, and end at the SSI's loop head or
\* before its reply.
LEMMA ServiceSteady ==
  ASSUME Inv, SteadyInv, NEW p, NEW r, ServesCall(p, r), SSIRequest(p, r), ~Break
  PROVE  SteadyInv'
<1>1. /\ p \in Clients /\ InCall(p) /\ Wish(p) = r /\ current_process = ssi_pcb
      /\ r.service \notin {"TERMPROCESS", "INVALID"}
  BY DEF ServesCall, ServesAnother, Served, InCall, SteadyInv, Calls
<1>2. ASSUME UNCHANGED current_process, NoAnswer(p, r) \/ \E result : Answer(p, r, result)
      PROVE  Loops'
  BY <1>1, <1>2
  DEF Loops, ControlOf, NoAnswer, Answer, Replying, AtLoopHead, ReceiveFrom
<1>3. ASSUME UNCHANGED <<pcbFree_h, current_process>>,
             NoAnswer(p, r) \/ \E result : Answer(p, r, result),
             InCall(p)', Wish(p)' = r, \A q \in Clients \ {p} : Stays(q)
      PROVE  SteadyInv'
  BY <1>1, <1>2, <1>3, CallsKept DEF SteadyInv, IsFree
<1>4. CASE CreateProcess(p, r)
  <2>1. PICK child \in pcbFree_h \cap Clients :
          /\ child # p /\ pcbFree_h' = pcbFree_h \ {child}
          /\ p_s' = [p_s EXCEPT ![child] = Running]
          /\ UNCHANGED current_process
          /\ \A q \in Clients \ {p, child} : Stays(q)
    BY <1>4, CreateProcessMoves DEF Inv, RuleInv, CareInv
  <2>2. InCall(p)' /\ Wish(p)' = r
    BY <1>4, CreateProcessMoves DEF Inv, RuleInv, CareInv
  <2>3. Calls(child)'
    <3>1. ControlOf(child)' = Running
      BY <2>1, <1>1, ClientFacts DEF ControlOf, Inv, TypeInv, Saved
    <3> QED
      BY <3>1 DEF Calls, Running, Awaits
  <2>4. \A q \in Clients : Calls(q)'
    BY <2>1, <2>2, <2>3, <1>1, CallsKept
  <2>5. Loops'
    BY <1>2, <1>4, <2>1 DEF CreateProcess
  <2> QED
    BY <2>1, <2>4, <2>5 DEF SteadyInv, IsFree
<1>5. CASE DoIO(p, r)
  BY <1>3, <1>5, DoIOMoves DEF DoIO, Inv, procs
<1>6. CASE WaitForClock(p, r)
  BY <1>3, <1>6, WaitForClockMoves DEF WaitForClock, Inv, procs
<1>7. CASE Inquire(p, r)
  BY <1>3, <1>7, InquireMoves DEF Inquire, Inv, procs
<1> QED
  BY <1>1, <1>4, <1>5, <1>6, <1>7 DEF SSIRequest, Terminate, Refuse

\* Every step of processes that only make calls.
LEMMA NextSteady ==
  ASSUME Disciplined, OnlyCalls, Inv, Inv', SteadyInv, [Next]_vars
  PROVE  SteadyInv'
<1>1. /\ Prudent = TRUE /\ SSISpared /\ "PLT" \notin Behaviour
      /\ TypeInv /\ TypeInv' /\ PlaceInv /\ SSIStands /\ CallInv /\ RuleInv /\ PoolInv
  BY DEF Disciplined, Inv, RuleInv
<1>2. ASSUME UNCHANGED <<current_process, cpu, p_s, pcbFree_h>>
      PROVE  SteadyInv'
  BY <1>2 DEF SteadyInv, Calls, Loops, ControlOf, Awaits, Wish, IsFree
<1>3. ASSUME UNCHANGED pcbFree_h, \A q \in Pcb : ControlOf(q)' = ControlOf(q)
      PROVE  SteadyInv'
  BY <1>3, ClientFacts DEF SteadyInv, Calls, Loops, Awaits, Wish, IsFree
<1>4. CASE Break \/ UNCHANGED vars \/ SendMessage \/ \E d \in Device : DeviceCompletes(d)
  BY <1>2, <1>4 DEF Break, vars, SendMessage, DeviceCompletes, procs
<1>5. CASE Request /\ ~Break
  <2>1. PICK p \in Clients, r \in Requests :
          /\ p = current_process /\ Pending(p)' /\ Wish(p)' = r
          /\ \A q \in Clients \ {p} : Stays(q)
    BY <1>1, <1>5, RequestMoves
  <2>2. r.service \notin {"TERMPROCESS", "INVALID"}
    BY DEF Requests, OnlyCalls
  <2>3. \A q \in Clients : Calls(q)'
    BY <2>1, <2>2, CallsKept DEF Calls, Pending, InCall
  <2>4. UNCHANGED <<pcbFree_h, current_process, p_s>>
    BY <1>5 DEF Request, procs
  <2>5. Loops'
    BY <2>1, <2>4, ClientFacts DEF SteadyInv, Loops, ControlOf
  <2> QED
    BY <2>3, <2>4, <2>5 DEF SteadyInv, IsFree
<1>6. CASE Receive
  BY <1>1, <1>6, ReceiveSteady
<1>7. CASE SSIServes /\ ~Break
  BY <1>1, <1>7, SSIServesCall, ServiceSteady
<1>8. CASE Reply /\ ~Break
  <2>1. /\ UNCHANGED <<pcbFree_h, current_process, p_s>> /\ cpu' = AtLoopHead
        /\ cpu.op = "reply"
    BY <1>8 DEF Reply, procs
  <2>2. current_process = ssi_pcb
    BY <1>1, <2>1 DEF SSIStands, SSIServesOthers
  <2> QED
    BY <2>1, <2>2, ClientFacts
    DEF SteadyInv, Calls, Loops, ControlOf, Awaits, Wish, IsFree
<1>9. CASE TimerInterrupt /\ ~Break
  <2>1. /\ UNCHANGED <<pcbFree_h, p_s>> /\ ExitInterrupt(readyQueue \o pseudoClockQueue)
        /\ readyQueue \o pseudoClockQueue \in Seq(Pcb)
    BY <1>1, <1>9, ConcatAdds DEF TimerInterrupt, procs, TypeInv, CPU, Queues
  <2> QED
    BY <1>1, <1>3, <2>1, ExitInterruptView DEF TypeInv, SSIStands
<1>10. CASE DeviceInterrupt /\ ~Break
  <2>1. PICK d \in Device : Dismiss(d) \/ Complete(d)
    BY <1>10 DEF DeviceInterrupt
  <2>2. CASE Dismiss(d)
    BY <1>1, <1>3, <2>2, ExitInterruptView DEF Dismiss, procs, TypeInv, CPU, SSIStands
  <2>3. CASE Complete(d)
    <3>1. Waiter(d) \in Pcb
      BY <1>1, <2>3, CompleteUnlinks
    <3>2. insertProcQ(readyQueue, Waiter(d)) \in Seq(Pcb)
      BY <3>1, <1>1, AppendAdds DEF insertProcQ, TypeInv, CPU
    <3> QED
      BY <1>1, <1>3, <2>3, <3>2, ExitInterruptView DEF Complete, procs, TypeInv, SSIStands
  <2> QED
    BY <2>1, <2>2, <2>3
<1>11. "RECEIVEMESSAGE" \notin Behaviour /\ "TRAP" \notin Behaviour
  BY DEF OnlyCalls
<1> QED
  BY <1>1, <1>4, <1>5, <1>6, <1>7, <1>8, <1>9, <1>10, <1>11
  DEF Next, ProcessStep, PLTInterrupt, WantMessage, Trap, Stopped

\* Two processes live, and the first is in a call that has its token: no verdict but
\* WAIT is right.
LEMMA SteadyRuns ==
  ASSUME Inv, SteadyInv, VerdictSound, ModeInv, NotBroken
  PROVE  NeverStops
<1>1. ssi_pcb \in Live /\ test_pcb \in Live /\ test_pcb \in Clients /\ test_pcb # ssi_pcb
  BY NucleusAssumption DEF Live, Inv, SSIStands, SSILives, SteadyInv, IsFree, Clients
<1>2. mode # "halt"
  BY <1>1 DEF VerdictSound
<1>3. ASSUME mode = "panic" PROVE FALSE
  <2>1. PICK p : p = test_pcb
    OBVIOUS
  <2>2. /\ p_s[p].op = "receive" /\ Matching(p, p_s[p].who) = {} /\ ~SoftBlocked(p)
        /\ p_s[ssi_pcb].op = "receive" /\ Matching(ssi_pcb, p_s[ssi_pcb].who) = {}
    BY <1>1, <1>3, <2>1 DEF VerdictSound
  <2>3. current_process = NULL /\ NULL # ssi_pcb /\ NULL # p
    BY <1>1, <1>3, <2>1, NucleusAssumption DEF ModeInv, Live
  <2>4. ControlOf(p) = p_s[p] /\ ControlOf(ssi_pcb) = p_s[ssi_pcb]
    BY <2>3 DEF ControlOf
  <2>5. Awaits(p) /\ p_s[p].who = ssi_pcb /\ InCall(p) /\ p \in Clients
    BY <1>1, <2>1, <2>2, <2>4 DEF SteadyInv, Calls, Awaits, InCall
  <2>6. Asked(p) = {}
    <3>1. p_s[ssi_pcb] = AtLoopHead
      BY <2>2, <2>4 DEF SteadyInv, Loops
    <3> QED
      BY <2>2, <3>1 DEF Matching, AtLoopHead, ReceiveFrom, Asked, Words, Letters
  <2>7. Told(p) = {}
    BY <2>2, <2>5 DEF Matching, Told, Words, Letters
  <2>8. Work(p) = Running
    BY <2>3 DEF Work, Inv, SSIStands, SSIServesOthers
  <2>9. ~Pending(p) /\ ~Answered(p) /\ ~Idle(p) /\ ~Departed(p)
    BY <2>5, <2>6, <2>7 DEF Pending, Answered, Idle, Departed, InCall
  <2>10. ~Served(p) /\ ~Replied(p)
    BY <2>8 DEF Served, Replied, Serving, Running
  <2>11. ~Queued(p)
    BY <2>2 DEF Queued, OnItsQueue, SoftBlocked, OnDevice, Lines
  <2> QED
    BY <2>5, <2>9, <2>10, <2>11 DEF Inv, CallInv, PhaseInv, Phased
<1> QED
  BY <1>2, <1>3 DEF NeverStops, NotBroken, Inv, TypeInv, CPU, Modes

\* Processes that keep the rules and only make calls that kill nobody never bring the
\* system to a stop: HALT and PANIC need a death, or a receive that is no call.
THEOREM SystemRunsOn ==
  ASSUME Disciplined, TerminalsWork, OnlyCalls PROVE Spec => []NeverStops
<1> DEFINE All == Inv /\ SteadyInv
<1>1. Init => All
  <2>1. Init => SteadyInv
    <3> SUFFICES ASSUME Init PROVE SteadyInv
      OBVIOUS
    <3>1. \A p \in Clients : ControlOf(p) = Running
      BY ClientFacts DEF Init, ControlOf
    <3>2. \A p \in Clients : Calls(p)
      BY <3>1 DEF Calls, Awaits, Running
    <3>3. Loops /\ ~IsFree(test_pcb)
      BY DEF Init, Loops, ControlOf, IsFree
    <3> QED
      BY <3>2, <3>3 DEF SteadyInv
  <2> QED
    BY <2>1, InitInv
<1>2. All /\ [Next]_vars => All'
  BY NextInv, NextSteady
<1>3. Spec => []VerdictSound /\ []NotBroken
  BY VerdictsAreSound, NothingBreaks DEF Disciplined
<1>4. Spec => []ModeInv
  BY InitMode, NextMode, PTL DEF Spec
<1>5. All /\ VerdictSound /\ ModeInv /\ NotBroken => NeverStops
  BY SteadyRuns
<1> QED
  BY <1>1, <1>2, <1>3, <1>4, <1>5, PTL DEF Spec
-----------------------------------------------------------------------------
(* The SSI's promise *)

\* A call is for a result: nobody in a call asks for its own end, or for no service.
AskInv == \A p \in Clients : InCall(p) =>
            Wish(p).service \notin {"NONE", "INVALID"} /\ Wish(p) # Suicide

\* Nothing of a client's calls changes that ServiceCalls knows of.
Unseen(p) ==
  /\ PendingCall(p)' = PendingCall(p) /\ AnswerHeld(p)' = AnswerHeld(p)
  /\ InCall(p)' => InCall(p) /\ Wish(p)' = Wish(p)

\* A call, an answer to a call, and the return from one.
Begins(p)  == /\ PendingCall(p) = Nothing /\ PendingCall(p)' \in Requests
              /\ AnswerHeld(p)' = AnswerHeld(p)
              /\ InCall(p)' => Wish(p)' \in Requests
Arrives(p) == /\ PendingCall(p)' = PendingCall(p) /\ PendingCall(p) # Nothing
              /\ AnswerHeld(p) = Nothing /\ Answers(PendingCall(p), AnswerHeld(p)')
              /\ InCall(p)' => InCall(p) /\ Wish(p)' = Wish(p)
Ended(p)   == /\ AnswerHeld(p) # Nothing
              /\ PendingCall(p)' = Nothing /\ AnswerHeld(p)' = Nothing
              /\ ~InCall(p)'

\* What ServiceCalls sees of a call: what the client waits for, and the SSI's word ...
HeldView ==
  \A p \in Clients :
    /\ PendingCall(p) = IF InCall(p) THEN Wish(p) ELSE Nothing
    /\ Told(p) = {} => AnswerHeld(p) = Nothing
    /\ InCall(p) => \A w : Told(p) = {w} => AnswerHeld(p) = w
\* ... and so, the phase the call is in.
PhaseView ==
  \A p \in Clients :
    /\ Idle(p) \/ Departed(p) =>
         ~InCall(p) /\ PendingCall(p) = Nothing /\ AnswerHeld(p) = Nothing
    /\ Pending(p) \/ Served(p) \/ Replied(p) \/ Queued(p) =>
         InCall(p) /\ PendingCall(p) = Wish(p) /\ AnswerHeld(p) = Nothing
    /\ Answered(p) => /\ InCall(p) /\ PendingCall(p) = Wish(p) /\ Told(p) = {AnswerHeld(p)}
                      /\ Answers(Wish(p), AnswerHeld(p))

\* The refinement mapping reads the words of the invariant.
LEMMA HeldOf == HeldView
<1> SUFFICES ASSUME NEW p \in Clients
             PROVE  /\ PendingCall(p) = IF InCall(p) THEN Wish(p) ELSE Nothing
                    /\ Told(p) = {} => AnswerHeld(p) = Nothing
                    /\ InCall(p) => \A w : Told(p) = {w} => AnswerHeld(p) = w
  BY DEF HeldView
<1>1. p \in Live <=> ~IsFree(p)
  BY ClientFacts DEF Live, IsFree
<1>2. Matching(p, ssi_pcb) = Letters(inbox[p], ssi_pcb)
  BY NucleusAssumption DEF Matching, Letters
<1>3. Told(p) = {inbox[p][i].payload : i \in Matching(p, ssi_pcb)}
  BY <1>2 DEF Told, Words
<1>4. Told(p) = {} => AnswerHeld(p) = Nothing
  BY <1>3 DEF AnswerHeld
<1>5. ASSUME InCall(p), NEW w, Told(p) = {w}
      PROVE  AnswerHeld(p) = w
  <2>1. Matching(p, ssi_pcb) # {} /\ \A i \in Matching(p, ssi_pcb) : inbox[p][i].payload = w
    BY <1>3, <1>5
  <2> QED
    BY <2>1, <1>1, <1>5 DEF AnswerHeld, InCall
<1> QED
  BY <1>1, <1>4, <1>5 DEF PendingCall, InCall, Wish

\* Before the answer there is no word of the SSI, with it the answer is that word.
LEMMA PhaseHeld == PhaseView
<1> SUFFICES ASSUME NEW p \in Clients
             PROVE
    /\ Idle(p) \/ Departed(p) =>
         ~InCall(p) /\ PendingCall(p) = Nothing /\ AnswerHeld(p) = Nothing
    /\ Pending(p) \/ Served(p) \/ Replied(p) \/ Queued(p) =>
         InCall(p) /\ PendingCall(p) = Wish(p) /\ AnswerHeld(p) = Nothing
    /\ Answered(p) => /\ InCall(p) /\ PendingCall(p) = Wish(p) /\ Told(p) = {AnswerHeld(p)}
                      /\ Answers(Wish(p), AnswerHeld(p))
  BY DEF PhaseView
<1>1. Idle(p) \/ Departed(p) => ~InCall(p) /\ Told(p) = {}
  BY DEF Idle, Departed, Calm, InCall
<1>2. Pending(p) \/ Served(p) \/ Replied(p) => InCall(p) /\ Told(p) = {}
  BY DEF Pending, Served, Replied, Calm
<1>3. Queued(p) => InCall(p) /\ Told(p) = {}
  BY DEF Queued
<1>4. Answered(p) => InCall(p) /\ \E w \in Payload : Told(p) = {w} /\ Answers(Wish(p), w)
  BY DEF Answered
<1> QED
  BY <1>1, <1>2, <1>3, <1>4, HeldOf DEF HeldView

\* A client whose call stays as it is.
LEMMA StaysUnseen ==
  ASSUME CallInv, CallInv', NEW p \in Clients, Stays(p)
  PROVE  Unseen(p)
<1>1. (InCall(p)' <=> InCall(p)) /\ Wish(p)' = Wish(p) /\ Told(p)' = Told(p)
  BY StaysPhased DEF Stays
<1>2. HeldView /\ HeldView' /\ PhaseView /\ PhaseView'
  BY HeldOf, PhaseHeld, PTL
<1>3. PendingCall(p)' = PendingCall(p)
  BY <1>1, <1>2 DEF HeldView
<1>4. AnswerHeld(p)' = AnswerHeld(p)
  <2>2. CASE Told(p) = {}
    BY <2>2, <1>1, <1>2 DEF HeldView
  <2>3. CASE Told(p) # {}
    <3>1. Answered(p)
      BY <2>3, PhaseOf DEF CallInv
    <3>2. Answered(p)'
      BY <3>1, StaysPhased
    <3> QED
      BY <3>1, <3>2, <1>1, <1>2 DEF PhaseView
  <2> QED
    BY <2>2, <2>3
<1> QED
  BY <1>1, <1>3, <1>4 DEF Unseen

\* The steps of a call, in ServiceCalls' terms.
LEMMA PhaseSteps ==
  ASSUME NEW p \in Clients
  PROVE  /\ (Idle(p) \/ Departed(p)) /\ (Idle(p)' \/ Departed(p)') => Unseen(p)
         /\ /\ Pending(p) \/ Served(p) \/ Replied(p) \/ Queued(p)
            /\ Pending(p)' \/ Served(p)' \/ Replied(p)' \/ Queued(p)'
            /\ Wish(p)' = Wish(p)
            => Unseen(p)
         /\ Idle(p) /\ Pending(p)' /\ Wish(p)' \in Requests => Begins(p)
         /\ /\ AskInv /\ (Replied(p) \/ Queued(p)) /\ Answered(p)' /\ Wish(p)' = Wish(p)
            => Arrives(p)
         /\ AskInv /\ Answered(p) /\ Idle(p)' => Ended(p)
<1>1. PhaseView /\ PhaseView'
  BY PhaseHeld, PTL
<1>3. ASSUME AskInv, Replied(p) \/ Queued(p) \/ Answered(p)
      PROVE  PendingCall(p) # Nothing /\ (Answered(p) => AnswerHeld(p) # Nothing)
  <2>1. InCall(p) /\ PendingCall(p) = Wish(p) /\ Wish(p).service # "NONE"
    BY <1>3, <1>1 DEF AskInv, PhaseView
  <2> QED
    BY <2>1, <1>3, <1>1 DEF Nothing, Answers, PhaseView
<1>4. ASSUME Idle(p) \/ Departed(p), Idle(p)' \/ Departed(p)'
      PROVE  Unseen(p)
  BY <1>1, <1>4 DEF Unseen, PhaseView
<1>5. ASSUME Pending(p) \/ Served(p) \/ Replied(p) \/ Queued(p),
             Pending(p)' \/ Served(p)' \/ Replied(p)' \/ Queued(p)',
             Wish(p)' = Wish(p)
      PROVE  Unseen(p)
  BY <1>1, <1>5 DEF Unseen, PhaseView
<1>6. ASSUME Idle(p), Pending(p)', Wish(p)' \in Requests
      PROVE  Begins(p)
  BY <1>1, <1>6 DEF Begins, PhaseView
<1>7. ASSUME AskInv, Replied(p) \/ Queued(p), Answered(p)', Wish(p)' = Wish(p)
      PROVE  Arrives(p)
  <2>1. PendingCall(p) # Nothing /\ InCall(p) /\ PendingCall(p) = Wish(p) /\ AnswerHeld(p) = Nothing
    BY <1>1, <1>3, <1>7 DEF PhaseView
  <2> QED
    BY <1>1, <1>7, <2>1 DEF Arrives, PhaseView
<1>8. ASSUME AskInv, Answered(p), Idle(p)'
      PROVE  Ended(p)
  BY <1>1, <1>3, <1>8 DEF Ended, PhaseView
<1> QED
  BY <1>4, <1>5, <1>6, <1>7, <1>8

\* Processes ask for services that answer them: not for their own end.
Asking == {"TERMPROCESS", "INVALID"} \cap Behaviour = {}

\* The steps of ServiceCalls, and a step it does not see.
Seen == UNCHANGED Promise!vars \/ Promise!Next

\* Requests are requests of ServiceCalls, and messages carry its answers.
LEMMA HeldTypes ==
  /\ Asking /\ current_process \in Pcb =>
       \A r \in Requests : /\ r \in Payload \ {Nothing} /\ r # Suicide
                           /\ r.service \notin {"NONE", "INVALID"}
  /\ TypeInv => \A p \in Clients : AnswerHeld(p) \in Payload
<1>1. ASSUME Asking, current_process \in Pcb, NEW r \in Requests
      PROVE  /\ r \in Payload \ {Nothing} /\ r # Suicide
             /\ r.service \notin {"NONE", "INVALID"}
  <2>1. /\ "NONE" \notin Service /\ "INVALID" \notin Behaviour /\ "TERMPROCESS" \notin Behaviour
        /\ Victim \subseteq Pcb /\ NULL \notin Pcb
    BY <1>1, NucleusAssumption DEF Asking, Service
  <2>2. CASE \E s \in (Behaviour \cap Service) \ {"DOIO"} : r = [service |-> s, arg |-> NULL]
    BY <2>1, <2>2 DEF Payload, Nothing, Suicide, Service
  <2>3. CASE \E d \in Device : r = [service |-> "DOIO", arg |-> d]
    BY <2>3 DEF Payload, Nothing, Suicide, Service
  <2>4. CASE \E v \in Victim : r = [service |-> "TERMPROCESS", arg |-> v]
    BY <2>1, <2>4 DEF Payload, Nothing, Suicide, Service
  <2>5. CASE \E p \in {q \in {current_process} : "GETPARENT" \in Behaviour} :
               r = [service |-> "GETPROCESSID", arg |-> p]
    BY <1>1, <2>5 DEF Payload, Nothing, Suicide, Service
  <2> QED
    BY <2>2, <2>3, <2>4, <2>5 DEF Requests
<1>2. ASSUME TypeInv, NEW p \in Clients
      PROVE  AnswerHeld(p) \in Payload
  <2>1. inbox[p] \in Seq(SoundMessage) /\ \A m \in SoundMessage : m.payload \in Payload
    BY <1>2, ClientFacts DEF TypeInv, Msgs, SoundMessage, Message
  <2>2. Nothing \in Payload
    BY DEF Nothing, Payload
  <2>3. Matching(p, ssi_pcb) # {} =>
          (CHOOSE i \in Matching(p, ssi_pcb) : TRUE) \in DOMAIN inbox[p]
    BY DEF Matching
  <2> QED
    BY <2>1, <2>2, <2>3 DEF AnswerHeld
<1> QED
  BY <1>1, <1>2

\* A step that keeps all calls is none of ServiceCalls'.
LEMMA QuietSeen ==
  ASSUME AskInv, \A p \in Clients : Unseen(p)
  PROVE  AskInv' /\ Seen
<1>1. AskInv'
  BY DEF AskInv, Unseen
<1>2. UNCHANGED Promise!vars
  BY DEF Promise!vars, Unseen, Clients
<1> QED
  BY <1>1, <1>2 DEF Seen

\* One client calls.
LEMMA CallSeen ==
  ASSUME Asking, AskInv, current_process \in Pcb, NEW p \in Clients, Begins(p),
         \A q \in Clients \ {p} : Unseen(q)
  PROVE  AskInv' /\ Seen
<1>1. \A r \in Requests : /\ r \in Payload \ {Nothing} /\ r # Suicide
                          /\ r.service \notin {"NONE", "INVALID"}
  BY HeldTypes
<1>2. AskInv'
  BY <1>1 DEF AskInv, Unseen, Begins
<1>3. Promise!Call(p)
  BY <1>1 DEF Promise!Call, Unseen, Begins, Clients
<1> QED
  BY <1>2, <1>3 DEF Seen, Promise!Next, Clients

\* Clients get the answers to their calls.
LEMMA AnswerSeen ==
  ASSUME AskInv, TypeInv', \A p \in Clients : Unseen(p) \/ Arrives(p)
  PROVE  AskInv' /\ Seen
<1>1. AskInv'
  BY DEF AskInv, Unseen, Arrives
<1>2. \A p \in Clients : AnswerHeld(p)' \in Payload
  <2>1. (TypeInv => \A p \in Clients : AnswerHeld(p) \in Payload)'
    BY HeldTypes, PTL
  <2> QED
    BY <2>1
<1>3. Promise!Answer
  BY <1>2 DEF Promise!Answer, Unseen, Arrives, Clients
<1> QED
  BY <1>1, <1>3 DEF Seen, Promise!Next

\* One client has its answer and goes on.
LEMMA ReturnSeen ==
  ASSUME AskInv, NEW p \in Clients, Ended(p), \A q \in Clients \ {p} : Unseen(q)
  PROVE  AskInv' /\ Seen
<1>1. AskInv'
  BY DEF AskInv, Unseen, Ended
<1>2. Promise!Return(p)
  BY DEF Promise!Return, Unseen, Ended, Clients
<1> QED
  BY <1>1, <1>2 DEF Seen, Promise!Next, Clients

\* A receive takes an answer, or begins a service, or changes no call.
LEMMA ReceiveSeen ==
  ASSUME TypeInv, TypeInv', PlaceInv, SSIStands, CallInv, CallInv', AskInv, Receive
  PROVE  AskInv' /\ Seen
<1>1. CASE ClientTakes
  <2>1. PICK p \in Clients : /\ Answered(p) \/ Idle(p)
                             /\ Idle(p)' /\ \A q \in Clients \ {p} : Stays(q)
    BY <1>1 DEF ClientTakes
  <2>2. \A q \in Clients \ {p} : Unseen(q)
    BY <2>1, StaysUnseen
  <2>3. CASE Answered(p)
    BY <2>1, <2>2, <2>3, PhaseSteps, ReturnSeen
  <2>4. CASE Idle(p)
    BY <2>1, <2>2, <2>4, PhaseSteps, QuietSeen
  <2> QED
    BY <2>1, <2>3, <2>4
<1>2. CASE SSITakes
  <2>1. PICK p \in Clients : /\ Pending(p) /\ Served(p)' /\ Wish(p)' = Wish(p)
                             /\ \A q \in Clients \ {p} : Stays(q)
    BY <1>2 DEF SSITakes
  <2> QED
    BY <2>1, StaysUnseen, PhaseSteps, QuietSeen
<1>3. CASE NobodyTakes
  BY <1>3, StaysUnseen, QuietSeen DEF NobodyTakes
<1> QED
  BY <1>1, <1>2, <1>3, ReceiveMoves

\* A service that is asked for a result keeps all calls: the answer is yet to come, and
\* who is born or killed is in none.
LEMMA ServiceSeen ==
  ASSUME Inv, Inv', AskInv, NEW p, NEW r, ServesCall(p, r), SSIRequest(p, r), ~Break
  PROVE  AskInv' /\ Seen
<1>1. /\ p \in Clients /\ Served(p) /\ Wish(p) = r /\ InCall(p)
      /\ r.service # "INVALID" /\ r # Suicide
  BY DEF ServesCall, Served, AskInv
<1>2. ASSUME Replied(p)' \/ Queued(p)', Wish(p)' = r
      PROVE  Unseen(p)
  BY <1>1, <1>2, PhaseSteps
<1>3. \A q \in Clients : /\ Stays(q) => Unseen(q)
                         /\ Idle(q) /\ Idle(q)' => Unseen(q)
  BY StaysUnseen, PhaseSteps DEF Inv
<1>4. CASE CreateProcess(p, r)
  <2>1. PICK child \in pcbFree_h \cap Clients :
          /\ Idle(child) /\ Idle(child)'
          /\ \A q \in Clients \ {p, child} : Stays(q)
    BY <1>4, CreateProcessMoves DEF Inv, RuleInv, CareInv
  <2>2. Unseen(p)
    BY <1>2, <1>4, CreateProcessMoves DEF Inv, RuleInv, CareInv
  <2> QED
    BY <2>1, <2>2, <1>3, QuietSeen
<1>5. CASE Terminate(p, r) \/ Refuse(p, r)
  <2>1. PICK v \in Clients :
          /\ \A q \in Clients \ {p} :
               IF q \in Subtree(v) THEN Idle(q) /\ Idle(q)' ELSE Stays(q)
          /\ IF v = p THEN r.service = "INVALID" \/ r = Suicide
                      ELSE Replied(p)' /\ Wish(p)' = r
    BY <1>5, TerminateMoves DEF Inv, RuleInv, CareInv
  <2>2. Unseen(p)
    BY <2>1, <1>1, <1>2
  <2> QED
    BY <2>1, <2>2, <1>3, QuietSeen
<1>6. CASE DoIO(p, r)
  BY <1>2, <1>3, <1>6, DoIOMoves, QuietSeen DEF Inv
<1>7. CASE WaitForClock(p, r)
  BY <1>2, <1>3, <1>7, WaitForClockMoves, QuietSeen DEF Inv
<1>8. CASE Inquire(p, r)
  BY <1>2, <1>3, <1>8, InquireMoves, QuietSeen DEF Inv
<1> QED
  BY <1>4, <1>5, <1>6, <1>7, <1>8 DEF SSIRequest

\* Every step is one of ServiceCalls', or none.
LEMMA NextSeen ==
  ASSUME Disciplined, Asking, Inv, Inv', AskInv, [Next]_vars
  PROVE  AskInv' /\ Seen
<1>1. /\ Prudent = TRUE /\ SSISpared /\ "PLT" \notin Behaviour
      /\ TypeInv /\ TypeInv' /\ PlaceInv /\ SSIStands /\ CallInv /\ CallInv' /\ PoolInv
  BY DEF Disciplined, Inv, RuleInv
<1>2. \A q \in Clients : /\ Stays(q) => Unseen(q)
                         /\ Idle(q) /\ Idle(q)' => Unseen(q)
  BY <1>1, StaysUnseen, PhaseSteps
<1>3. ASSUME \A q \in Clients : Stays(q) \/ (Idle(q) /\ Idle(q)')
      PROVE  AskInv' /\ Seen
  BY <1>2, <1>3, QuietSeen
<1>4. CASE Break \/ UNCHANGED vars \/ \E d \in Device : DeviceCompletes(d)
  <2>1. UNCHANGED <<procs, queues, msgs, current_process, cpu, p_s>>
    BY <1>4 DEF Break, vars, DeviceCompletes, procs, queues, msgs
  <2> QED
    BY <2>1, <1>1, <1>3, QuietMoves DEF CallInv
<1>5. CASE Request /\ ~Break
  <2>1. PICK p \in Clients, r \in Requests :
          /\ p = current_process /\ Idle(p) /\ Pending(p)' /\ Wish(p)' = r
          /\ \A q \in Clients \ {p} : Stays(q)
    BY <1>1, <1>5, RequestMoves
  <2>2. Begins(p) /\ current_process \in Pcb
    BY <2>1, PhaseSteps, ClientFacts
  <2> QED
    BY <2>1, <2>2, <1>2, CallSeen
<1>6. CASE SendMessage /\ ~Break
  BY <1>1, <1>3, <1>6, SendMessageMoves
<1>7. CASE WantMessage
  BY <1>1, <1>3, <1>7, WantMessageMoves
<1>8. CASE Receive
  BY <1>1, <1>8, ReceiveSeen
<1>9. CASE Trap /\ ~Break
  BY <1>1, <1>3, <1>9, TrapMoves
<1>10. CASE SSIServes /\ ~Break
  BY <1>1, <1>10, SSIServesCall, ServiceSeen
<1>11. CASE Reply /\ ~Break
  <2>1. PICK p \in Clients :
          /\ \/ Departed(p) /\ Idle(p)'
             \/ Replied(p) /\ Answered(p)' /\ Wish(p)' = Wish(p)
          /\ \A q \in Clients \ {p} : Stays(q)
    BY <1>1, <1>11, ReplyMoves
  <2>2. Unseen(p) \/ Arrives(p)
    BY <2>1, PhaseSteps
  <2> QED
    BY <2>1, <2>2, <1>1, <1>2, AnswerSeen
<1>12. CASE TimerInterrupt /\ ~Break
  <2>1. \A q \in Clients : Stays(q) \/ (Queued(q) /\ Answered(q)' /\ Wish(q)' = Wish(q))
    BY <1>1, <1>12, TimerInterruptMoves
  <2>2. \A q \in Clients : Unseen(q) \/ Arrives(q)
    BY <2>1, <1>2, PhaseSteps
  <2> QED
    BY <2>2, <1>1, AnswerSeen
<1>13. CASE DeviceInterrupt /\ ~Break
  <2>1. PICK d \in Device : Dismiss(d) \/ Complete(d)
    BY <1>13 DEF DeviceInterrupt
  <2>2. CASE Dismiss(d)
    BY <2>2, <1>1, <1>3, DismissMoves DEF CallInv, TypeInv, CPU
  <2>3. CASE Complete(d)
    <3>1. PICK w \in Clients :
            /\ Queued(w) /\ Answered(w)' /\ Wish(w)' = Wish(w)
            /\ \A q \in Clients \ {w} : Stays(q)
      BY <2>3, <1>1, CompleteMoves
    <3>2. Arrives(w)
      BY <3>1, PhaseSteps
    <3> QED
      BY <3>1, <3>2, <1>1, <1>2, AnswerSeen
  <2> QED
    BY <2>1, <2>2, <2>3
<1> QED
  BY <1>1, <1>4, <1>5, <1>6, <1>7, <1>8, <1>9, <1>10, <1>11, <1>12, <1>13
  DEF Next, ProcessStep, PLTInterrupt, Stopped

\* At the start nobody calls.
LEMMA InitSeen == Init => AskInv /\ Promise!Init
<1> SUFFICES ASSUME Init PROVE AskInv /\ Promise!Init
  OBVIOUS
<1>1. \A p \in Clients : ControlOf(p) = Running /\ inbox[p] = <<>>
  BY ClientFacts DEF Init, ControlOf
<1>2. \A p \in Clients : ~Awaits(p)
  BY <1>1 DEF Awaits, Running
<1>3. \A p \in Clients : PendingCall(p) = Nothing /\ AnswerHeld(p) = Nothing
  BY <1>1, <1>2 DEF PendingCall, AnswerHeld, Matching
<1>4. Promise!Init
  BY <1>3 DEF Promise!Init, Clients
<1> QED
  BY <1>2, <1>4 DEF AskInv, InCall

\* The SSI, the device handlers and the clock together keep the promise of ServiceCalls.
THEOREM NucleusImplementsServiceCalls ==
  ASSUME Disciplined, Asking PROVE Spec => ImplementsServiceCalls
<1>1. Inv /\ Inv' /\ AskInv /\ [Next]_vars => AskInv' /\ Seen
  BY NextSeen
<1>2. Spec => []Inv
  BY InvHolds
<1>3. Seen => [Promise!Next]_(Promise!vars)
  BY DEF Seen
<1> QED
  BY <1>1, <1>2, <1>3, InitSeen, PTL DEF Spec, ImplementsServiceCalls, Promise!Spec
=============================================================================
