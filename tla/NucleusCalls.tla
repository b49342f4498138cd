---------------------------- MODULE NucleusCalls -----------------------------
(***************************************************************************)
(* What each step of Nucleus does to the calls in progress, when processes *)
(* keep the rules of section "Discipline".  The theorems that rest on it   *)
(* are in NucleusRules.                                                    *)
(*                                                                         *)
(* That a call has one token - its request, the SSI at work on it, a place *)
(* in a queue, its answer - is not inductive: a message that the empty     *)
(* pool refuses, a CREATEPROCESS that finds no PCB, or a victim that is    *)
(* itself in a call would lose the token or leave it behind.  So the       *)
(* invariant also says what the rules are for: the pool holds what the     *)
(* calls in progress can take, there is a PCB for every birth asked for,   *)
(* and who is about to be killed sleeps until then.                        *)
(***************************************************************************)
EXTENDS NucleusPlaces

\* The rules are kept, nobody asks for the SSI's end, and there is a message for
\* each process but the SSI.  A preempted process starts again where it last
\* gave the CPU away (PLTInterrupt), so there is no preemption.
Disciplined ==
  /\ Prudent = TRUE /\ SSISpared
  /\ "PLT" \notin Behaviour
  /\ MAXMESSAGES >= Cardinality(Pcb) - 1

Clients == Pcb \ {ssi_pcb}

\* What q says in the messages of s, and that it says it once.
Letters(s, q) == {i \in DOMAIN s : s[i].sender = q}
Words(s, q)   == {s[i].payload : i \in Letters(s, q)}
Single(s, q)  == \A i, j \in Letters(s, q) : i = j

\* All that concerns a client's calls: its requests in the SSI's inbox, the SSI's
\* messages in its own, the SSI's control while it is at work for it, the lines
\* in whose queues it is, what it waits for.
Asked(p)  == Words(inbox[ssi_pcb], p)
Told(p)   == Words(inbox[p], ssi_pcb)
Work(p)   == IF cpu.op \in {"serve", "reply"} /\ cpu.who = p THEN cpu ELSE Running
Lines(p)  == {l \in Line : p \in ToSet(blockedQueue[l])}
InCall(p) == ~IsFree(p) /\ Awaits(p)
Wish(p)   == ControlOf(p).val

\* The phases of a call.  Departed: the SSI answers a process that has asked for
\* its own end.
Calm(p)     == Asked(p) = {} /\ Told(p) = {} /\ ~SoftBlocked(p)
Idle(p)     == ~InCall(p) /\ Calm(p) /\ Work(p) = Running
Departed(p) == IsFree(p) /\ Calm(p) /\ Work(p).op = "reply"
Pending(p)  == /\ InCall(p) /\ Asked(p) = {Wish(p)}
               /\ Told(p) = {} /\ ~SoftBlocked(p) /\ Work(p) = Running
Served(p)   == InCall(p) /\ Calm(p) /\ Work(p) = Serving(p, Wish(p))
Replied(p)  == /\ InCall(p) /\ Calm(p)
               /\ Work(p).op = "reply" /\ Answers(Wish(p), Work(p).val)
OnItsQueue(p) ==
  \/ OnClock(p) /\ Wish(p).service = "CLOCKWAIT"
  \/ /\ Wish(p).service = "DOIO" /\ Wish(p).arg \in Device
     /\ Lines(p) = {Wish(p).arg.line} /\ blockedOnDevice[p] = Wish(p).arg.no
Queued(p)   == /\ InCall(p) /\ Asked(p) = {} /\ Told(p) = {} /\ Work(p) = Running
               /\ OnItsQueue(p)
Answered(p) == /\ InCall(p) /\ Asked(p) = {} /\ ~SoftBlocked(p) /\ Work(p) = Running
               /\ \E w \in Payload : Told(p) = {w} /\ Answers(Wish(p), w)
Phased(p) ==
  \/ Idle(p) \/ Departed(p) \/ Pending(p) \/ Served(p)
  \/ Replied(p) \/ Queued(p) \/ Answered(p)

PhaseInv  == \A p \in Clients : Phased(p)
SingleInv == \A p \in Clients : Single(inbox[ssi_pcb], p) /\ Single(inbox[p], ssi_pcb)

\* The SSI has yet to serve the call.
Open(p) == Pending(p) \/ Served(p)

\* A process in a call is not ready before its answer has come.
RestInv == \A p \in Clients : IsReady(p) /\ InCall(p) => Answered(p)

\* The clients that may take a message from the pool without having given one
\* back, those whose answer will be lost with them, and enough for both.
Suicide  == [service |-> "TERMPROCESS", arg |-> NULL]
Takers   == {p \in Clients : Asked(p) = {} /\ Told(p) = {}}
Leavers  == {p \in Clients : Departed(p) \/ (Open(p) /\ Wish(p) = Suicide)}
PoolInv  == Cardinality(Takers) + Cardinality(Leavers) <= msgFree

\* There is a free PCB for every birth asked for.
Births   == {p \in Clients : Open(p) /\ Wish(p).service = "CREATEPROCESS"}
BirthInv == Cardinality(Births) <= Cardinality(pcbFree_h)

\* What the caller of an open call has made sure of: it is the parent of a process it
\* wants killed, whoever is about to die besides the caller is parked, a caller that
\* asks for its parent has one.
Doomed(p) == Ends(p, Wish(p)) \ {p}
Foreseen(p) ==
  /\ Wish(p).service = "CREATEPROCESS" => Wish(p).arg = NULL
  /\ Wish(p).service = "TERMPROCESS" /\ Wish(p).arg # NULL =>
       Wish(p).arg \in Clients /\ p_parent[Wish(p).arg] = p
  /\ Wish(p).service = "GETPROCESSID" /\ Wish(p).arg # NULL => p_parent[p] # NULL
  /\ \A q \in Doomed(p) : Parked(q)
DoomInv == \A p \in Clients : Open(p) => Foreseen(p)

\* The process tree has no cycle: every set of PCBs has one whose parent is outside.
TreeInv == \A S \in SUBSET Pcb : S # {} => \E x \in S : p_parent[x] \notin S

\* A process waits on a queue for a device that has its command, and no two want
\* the same device.
BusyInv  == \A p \in Clients : Lines(p) # {} => dev[Wish(p).arg] # "idle"
RivalInv ==
  \A p, q \in Clients :
    InCall(p) /\ InCall(q) /\ Wish(p) = Wish(q) /\ Wish(p).service = "DOIO" => p = q

CallInv == PhaseInv /\ SingleInv
CareInv == RestInv /\ BirthInv /\ DoomInv /\ TreeInv /\ RivalInv
RuleInv == CareInv /\ PoolInv /\ BusyInv
-----------------------------------------------------------------------------
(* Messages of one sender *)

\* A message at the end of an inbox adds its word to its sender's.
LEMMA WordsAppend ==
  ASSUME NEW S, NEW s \in Seq(S), NEW m \in S, NEW q
  PROVE  /\ Words(Append(s, m), q) =
              IF m.sender = q THEN Words(s, q) \cup {m.payload} ELSE Words(s, q)
         /\ Single(s, q) /\ (m.sender = q => Words(s, q) = {}) => Single(Append(s, m), q)
<1> DEFINE t == Append(s, m)
<1>1. /\ DOMAIN s = 1..Len(s) /\ DOMAIN t = 1..(Len(s) + 1) /\ Len(s) \in Nat
      /\ t[Len(s) + 1] = m /\ \A i \in 1..Len(s) : t[i] = s[i]
  OBVIOUS
<1>2. Letters(t, q) = Letters(s, q) \cup (IF m.sender = q THEN {Len(s) + 1} ELSE {})
  BY <1>1 DEF Letters
<1>3. \A i \in Letters(s, q) : t[i] = s[i]
  BY <1>1 DEF Letters
<1>4. Words(t, q) = IF m.sender = q THEN Words(s, q) \cup {m.payload} ELSE Words(s, q)
  BY <1>1, <1>2, <1>3 DEF Words
<1>5. Single(s, q) /\ (m.sender = q => Words(s, q) = {}) => Single(t, q)
  <2>1. Words(s, q) = {} => Letters(s, q) = {}
    BY DEF Words
  <2> QED
    BY <1>2, <2>1 DEF Single
<1> QED
  BY <1>4, <1>5

\* A message taken from an inbox takes the word of its sender away, and only that.
LEMMA WordsRemove ==
  ASSUME NEW S, NEW s \in Seq(S), NEW i \in DOMAIN s, NEW q, Single(s, q)
  PROVE  /\ Single(RemoveAt(s, i), q)
         /\ s[i].sender = q => Words(s, q) = {s[i].payload} /\ Words(RemoveAt(s, i), q) = {}
         /\ s[i].sender # q => Words(RemoveAt(s, i), q) = Words(s, q)
<1> DEFINE t == RemoveAt(s, i)
           Old(n) == IF n < i THEN n ELSE n + 1
<1>1. /\ t \in Seq(S) /\ Len(t) = Len(s) - 1
      /\ \A n \in 1..Len(s) - 1 : t[n] = s[Old(n)]
  BY RemoveAtMoves, RemoveAtIsSeq
<1>2. DOMAIN s = 1..Len(s) /\ DOMAIN t = 1..Len(s) - 1 /\ Len(s) \in Nat /\ i \in 1..Len(s)
  BY <1>1
<1>3. \A n \in DOMAIN t : Old(n) \in DOMAIN s /\ Old(n) # i
  BY <1>2
<1>4. \A k \in DOMAIN s : k # i => \E n \in DOMAIN t : Old(n) = k
  <2> SUFFICES ASSUME NEW k \in DOMAIN s, k # i PROVE \E n \in DOMAIN t : Old(n) = k
    OBVIOUS
  <2>1. CASE k < i
    BY <2>1, <1>2
  <2>2. CASE k > i
    BY <2>2, <1>2, k - 1 \in DOMAIN t, Old(k - 1) = k
  <2> QED
    BY <2>1, <2>2, <1>2
<1>5. \A n \in Letters(t, q) : Old(n) \in Letters(s, q) /\ Old(n) # i /\ t[n] = s[Old(n)]
  BY <1>1, <1>2, <1>3 DEF Letters
<1>6. \A n, m \in DOMAIN t : Old(n) = Old(m) => n = m
  BY <1>2
<1>7. Single(t, q)
  BY <1>5, <1>6 DEF Single, Letters
<1>8. ASSUME s[i].sender = q
      PROVE  Words(s, q) = {s[i].payload} /\ Words(t, q) = {}
  BY <1>5, <1>8 DEF Words, Letters, Single
<1>9. ASSUME s[i].sender # q
      PROVE  Words(t, q) = Words(s, q)
  <2>1. \A k \in Letters(s, q) : \E n \in Letters(t, q) : t[n] = s[k]
    <3> TAKE k \in Letters(s, q)
    <3>1. k \in DOMAIN s /\ k # i /\ s[k].sender = q
      BY <1>9 DEF Letters
    <3>2. PICK n \in DOMAIN t : Old(n) = k
      BY <3>1, <1>4
    <3> QED
      BY <3>1, <3>2, <1>1, <1>2 DEF Letters
  <2> QED
    BY <2>1, <1>5 DEF Words
<1> QED
  BY <1>7, <1>8, <1>9
-----------------------------------------------------------------------------
(* What a step leaves alone *)

\* Nothing of a client's calls changes.
Stays(p) ==
  /\ IsFree(p)' <=> IsFree(p)
  /\ ControlOf(p)' = ControlOf(p)
  /\ Asked(p)' = Asked(p)
  /\ Told(p)' = Told(p)
  /\ Work(p)' = Work(p)
  /\ OnClock(p)' <=> OnClock(p)
  /\ Lines(p)' = Lines(p)
  /\ blockedOnDevice'[p] = blockedOnDevice[p]

\* The phase of a call is a matter of these only.
LEMMA StaysPhased ==
  ASSUME NEW p, Stays(p)
  PROVE  /\ InCall(p)' <=> InCall(p)
         /\ Wish(p)' = Wish(p)
         /\ SoftBlocked(p)' <=> SoftBlocked(p)
         /\ Phased(p)' <=> Phased(p)
         /\ Departed(p)' <=> Departed(p)
         /\ Answered(p)' <=> Answered(p)
         /\ Open(p)' <=> Open(p)
         /\ Awaits(p)' <=> Awaits(p)
<1>1. (InCall(p)' <=> InCall(p)) /\ Wish(p)' = Wish(p) /\ (Awaits(p)' <=> Awaits(p))
  BY DEF Stays, InCall, Wish, Awaits
<1>2. SoftBlocked(p)' <=> SoftBlocked(p)
  BY DEF Stays, SoftBlocked, OnDevice, Lines
<1>3. Calm(p)' <=> Calm(p)
  BY <1>2 DEF Stays, Calm
<1>4. (Idle(p)' <=> Idle(p)) /\ (Departed(p)' <=> Departed(p))
  BY <1>1, <1>3 DEF Stays, Idle, Departed
<1>5. /\ Pending(p)' <=> Pending(p)
      /\ Served(p)' <=> Served(p)
      /\ Replied(p)' <=> Replied(p)
      /\ Answered(p)' <=> Answered(p)
  BY <1>1, <1>2, <1>3 DEF Stays, Pending, Served, Replied, Answered
<1>6. Queued(p)' <=> Queued(p)
  BY <1>1 DEF Stays, Queued, OnItsQueue
<1> QED
  BY <1>1, <1>2, <1>4, <1>5, <1>6 DEF Phased, Open

\* A message is added to one inbox: it adds to what its sender asks of the SSI or,
\* when it is the SSI's, to what its reader is told.
LEMMA BoxAdd ==
  ASSUME Msgs, NEW dest \in Pcb, NEW m \in SoundMessage,
         inbox' = [inbox EXCEPT ![dest] = Append(@, m)]
  PROVE  /\ \A p \in Clients :
              /\ Asked(p)' = IF dest = ssi_pcb /\ m.sender = p
                             THEN Asked(p) \cup {m.payload} ELSE Asked(p)
              /\ Told(p)' = IF dest = p /\ m.sender = ssi_pcb
                            THEN Told(p) \cup {m.payload} ELSE Told(p)
         /\ ( /\ SingleInv
              /\ \A p \in Clients :
                   /\ dest = ssi_pcb /\ m.sender = p => Asked(p) = {}
                   /\ dest = p /\ m.sender = ssi_pcb => Told(p) = {} )
            => SingleInv'
<1>1. \A p \in Pcb : /\ inbox[p] \in Seq(SoundMessage)
                     /\ inbox'[p] = IF p = dest THEN Append(inbox[p], m) ELSE inbox[p]
  BY DEF Msgs
<1>2. ASSUME NEW p \in Pcb, NEW q
      PROVE  /\ Words(inbox'[p], q) = IF p = dest /\ m.sender = q
                  THEN Words(inbox[p], q) \cup {m.payload} ELSE Words(inbox[p], q)
             /\ /\ Single(inbox[p], q)
                /\ p = dest /\ m.sender = q => Words(inbox[p], q) = {}
                => Single(inbox'[p], q)
  <2>1. CASE p # dest
    BY <1>1, <2>1
  <2>2. CASE p = dest
    <3>1. inbox[p] \in Seq(SoundMessage) /\ inbox'[p] = Append(inbox[p], m)
      BY <1>1, <2>2
    <3>2. /\ Words(Append(inbox[p], m), q) = IF m.sender = q
                THEN Words(inbox[p], q) \cup {m.payload} ELSE Words(inbox[p], q)
          /\ /\ Single(inbox[p], q)
             /\ m.sender = q => Words(inbox[p], q) = {}
             => Single(Append(inbox[p], m), q)
      BY <3>1, WordsAppend
    <3> QED
      BY <2>2, <3>1, <3>2
  <2> QED
    BY <2>1, <2>2
<1>3. ssi_pcb \in Pcb /\ Clients \subseteq Pcb
  BY NucleusAssumption DEF Clients
<1> QED
  BY <1>2, <1>3 DEF Asked, Told, SingleInv

\* A message is taken from one inbox.
LEMMA BoxTake ==
  ASSUME Msgs, SingleInv, NEW q \in Pcb, NEW i \in DOMAIN inbox[q],
         inbox' = [inbox EXCEPT ![q] = RemoveAt(@, i)]
  PROVE  /\ SingleInv'
         /\ \A p \in Clients :
              LET s == inbox[q][i].sender IN
              /\ IF q = ssi_pcb /\ s = p
                 THEN Asked(p) = {inbox[q][i].payload} /\ Asked(p)' = {}
                 ELSE Asked(p)' = Asked(p)
              /\ IF q = p /\ s = ssi_pcb
                 THEN Told(p) = {inbox[q][i].payload} /\ Told(p)' = {}
                 ELSE Told(p)' = Told(p)
<1>1. \A p \in Pcb : /\ inbox[p] \in Seq(SoundMessage)
                     /\ inbox'[p] = IF p = q THEN RemoveAt(inbox[p], i) ELSE inbox[p]
  BY DEF Msgs
<1>2. ASSUME NEW p \in Pcb, NEW s, Single(inbox[p], s)
      PROVE  /\ Single(inbox'[p], s)
             /\ IF p = q /\ inbox[q][i].sender = s
                THEN Words(inbox[p], s) = {inbox[q][i].payload} /\ Words(inbox'[p], s) = {}
                ELSE Words(inbox'[p], s) = Words(inbox[p], s)
  <2>1. CASE p # q
    BY <1>1, <1>2, <2>1
  <2>2. CASE p = q
    BY <1>1, <1>2, <2>2, WordsRemove
  <2> QED
    BY <2>1, <2>2
<1>3. ssi_pcb \in Pcb /\ Clients \subseteq Pcb
  BY NucleusAssumption DEF Clients
<1>4. SingleInv'
  BY <1>2, <1>3 DEF SingleInv
<1> QED
  BY <1>2, <1>3, <1>4 DEF Asked, Told, SingleInv

\* scheduler() loads saved states: no control changes but where it is kept, and the
\* SSI is at work for nobody.
LEMMA SchedulerView ==
  ASSUME NEW ready \in Seq(Pcb), Scheduler(ready), Saved'
  PROVE  /\ \A p \in Pcb : ControlOf(p)' = p_s'[p]
         /\ \A p : Work(p)' = Running
<1>1. CASE ready # <<>>
  <2>1. Head(ready) \in Pcb
    BY <1>1, HeadTaken
  <2>2. current_process' = Head(ready) /\ cpu' = p_s'[Head(ready)]
    BY <1>1 DEF Scheduler
  <2>3. cpu' \in AtRest
    BY <2>1, <2>2 DEF Saved
  <2> QED
    BY <2>2, <2>3 DEF ControlOf, Work, AtRest
<1>2. CASE ready = <<>>
  <2>1. current_process' = NULL /\ cpu' = Running
    BY <1>2 DEF Scheduler
  <2> QED
    BY <2>1, NucleusAssumption DEF ControlOf, Work, Running
<1> QED
  BY <1>1, <1>2

\* After an interrupt all controls are what they were.
LEMMA ExitInterruptView ==
  ASSUME NEW ready \in Seq(Pcb), ExitInterrupt(ready), Saved', SSIServesOthers,
         UNCHANGED p_s
  PROVE  \A p \in Pcb : ControlOf(p)' = ControlOf(p) /\ Work(p)' = Work(p)
<1>1. CASE current_process # NULL
  BY <1>1 DEF ExitInterrupt, ControlOf, Work
<1>2. CASE current_process = NULL
  <2>1. Scheduler(ready) /\ cpu.op \notin {"serve", "reply"}
    BY <1>2, NucleusAssumption DEF ExitInterrupt, SSIServesOthers
  <2> QED
    BY <1>2, <2>1, SchedulerView, NucleusAssumption DEF ControlOf, Work
<1> QED
  BY <1>1, <1>2

\* Where a call's token is tells its phase.
LEMMA PhaseOf ==
  ASSUME PhaseInv, NEW p \in Clients
  PROVE  /\ SoftBlocked(p) => Queued(p)
         /\ Asked(p) # {} => Pending(p)
         /\ Told(p) # {} => Answered(p)
         /\ Work(p).op = "serve" => Served(p)
         /\ Work(p).op = "reply" => Replied(p) \/ Departed(p)
         /\ ~InCall(p) => Idle(p) \/ Departed(p)
         /\ ~InCall(p) /\ ~(IsFree(p) /\ Work(p).op = "reply") => Idle(p)
<1>1. Running.op = "run" /\ \A r : Serving(p, r).op = "serve"
  BY DEF Running, Serving
<1>2. Phased(p)
  BY DEF PhaseInv
<1> QED
  BY <1>1, <1>2 DEF Phased, Calm, Idle, Departed, Pending, Served, Replied, Queued, Answered,
                    InCall

\* A client is left alone by a step that changes neither queues nor the free list,
\* and of its messages and of the controls nothing that concerns it.
LEMMA Untouched ==
  ASSUME NEW p \in Clients,
         ControlOf(p)' = ControlOf(p), Work(p)' = Work(p),
         Asked(p)' = Asked(p), Told(p)' = Told(p),
         UNCHANGED <<pcbFree_h, queues>>
  PROVE  Stays(p)
BY DEF Stays, IsFree, OnClock, Lines, queues

\* Letters are what the inboxes hold.
LEMMA QuietBoxes ==
  ASSUME UNCHANGED inbox
  PROVE  /\ SingleInv <=> SingleInv'
         /\ \A p : Asked(p)' = Asked(p) /\ Told(p)' = Told(p)
BY DEF SingleInv, Asked, Told

\* A step that gives a phase to every client whose call it touches.
LEMMA PhasesKept ==
  ASSUME PhaseInv, \A p \in Clients : Stays(p) \/ Phased(p)'
  PROVE  PhaseInv'
BY StaysPhased DEF PhaseInv

\* The clients are PCBs; the SSI is none, and on no queue.
LEMMA ClientFacts ==
  /\ Clients \subseteq Pcb /\ ssi_pcb \in Pcb /\ ssi_pcb \notin Clients /\ NULL \notin Pcb
  /\ SSILives => \A p \in Pcb : SoftBlocked(p) \/ IsFree(p) => p \in Clients
BY NucleusAssumption DEF Clients, SSILives
-----------------------------------------------------------------------------
(* What each step does to the calls in progress *)

\* An interrupt that nobody waits for changes no call.
LEMMA DismissMoves ==
  ASSUME TypeInv', SSIStands, SingleInv, readyQueue \in Seq(Pcb), NEW d \in Device, Dismiss(d)
  PROVE  SingleInv' /\ \A p \in Clients : Stays(p)
<1>1. /\ UNCHANGED <<procs, queues, msgs, p_s>> /\ ExitInterrupt(readyQueue)
      /\ UNCHANGED <<pcbFree_h, queues, inbox>>
  BY DEF Dismiss, procs, msgs
<1>2. \A p \in Pcb : ControlOf(p)' = ControlOf(p) /\ Work(p)' = Work(p)
  BY <1>1, ExitInterruptView DEF TypeInv, SSIStands
<1> QED
  BY <1>1, <1>2, QuietBoxes, Untouched, ClientFacts

\* Nothing of a call changes while its PCBs, queues, messages and controls stay.
LEMMA QuietMoves ==
  ASSUME SingleInv, UNCHANGED <<procs, queues, msgs, current_process, cpu, p_s>>
  PROVE  SingleInv' /\ \A p \in Clients : Stays(p)
<1>1. UNCHANGED <<pcbFree_h, queues, inbox>>
  BY DEF procs, msgs
<1>2. \A p : ControlOf(p)' = ControlOf(p) /\ Work(p)' = Work(p)
  BY DEF ControlOf, Work
<1> QED
  BY <1>1, <1>2, QuietBoxes, Untouched

\* The process that waits for a device is told its status: the answer to its call.
LEMMA CompleteMoves ==
  ASSUME TypeInv, TypeInv', PlaceInv, SSIStands, CallInv, NEW d \in Device, Complete(d)
  PROVE  /\ SingleInv'
         /\ \E w \in Clients :
              /\ w = Waiter(d) /\ Queued(w) /\ Lines(w) # {} /\ Wish(w) = Status(d)
              /\ Answered(w)' /\ InCall(w)' /\ Wish(w)' = Wish(w)
              /\ \A p \in Clients \ {w} : Stays(p)
<1>0. PICK w : w = Waiter(d)
  OBVIOUS
<1> DEFINE m == FromSSI(Status(d))
<1>1. /\ w \in Pcb /\ OnDevice(w) /\ w # current_process
      /\ ~IsFree(w) /\ ~IsReady(w) /\ ~OnClock(w)
      /\ \A l \in Line : ToSet(blockedQueue'[l]) = ToSet(blockedQueue[l]) \ {w}
  BY <1>0, CompleteUnlinks
<1>2. w \in Clients /\ SoftBlocked(w)
  BY <1>1, ClientFacts DEF SSIStands, SoftBlocked
<1>3. Queued(w)
  BY <1>2, PhaseOf DEF CallInv
<1>4. /\ Wish(w).service = "DOIO" /\ Wish(w).arg \in Device
      /\ Lines(w) = {Wish(w).arg.line} /\ blockedOnDevice[w] = Wish(w).arg.no
  BY <1>1, <1>3 DEF Queued, OnItsQueue
<1>5. /\ Waiters(d) # {} /\ UNCHANGED <<pcbFree_h, pseudoClockQueue, blockedOnDevice, p_s>>
      /\ inbox' = [inbox EXCEPT ![w] = Append(@, m)]
      /\ ExitInterrupt(insertProcQ(readyQueue, w))
  BY <1>0 DEF Complete, procs
<1>6. Wish(w) = Status(d)
  <2>1. w \in ToSet(blockedQueue[d.line]) /\ blockedOnDevice[w] = d.no
    <3>1. \A i \in Waiters(d) : blockedOnDevice[blockedQueue[d.line][i]] = d.no
      BY DEF Waiters
    <3>2. Waiters(d) \in SUBSET Nat
      BY NucleusAssumption DEF Waiters, TypeInv, Queues
    <3>3. Min(Waiters(d)) \in Waiters(d)
      BY <3>2, <1>5, FirstPosition
    <3> QED
      BY <3>1, <3>3, <1>0, <1>5, WaiterIsPcb DEF Waiter, TypeInv
  <2>2. d.line \in Line /\ Wish(w).arg.line = d.line /\ Wish(w).arg.no = d.no
    BY <2>1, <1>4, NucleusAssumption DEF Lines
  <2>3. Wish(w).arg = d
    BY <2>2, <1>4, NucleusAssumption
  <2>4. Wish(w) \in Payload
    BY <1>2, ClientFacts DEF Wish, ControlOf, TypeInv, CPU, Saved, AtWork, AtRest, Control
  <2> QED
    BY <2>3, <2>4, <1>4 DEF Status, Payload
<1>7. \A p \in Pcb : ControlOf(p)' = ControlOf(p) /\ Work(p)' = Work(p)
  <2>1. insertProcQ(readyQueue, w) \in Seq(Pcb)
    BY <1>1 DEF insertProcQ, TypeInv, CPU
  <2> QED
    BY <2>1, <1>5, ExitInterruptView DEF TypeInv, SSIStands
<1>8. /\ m \in SoundMessage /\ m.sender = ssi_pcb /\ m.payload = Status(d)
      /\ Status(d) \in Payload
  BY NucleusAssumption DEF FromSSI, Status, SoundMessage, Message, Payload, NamesDevice, Service
<1>9. /\ \A p \in Clients :
            Asked(p)' = Asked(p) /\ Told(p)' = IF p = w THEN {Status(d)} ELSE Told(p)
      /\ SingleInv'
  <2>1. w # ssi_pcb /\ Told(w) = {}
    BY <1>2, <1>3, ClientFacts DEF Queued
  <2> QED
    BY <2>1, <1>1, <1>5, <1>8, BoxAdd DEF TypeInv, CallInv
<1>10. \A p \in Clients \ {w} : Stays(p)
  <2> TAKE p \in Clients \ {w}
  <2>1. Lines(p)' = Lines(p)
    BY <1>1 DEF Lines
  <2> QED
    BY <2>1, <1>5, <1>7, <1>9, ClientFacts DEF Stays, IsFree, OnClock
<1>11. ~SoftBlocked(w)'
  BY <1>1, <1>5 DEF SoftBlocked, OnClock, OnDevice
<1>12. InCall(w)' /\ Wish(w)' = Wish(w)
  BY <1>1, <1>3, <1>5, <1>7 DEF Queued, InCall, Awaits, Wish, IsFree
<1>13. Answered(w)'
  <2>1. Answers(Wish(w), Status(d))
    BY <1>6 DEF Answers
  <2> QED
    BY <2>1, <1>2, <1>3, <1>7, <1>8, <1>9, <1>11, <1>12, ClientFacts DEF Answered, Queued
<1> QED
  BY <1>0, <1>2, <1>3, <1>4, <1>6, <1>9, <1>10, <1>12, <1>13

\* At a tick all that wait for the clock are told.
LEMMA TimerInterruptMoves ==
  ASSUME TypeInv, TypeInv', PlaceInv, SSIStands, CallInv, TimerInterrupt, ~Break
  PROVE  /\ SingleInv'
         /\ \A p \in Clients :
              IF OnClock(p) THEN Queued(p) /\ Answered(p)' /\ InCall(p)' /\ Wish(p)' = Wish(p)
                            ELSE Stays(p)
<1>1. /\ inbox' = [p \in Pcb |-> IF OnClock(p) THEN Append(inbox[p], TickMessage)
                                               ELSE inbox[p]]
      /\ pseudoClockQueue' = <<>>
      /\ UNCHANGED <<pcbFree_h, blockedQueue, blockedOnDevice, p_s>>
      /\ ExitInterrupt(readyQueue \o pseudoClockQueue)
  BY DEF TimerInterrupt, procs
<1>2. \A p \in Pcb : ControlOf(p)' = ControlOf(p) /\ Work(p)' = Work(p)
  <2>1. readyQueue \o pseudoClockQueue \in Seq(Pcb)
    BY ConcatAdds DEF TypeInv, CPU, Queues
  <2> QED
    BY <2>1, <1>1, ExitInterruptView DEF TypeInv, SSIStands
<1>3. \A p \in Clients : OnClock(p) => Queued(p) /\ Wish(p).service = "CLOCKWAIT"
  <2> TAKE p \in Clients
  <2> HAVE OnClock(p)
  <2>1. Queued(p)
    BY PhaseOf DEF CallInv, SoftBlocked
  <2>2. Lines(p) = {}
    BY ClientFacts DEF Lines, PlaceInv, Settled, OnClock
  <2> QED
    BY <2>1, <2>2 DEF Queued, OnItsQueue
<1>4. ~OnClock(ssi_pcb)
  BY DEF SSIStands, SSILives, SoftBlocked
<1> DEFINE w == [service |-> "CLOCKWAIT", arg |-> NULL]
<1>5. /\ TickMessage \in SoundMessage /\ TickMessage.sender = ssi_pcb
      /\ TickMessage.payload = w /\ w \in Payload
  BY NucleusAssumption
     DEF TickMessage, FromSSI, SoundMessage, Message, Payload, NamesDevice, Service
<1>6. \A p \in Pcb : inbox[p] \in Seq(SoundMessage)
  BY DEF TypeInv, Msgs
<1>7. \A p \in Clients : /\ Asked(p)' = Asked(p)
                         /\ Told(p)' = IF OnClock(p) THEN {w} ELSE Told(p)
                         /\ Single(inbox[ssi_pcb], p)' /\ Single(inbox[p], ssi_pcb)'
  <2> TAKE p \in Clients
  <2>1. Single(inbox[ssi_pcb], p) /\ Single(inbox[p], ssi_pcb) /\ p \in Pcb
    BY ClientFacts DEF CallInv, SingleInv
  <2>2. inbox'[ssi_pcb] = inbox[ssi_pcb]
    BY <1>1, <1>4, ClientFacts
  <2>3. CASE ~OnClock(p)
    BY <2>1, <2>2, <2>3, <1>1 DEF Asked, Told
  <2>4. CASE OnClock(p)
    <3>1. inbox'[p] = Append(inbox[p], TickMessage) /\ Words(inbox[p], ssi_pcb) = {}
      BY <2>1, <2>4, <1>1, <1>3 DEF Queued, Told
    <3>2. /\ Words(inbox'[p], ssi_pcb) = {} \cup {w}
          /\ Single(inbox'[p], ssi_pcb)
      BY <3>1, <2>1, <1>5, <1>6, WordsAppend
    <3> QED
      BY <3>2, <2>1, <2>2, <2>4 DEF Asked, Told
  <2> QED
    BY <2>3, <2>4
<1>8. ASSUME NEW p \in Clients, OnClock(p)
      PROVE  Queued(p) /\ Answered(p)' /\ InCall(p)' /\ Wish(p)' = Wish(p)
  <2>1. Queued(p) /\ Wish(p).service = "CLOCKWAIT" /\ p \in Pcb
    BY <1>3, <1>8, ClientFacts
  <2>2. InCall(p)' /\ Wish(p)' = Wish(p) /\ Work(p)' = Running
    BY <2>1, <1>1, <1>2 DEF Queued, InCall, Awaits, Wish, IsFree
  <2>3. ~SoftBlocked(p)'
    <3>1. ~OnDevice(p)
      BY <2>1, <1>8 DEF PlaceInv, Settled, OnClock, OnDevice
    <3> QED
      BY <3>1, <1>1 DEF SoftBlocked, OnDevice, OnClock, ToSet
  <2>4. Answers(Wish(p), w) /\ w \in Payload
    BY <2>1, <1>5 DEF Answers
  <2> QED
    BY <2>1, <2>2, <2>3, <2>4, <1>7, <1>8 DEF Answered, Queued
<1>9. ASSUME NEW p \in Clients, ~OnClock(p)
      PROVE  Stays(p)
  <2>1. ~OnClock(p)' /\ Lines(p)' = Lines(p)
    BY <1>1 DEF OnClock, ToSet, Lines
  <2> QED
    BY <2>1, <1>1, <1>2, <1>7, <1>9, ClientFacts DEF Stays, IsFree
<1> QED
  BY <1>7, <1>8, <1>9 DEF SingleInv

\* The sets that the pool and the births are counted by are finite.
LEMMA CallSetsFinite ==
  /\ IsFiniteSet(Clients)
  /\ \A K \in SUBSET Pcb : IsFiniteSet(K) /\ Cardinality(K) \in Nat
  /\ Takers \in SUBSET Pcb /\ Leavers \in SUBSET Pcb /\ Births \in SUBSET Pcb
<1>1. \A K \in SUBSET Pcb : IsFiniteSet(K) /\ Cardinality(K) \in Nat
  BY NucleusAssumption, FS_Subset, FS_CardinalityType
<1> QED
  BY <1>1, ClientFacts DEF Takers, Leavers, Births

\* Whoever may take a message finds one.
LEMMA TakerServed ==
  ASSUME TypeInv, PoolInv, NEW p \in Takers
  PROVE  ~PoolEmpty
<1>1. Takers # {} /\ IsFiniteSet(Takers) /\ Cardinality(Takers) \in Nat /\ Cardinality(Leavers) \in Nat
  BY CallSetsFinite
<1>2. Cardinality(Takers) # 0
  BY <1>1, FS_EmptySet
<1> QED
  BY <1>1, <1>2 DEF PoolInv, PoolEmpty, TypeInv, Msgs

\* A running client that is in its own code is in no call.
LEMMA ClientIdle ==
  ASSUME TypeInv, PlaceInv, SSIStands, CallInv, ClientRuns
  PROVE  /\ current_process \in Clients /\ ~IsFree(current_process)
         /\ ~IsReady(current_process) /\ ~SoftBlocked(current_process)
         /\ Idle(current_process)
<1>1. current_process \in Clients
  BY DEF ClientRuns, Executes, TypeInv, CPU, Clients
<1>2. /\ ~IsFree(current_process) /\ ~IsReady(current_process)
      /\ ~SoftBlocked(current_process)
  BY <1>1, ClientFacts
     DEF PlaceInv, Settled, IsFree, IsReady, SoftBlocked, OnClock, OnDevice
<1>3. ~InCall(current_process)
  BY DEF ClientRuns, InCall, Awaits, ControlOf
<1> QED
  BY <1>1, <1>2, <1>3, PhaseOf DEF CallInv

\* A request: the caller's call is pending.
LEMMA RequestMoves ==
  ASSUME Prudent = TRUE, SSISpared, TypeInv, PlaceInv, SSIStands, CallInv, PoolInv, Request, ~Break
  PROVE  /\ SingleInv'
         /\ \E p \in Clients : \E r \in Requests :
              /\ p = current_process /\ PrudentRequest(r)
              /\ Idle(p) /\ Pending(p)' /\ Wish(p)' = r
              /\ msgFree' = msgFree - 1 /\ p \in Takers
              /\ \A q \in Clients \ {p} : Stays(q)
<1>1. PICK p : p = current_process
  OBVIOUS
<1>2. PICK r \in Requests :
        /\ PrudentRequest(r) /\ Send(p, ssi_pcb, r) /\ cpu' = AwaitAnswer(r)
        /\ UNCHANGED <<procs, queues, current_process, p_s>>
  BY <1>1 DEF Request
<1>3. ClientRuns /\ cpu.op = "run"
  BY DEF Request, ClientRuns
<1>4. p \in Clients /\ ~IsFree(p) /\ ~SoftBlocked(p) /\ Idle(p)
  BY <1>1, <1>3, ClientIdle
<1>5. p \in Takers
  BY <1>4 DEF Idle, Calm, Takers
<1>6. r \in Payload /\ NamesDevice(r)
  BY <1>1, <1>4, RequestsSound, ClientFacts
<1> DEFINE m == [sender |-> p, payload |-> r]
<1>7. /\ inbox' = [inbox EXCEPT ![ssi_pcb] = Append(@, m)]
      /\ msgFree' = msgFree - 1
  <2>1. ~IsFree(ssi_pcb) /\ ~PoolEmpty
    BY <1>5, TakerServed DEF SSIStands, SSILives
  <2> QED
    BY <2>1, <1>2 DEF Send
<1>8. m \in SoundMessage /\ m.sender = p /\ m.payload = r
  BY <1>4, <1>6, ClientFacts DEF SoundMessage, Message
<1>9. /\ \A q \in Clients : /\ Asked(q)' = IF q = p THEN {r} ELSE Asked(q)
                            /\ Told(q)' = Told(q)
      /\ SingleInv'
  <2>1. Asked(p) = {}
    BY <1>4 DEF Idle, Calm
  <2>2. m.sender # ssi_pcb /\ \A q \in Clients : q # ssi_pcb
    BY <1>4, <1>8, ClientFacts
  <2> HIDE DEF m
  <2>3. /\ \A q \in Clients : /\ Asked(q)' = IF m.sender = q THEN Asked(q) \cup {m.payload}
                                                            ELSE Asked(q)
                              /\ Told(q)' = Told(q)
        /\ SingleInv'
    BY <2>1, <2>2, <1>7, <1>8, BoxAdd, ClientFacts DEF TypeInv, CallInv
  <2> QED
    BY <2>1, <2>3, <1>8
<1>10. UNCHANGED <<pcbFree_h, queues>>
  BY <1>2 DEF procs
<1>11. \A q : Work(q)' = Running /\ Work(q) = Running
  BY <1>2, <1>3 DEF Work, AwaitAnswer
<1>12. \A q \in Clients \ {p} : Stays(q)
  <2> TAKE q \in Clients \ {p}
  <2>1. ControlOf(q)' = ControlOf(q)
    BY <1>1, <1>2 DEF ControlOf
  <2> QED
    BY <2>1, <1>9, <1>10, <1>11, Untouched
<1>13. Pending(p)' /\ Wish(p)' = r
  <2>1. ControlOf(p)' = AwaitAnswer(r)
    BY <1>1, <1>2 DEF ControlOf
  <2>2. Wish(p)' = r /\ InCall(p)'
    BY <2>1, <1>4, <1>10 DEF Wish, InCall, Awaits, AwaitAnswer, IsFree
  <2>3. ~SoftBlocked(p)'
    BY <1>4, <1>10 DEF SoftBlocked, OnClock, OnDevice, queues
  <2> QED
    BY <2>2, <2>3, <1>4, <1>9, <1>11 DEF Pending, Idle, Calm
<1> QED
  BY <1>1, <1>2, <1>4, <1>5, <1>7, <1>9, <1>12, <1>13

\* A message between clients is no part of any call.
LEMMA SendMessageMoves ==
  ASSUME Prudent = TRUE, TypeInv, SSIStands, CallInv, SendMessage, ~Break
  PROVE  /\ SingleInv' /\ \A p \in Clients : Stays(p)
         /\ msgFree > Cardinality(Pcb) /\ msgFree' = msgFree - 1
         /\ \E dest \in Clients :
              /\ PrudentSend(dest)
              /\ readyQueue' = readyQueue \/
                 (~IsFree(dest) /\ Wakes(dest) /\ readyQueue' = insertProcQ(readyQueue, dest))
<1>1. PICK dest \in Pcb \ {ssi_pcb} :
        /\ PrudentSend(dest) /\ Send(current_process, dest, Nothing)
        /\ UNCHANGED <<procs, queues, current_process, cpu, p_s>>
  BY DEF SendMessage
<1>2. current_process \in Pcb /\ current_process # ssi_pcb
  BY DEF SendMessage, ClientRuns, Executes, TypeInv, CPU
<1>3. UNCHANGED <<pcbFree_h, queues>>
  BY <1>1 DEF procs
<1>4. /\ \A p \in Clients : Asked(p)' = Asked(p) /\ Told(p)' = Told(p)
      /\ SingleInv'
  <2>1. CASE UNCHANGED inbox
    BY <2>1, QuietBoxes DEF CallInv
  <2>2. ASSUME inbox' = [inbox EXCEPT ![dest] =
                     Append(@, [sender |-> current_process, payload |-> Nothing])]
        PROVE  /\ \A p \in Clients : Asked(p)' = Asked(p) /\ Told(p)' = Told(p)
               /\ SingleInv'
    <3> DEFINE m == [sender |-> current_process, payload |-> Nothing]
    <3>1. m \in SoundMessage /\ m.sender # ssi_pcb
      BY <1>2, NothingIsPayload DEF SoundMessage, Message
    <3> QED
      BY <3>1, <2>2, BoxAdd DEF TypeInv, CallInv
  <2> QED
    BY <2>1, <2>2, <1>1 DEF Send, msgs
<1>5. \A p : ControlOf(p)' = ControlOf(p) /\ Work(p)' = Work(p)
  BY <1>1 DEF ControlOf, Work
<1>6. msgFree > Cardinality(Pcb)
  BY <1>1 DEF PrudentSend, SpareMessages
<1>7. /\ msgFree' = msgFree - 1
      /\ readyQueue' = readyQueue \/
         (~IsFree(dest) /\ Wakes(dest) /\ readyQueue' = insertProcQ(readyQueue, dest))
  <2>1. ~PoolEmpty
    BY <1>6, NucleusAssumption, FS_CardinalityType DEF PoolEmpty
  <2> QED
    BY <2>1, <1>1 DEF Send
<1> QED
  BY <1>1, <1>3, <1>4, <1>5, <1>6, <1>7, Untouched DEF Clients

\* Who waits for a message outside a call is in no call.
LEMMA WantMessageMoves ==
  ASSUME TypeInv, PlaceInv, SSIStands, CallInv, WantMessage
  PROVE  /\ SingleInv'
         /\ \E p \in Clients :
              /\ p = current_process /\ Idle(p) /\ Idle(p)'
              /\ \A q \in Clients \ {p} : Stays(q)
<1>1. PICK p : p = current_process
  OBVIOUS
<1>2. PICK from \in (Pcb \ {ssi_pcb}) \cup {NULL} :
        /\ cpu' = ReceiveFrom(from)
        /\ UNCHANGED <<procs, queues, msgs, current_process, p_s>>
  BY DEF WantMessage
<1>3. p \in Clients /\ Idle(p) /\ ~IsFree(p) /\ ~SoftBlocked(p) /\ cpu.op = "run"
  BY <1>1, ClientIdle DEF WantMessage, ClientRuns
<1>4. UNCHANGED <<pcbFree_h, queues, inbox>>
  BY <1>2 DEF procs, msgs
<1>5. \A q : Work(q)' = Running /\ Work(q) = Running
  BY <1>2, <1>3 DEF Work, ReceiveFrom
<1>6. \A q \in Clients \ {p} : Stays(q)
  <2> TAKE q \in Clients \ {p}
  <2>1. ControlOf(q)' = ControlOf(q)
    BY <1>1, <1>2 DEF ControlOf
  <2> QED
    BY <2>1, <1>4, <1>5, QuietBoxes, Untouched
<1>7. Idle(p)'
  <2>1. ~InCall(p)'
    BY <1>1, <1>2, ClientFacts DEF InCall, Awaits, ControlOf, ReceiveFrom
  <2>2. ~SoftBlocked(p)'
    BY <1>3, <1>4 DEF SoftBlocked, OnClock, OnDevice, queues
  <2>3. Asked(p)' = {} /\ Told(p)' = {}
    BY <1>3, <1>4, QuietBoxes DEF Idle, Calm
  <2> QED
    BY <2>1, <2>2, <2>3, <1>5 DEF Idle, Calm
<1> QED
  BY <1>1, <1>3, <1>4, <1>6, <1>7, QuietBoxes DEF CallInv

\* The outcomes of a receive: a client takes a message, the answer to its call if it
\* is in one; ...
ClientTakes ==
  /\ msgFree' = msgFree + 1
  /\ UNCHANGED <<procs, readyQueue, queues, current_process, p_s, dev>>
  /\ \E p \in Clients :
       /\ p = current_process
       /\ Answered(p) \/ Idle(p)
       /\ Idle(p)'
       /\ \A q \in Clients \ {p} : Stays(q)
\* ... the SSI takes a request and serves it next; ...
SSITakes ==
  /\ msgFree' = msgFree + 1
  /\ UNCHANGED <<procs, readyQueue, queues, current_process, p_s, dev>>
  /\ \E p \in Clients :
       /\ Pending(p) /\ Served(p)' /\ Wish(p)' = Wish(p)
       /\ \A q \in Clients \ {p} : Stays(q)
\* ... or nothing is there and the CPU is given away.
NobodyTakes ==
  /\ UNCHANGED <<procs, queues, msgs, dev>> /\ Scheduler(readyQueue)
  /\ p_s' = [p_s EXCEPT ![current_process] = cpu]
  /\ \A q \in Clients : Stays(q)

\* recv(): the message found is taken out of one inbox, and nothing else moves.
LEMMA ReceiveMoves ==
  ASSUME TypeInv, TypeInv', PlaceInv, SSIStands, CallInv, Receive
  PROVE  SingleInv' /\ (ClientTakes \/ SSITakes \/ NobodyTakes)
<1>1. PICK c : c = current_process
  OBVIOUS
<1>2. /\ mode = "run" /\ c \in Pcb /\ cpu.op = "receive" /\ ~IsFree(c)
      /\ ~SoftBlocked(c) /\ ControlOf(c) = cpu
  BY <1>1 DEF Receive, Executes, TypeInv, CPU, ControlOf, PlaceInv, Settled, IsFree, SoftBlocked,
              OnClock, OnDevice
<1>3. \A q : Work(q) = Running
  BY <1>2 DEF Work
<1> DEFINE M == Matching(c, cpu.who)
<1>4. CASE /\ M = {} /\ p_s' = [p_s EXCEPT ![c] = cpu]
           /\ UNCHANGED <<procs, queues, msgs, dev>> /\ Scheduler(readyQueue)
  <2>1. UNCHANGED <<pcbFree_h, queues, inbox>>
    BY <1>4 DEF procs, msgs
  <2>2. \A q \in Pcb : ControlOf(q)' = p_s'[q] /\ Work(q)' = Running
    BY <1>4, SchedulerView DEF TypeInv, CPU
  <2>3. \A q \in Pcb : ControlOf(q)' = ControlOf(q)
    BY <2>2, <1>1, <1>2, <1>4 DEF ControlOf, TypeInv, Saved
  <2> QED
    BY <2>1, <2>2, <2>3, <1>1, <1>3, <1>4, QuietBoxes, Untouched, ClientFacts
       DEF NobodyTakes, CallInv
<1>5. ASSUME NEW i \in DOMAIN inbox[c],
             M # {}, i = Min(M), TakeMessage(c, i), cpu' = AfterReceive(inbox[c][i]),
             UNCHANGED <<procs, readyQueue, queues, current_process, p_s, dev>>
      PROVE  SingleInv' /\ (ClientTakes \/ SSITakes)
  <2>1. /\ inbox' = [inbox EXCEPT ![c] = RemoveAt(@, i)] /\ msgFree' = msgFree + 1
        /\ UNCHANGED <<pcbFree_h, queues>>
    BY <1>5 DEF TakeMessage, procs
  <2> DEFINE m == inbox[c][i]
  <2>2. m \in SoundMessage /\ (cpu.who = NULL \/ m.sender = cpu.who)
    <3>1. M \in SUBSET Nat
      BY <1>2 DEF Matching, TypeInv, Msgs
    <3>2. i \in M
      BY <3>1, <1>5, FirstPosition
    <3> QED
      BY <3>2, <1>2 DEF Matching, TypeInv, Msgs
  <2>3. /\ SingleInv'
        /\ \A p \in Clients :
             /\ IF c = ssi_pcb /\ m.sender = p
                THEN Asked(p) = {m.payload} /\ Asked(p)' = {}
                ELSE Asked(p)' = Asked(p)
             /\ IF c = p /\ m.sender = ssi_pcb
                THEN Told(p) = {m.payload} /\ Told(p)' = {}
                ELSE Told(p)' = Told(p)
    BY <2>1, <1>2, BoxTake DEF TypeInv, CallInv
  <2>4. \A q : q # c => ControlOf(q)' = ControlOf(q)
    BY <1>1, <1>5 DEF ControlOf
  <2>5. CASE c # ssi_pcb
    <3>1. c \in Clients /\ cpu' = Running /\ ControlOf(c)' = Running
      BY <2>5, <1>1, <1>2, <1>5 DEF AfterReceive, Clients, ControlOf
    <3>2. \A q : Work(q)' = Running
      BY <3>1 DEF Work, Running
    <3>3. \A q \in Clients \ {c} : Stays(q)
      BY <3>2, <2>1, <2>3, <2>4, <2>5, <1>3, Untouched
    <3>4. Answered(c) \/ Idle(c)
      <4>1. CASE cpu.who = ssi_pcb
        <5>1. m.sender = ssi_pcb
          BY <4>1, <2>2, ClientFacts
        <5> QED
          BY <5>1, <2>3, <3>1, PhaseOf DEF CallInv
      <4>2. CASE cpu.who # ssi_pcb
        BY <4>2, <1>2, <3>1, PhaseOf DEF CallInv, InCall, Awaits
      <4> QED
        BY <4>1, <4>2
    <3>5. Told(c)' = {}
      <4>2. CASE Idle(c)
        BY <4>2, <2>3, <3>1 DEF Idle, Calm
      <4>3. CASE Answered(c)
        <5>1. cpu.who = ssi_pcb
          BY <4>3, <1>2 DEF Answered, InCall, Awaits
        <5> QED
          BY <5>1, <2>2, <2>3, <3>1, ClientFacts
      <4> QED
        BY <4>2, <4>3, <3>4
    <3>6. Asked(c)' = {}
      BY <2>3, <2>5, <3>1, <3>4 DEF Idle, Answered, Calm
    <3>7. Idle(c)'
      <4>1. ~InCall(c)'
        BY <3>1 DEF InCall, Awaits, Running
      <4>2. ~SoftBlocked(c)'
        BY <1>2, <2>1 DEF SoftBlocked, OnClock, OnDevice, queues
      <4> QED
        BY <4>1, <4>2, <3>2, <3>5, <3>6 DEF Idle, Calm
    <3>8. \E p \in Clients :
            /\ p = current_process
            /\ Answered(p) \/ Idle(p)
            /\ Idle(p)'
            /\ \A q \in Clients \ {p} : Stays(q)
      BY <3>1, <3>3, <3>4, <3>7, <1>1
    <3> QED
      BY <3>8, <2>1, <2>3, <1>5 DEF ClientTakes
  <2>6. CASE c = ssi_pcb
    <3>1. PICK p : p = m.sender
      OBVIOUS
    <3>2. p \in Clients /\ cpu' = Serving(p, m.payload)
      BY <3>1, <2>2, <2>6, <1>1, <1>5 DEF SSIStands, SSIInbox, Clients, SoundMessage, Message,
                                     AfterReceive
    <3>3. Asked(p) = {m.payload} /\ Asked(p)' = {} /\ Told(p)' = Told(p)
      BY <3>1, <3>2, <2>3, <2>6, ClientFacts
    <3>4. Pending(p)
      BY <3>2, <3>3, PhaseOf DEF CallInv
    <3>5. m.payload = Wish(p)
      BY <3>3, <3>4 DEF Pending
    <3>6. \A q : Work(q)' = IF q = p THEN Serving(p, m.payload) ELSE Running
      BY <3>2 DEF Work, Serving
    <3>7. \A q \in Clients \ {p} : Stays(q)
      <4> TAKE q \in Clients \ {p}
      <4>1. Asked(q)' = Asked(q) /\ Told(q)' = Told(q) /\ q # c
        BY <3>1, <2>3, <2>6, ClientFacts
      <4> QED
        BY <4>1, <3>6, <2>1, <2>4, <1>3, Untouched
    <3>8. Served(p)' /\ Wish(p)' = Wish(p)
      <4>1. ControlOf(p)' = ControlOf(p)
        BY <3>2, <2>4, <2>6, ClientFacts
      <4>2. InCall(p)' /\ Wish(p)' = Wish(p)
        BY <4>1, <3>4, <2>1 DEF Pending, InCall, Awaits, Wish, IsFree
      <4>3. ~SoftBlocked(p)'
        BY <3>4, <2>1 DEF Pending, SoftBlocked, OnClock, OnDevice, queues
      <4> QED
        BY <4>2, <4>3, <3>3, <3>4, <3>5, <3>6 DEF Pending, Served, Calm
    <3> QED
      BY <3>2, <3>4, <3>7, <3>8, <2>1, <2>3, <1>5 DEF SSITakes
  <2> QED
    BY <2>5, <2>6
<1>6. M # {} => Min(M) \in DOMAIN inbox[c]
  BY <1>2, FirstMatching DEF TypeInv
<1> QED
  BY <1>1, <1>4, <1>5, <1>6, QuietBoxes DEF Receive
-----------------------------------------------------------------------------
(* The process tree *)

\* A set of PCBs with their children contains their progeny.
LEMMA SubtreeLeast ==
  ASSUME NEW p, NEW S \in SUBSET Pcb, p \in S,
         \A c \in Pcb : p_parent[c] \in S => c \in S
  PROVE  Subtree(p) \subseteq S
BY DEF Subtree

\* A descendant's parent is a descendant, or the ancestor itself.
LEMMA SubtreeUp ==
  ASSUME NEW p \in Pcb, NEW q \in Subtree(p), q # p
  PROVE  p_parent[q] \in Subtree(p)
<1> DEFINE S == {p} \cup {x \in Subtree(p) : p_parent[x] \in Subtree(p)}
<1>1. /\ p \in Subtree(p) /\ Subtree(p) \in SUBSET Pcb
      /\ \A c \in Pcb : p_parent[c] \in Subtree(p) => c \in Subtree(p)
  BY SubtreeClosed
<1>2. S \in SUBSET Pcb /\ p \in S /\ \A c \in Pcb : p_parent[c] \in S => c \in S
  BY <1>1
<1>3. Subtree(p) \subseteq S
  <2> HIDE DEF S
  <2> QED
    BY <1>2, SubtreeLeast
<1> QED
  BY <1>3

\* Two progenies that meet are one in the other.
LEMMA SubtreesNested ==
  ASSUME NEW u \in Pcb, NEW v \in Pcb, NEW q, q \in Subtree(u), q \in Subtree(v)
  PROVE  u \in Subtree(v) \/ v \in Subtree(u)
<1> SUFFICES ASSUME u \notin Subtree(v), v \notin Subtree(u)
             PROVE  FALSE
  OBVIOUS
<1> DEFINE S == Subtree(u) \ Subtree(v)
<1>1. /\ u \in Subtree(u) /\ Subtree(u) \in SUBSET Pcb
      /\ \A c \in Pcb : p_parent[c] \in Subtree(u) => c \in Subtree(u)
  BY SubtreeClosed
<1>2. ASSUME NEW c \in Pcb, p_parent[c] \in S
      PROVE  c \in S
  BY <1>1, <1>2, SubtreeUp
<1>3. Subtree(u) \subseteq S
  <2>1. u \in S /\ S \in SUBSET Pcb /\ \A c \in Pcb : p_parent[c] \in S => c \in S
    BY <1>1, <1>2
  <2> QED
    BY <2>1, SubtreeLeast
<1> QED
  BY <1>3

\* Without cycles nobody is its child's descendant.
LEMMA ParentAbove ==
  ASSUME TreeInv, NEW v \in Pcb, NEW p, p_parent[v] = p
  PROVE  p \notin Subtree(v)
<1> SUFFICES ASSUME p \in Subtree(v) PROVE FALSE
  OBVIOUS
<1>1. v \in Subtree(v) /\ Subtree(v) \in SUBSET Pcb
  BY SubtreeClosed
<1>2. \A x \in Subtree(v) : p_parent[x] \in Subtree(v)
  BY SubtreeUp
<1> QED
  BY <1>1, <1>2 DEF TreeInv

\* A progeny does not grow where nobody outside of it becomes a child in it.
LEMMA SubtreeShrinks ==
  ASSUME NEW p \in Pcb,
         \A c \in Pcb : p_parent'[c] \in Subtree(p) => c \in Subtree(p)
  PROVE  Subtree(p)' \subseteq Subtree(p)
<1>1. p \in Subtree(p) /\ Subtree(p) \in SUBSET Pcb
  BY SubtreeClosed
<1> QED
  BY <1>1 DEF Subtree

\* terminateProcess() frees the progeny and changes nothing of the others.
LEMMA KillView ==
  ASSUME TypeInv, PlaceInv, NEW v \in Pcb, TerminateProcess(v), ~TerminateBreaks(v)
  PROVE  /\ \A q \in Subtree(v) : IsFree(q)' /\ ~SoftBlocked(q)' /\ ~IsFree(q)
         /\ \A q : q \notin Subtree(v) =>
              /\ IsFree(q)' <=> IsFree(q)
              /\ OnClock(q)' <=> OnClock(q)
              /\ Lines(q)' = Lines(q)
         /\ UNCHANGED blockedOnDevice
         /\ pcbFree_h \subseteq pcbFree_h'
         /\ \A c \in Pcb : p_parent'[c] = IF c \in Subtree(v) THEN NULL ELSE p_parent[c]
<1>1. /\ ToSet(pseudoClockQueue') = ToSet(pseudoClockQueue) \ Subtree(v)
      /\ \A l \in Line : ToSet(blockedQueue'[l]) = ToSet(blockedQueue[l]) \ Subtree(v)
  BY VictimsUnlinked
<1>2. /\ pcbFree_h' = pcbFree_h \cup Subtree(v) /\ UNCHANGED blockedOnDevice
      /\ p_parent' = [q \in Pcb |-> IF q \in Subtree(v) THEN NULL ELSE p_parent[q]]
  BY DEF TerminateProcess
<1>3. \A q \in Subtree(v) : ~IsFree(q)
  BY VictimsFound
<1>4. \A q \in Subtree(v) : ~SoftBlocked(q)'
  BY <1>1 DEF SoftBlocked, OnClock, OnDevice
<1>5. \A q : q \notin Subtree(v) => Lines(q)' = Lines(q)
  BY <1>1 DEF Lines
<1>6. \A q : q \notin Subtree(v) => (OnClock(q)' <=> OnClock(q))
  BY <1>1 DEF OnClock
<1> QED
  BY <1>2, <1>3, <1>4, <1>5, <1>6 DEF IsFree

\* A parked process is in no call, and stays so when it is freed.
LEMMA ParkedIdle ==
  ASSUME CallInv, NEW q \in Clients, Parked(q)
  PROVE  Idle(q) /\ ~IsFree(q) /\ ~Awaits(q)
<1>1. ~IsFree(q) /\ ~InCall(q) /\ ~Awaits(q)
  BY DEF Parked, Linked, InCall
<1> QED
  BY <1>1, PhaseOf DEF CallInv

\* Who dies in no call is in none afterwards.
LEMMA FreedIdle ==
  ASSUME NEW q, Idle(q), IsFree(q)', ~SoftBlocked(q)', Work(q)' = Running,
         Asked(q)' = Asked(q), Told(q)' = Told(q)
  PROVE  Idle(q)'
BY DEF Idle, Calm, InCall

\* Nobody is in a call who dies with a process that traps.
LEMMA TrapMoves ==
  ASSUME Prudent = TRUE, TypeInv, TypeInv', PlaceInv, SSIStands, CallInv, Trap, ~Break
  PROVE  /\ SingleInv'
         /\ \E p \in Clients :
              /\ p = current_process /\ SafeToKill(p)
              /\ TerminateProcess(p) /\ ~TerminateBreaks(p)
              /\ \A q \in Clients : IF q \in Subtree(p) THEN Idle(q) /\ Idle(q)' /\ IsFree(q)'
                                                        ELSE Stays(q)
<1>1. PICK p : p = current_process
  OBVIOUS
<1>2. /\ TerminateProcess(p) /\ ~TerminateBreaks(p) /\ SafeToKill(p)
      /\ UNCHANGED <<msgs, p_s>> /\ Scheduler(readyQueue) /\ ClientRuns /\ cpu.op = "run"
      /\ UNCHANGED <<inbox, p_s, blockedOnDevice>>
  BY <1>1 DEF Trap, msgs, ClientRuns, TerminateProcess
<1>3. p \in Clients /\ Idle(p) /\ p \in Pcb
  BY <1>1, <1>2, ClientIdle, ClientFacts
<1>4. /\ \A q : Work(q) = Running /\ Work(q)' = Running
      /\ \A q \in Pcb : ControlOf(q)' = p_s[q]
  <2>1. \A q : Work(q) = Running
    BY <1>2 DEF Work
  <2> QED
    BY <2>1, <1>2, SchedulerView DEF TypeInv, CPU
<1>5. ASSUME NEW q \in Clients, q \in Subtree(p)
      PROVE  Idle(q) /\ Idle(q)' /\ IsFree(q)'
  <2>1. Idle(q)
    BY <1>1, <1>2, <1>3, <1>5, ParkedIdle DEF SafeToKill
  <2> QED
    BY <2>1, <1>2, <1>3, <1>4, <1>5, KillView, QuietBoxes, FreedIdle
<1>6. ASSUME NEW q \in Clients, q \notin Subtree(p)
      PROVE  Stays(q)
  <2>1. q # p /\ q \in Pcb
    BY <1>3, <1>6, SubtreeClosed, ClientFacts
  <2>2. ControlOf(q)' = ControlOf(q)
    BY <2>1, <1>1, <1>4 DEF ControlOf
  <2> QED
    BY <2>1, <2>2, <1>2, <1>3, <1>4, <1>6, KillView, QuietBoxes DEF Stays
<1> QED
  BY <1>1, <1>2, <1>3, <1>5, <1>6, QuietBoxes DEF CallInv
-----------------------------------------------------------------------------
(* What each service does to the calls in progress *)

\* The SSI serves the call r of p.
ServesCall(p, r) ==
  /\ p \in Clients /\ ServesAnother(p, r) /\ Served(p) /\ Wish(p) = r
  /\ \A q : Work(q) = IF q = p THEN Serving(p, r) ELSE Running

\* The SSI at work is at work for a client, on what the client waits for.
LEMMA SSIServesCall ==
  ASSUME TypeInv, SSIStands, CallInv, SSIServes
  PROVE  \E p, r : ServesCall(p, r) /\ SSIRequest(p, r)
<1>1. PICK p, r : p = cpu.who /\ r = cpu.val
  OBVIOUS
<1>2. ServesAnother(p, r) /\ SSIRequest(p, r) /\ cpu.op = "serve" /\ p \in Clients
  BY <1>1, SSIServesAnother DEF SSIServes, ServesAnother, Serves, Clients
<1>3. cpu = Serving(p, r)
  BY <1>1, <1>2 DEF Serving, TypeInv, CPU, AtWork, Control
<1>4. \A q : Work(q) = IF q = p THEN Serving(p, r) ELSE Running
  BY <1>1, <1>2, <1>3 DEF Work, Serving
<1>5. Served(p)
  BY <1>2, <1>4, PhaseOf DEF CallInv, Serving
<1>6. Wish(p) = r
  BY <1>4, <1>5 DEF Served, Serving
<1> QED
  BY <1>2, <1>4, <1>5, <1>6 DEF ServesCall

\* A service that answers, or leaves the SSI at its loop head, changes only the
\* SSI's work for the caller.
LEMMA AnswerView ==
  ASSUME NEW p, NEW r, ServesCall(p, r), NEW result
  PROVE  /\ Answer(p, r, result) =>
              \A q : Work(q)' = IF q = p
                                THEN Replying(p, [service |-> r.service, arg |-> result])
                                ELSE Running
         /\ NoAnswer(p, r) => \A q : Work(q)' = Running
BY DEF Answer, NoAnswer, Work, Replying, AtLoopHead, ReceiveFrom

\* A service does not touch the registers of those it does not run.
LEMMA ServiceControls ==
  ASSUME NEW p, NEW r, ServesCall(p, r), UNCHANGED current_process,
         NEW q \in Clients, p_s'[q] = p_s[q]
  PROVE  ControlOf(q)' = ControlOf(q)
BY ClientFacts DEF ServesCall, ServesAnother, ControlOf

\* A call whose answer the SSI is about to send.
LEMMA AnswerPhase ==
  ASSUME NEW p, NEW r, ServesCall(p, r), r.service # "DOIO", NEW result,
         Answer(p, r, result), ~IsFree(p)', ~SoftBlocked(p)', ControlOf(p)' = ControlOf(p),
         Asked(p)' = Asked(p), Told(p)' = Told(p)
  PROVE  Replied(p)' /\ InCall(p)' /\ Wish(p)' = r
<1>1. Work(p)' = Replying(p, [service |-> r.service, arg |-> result])
  BY AnswerView
<1>2. InCall(p)' /\ Wish(p)' = r
  BY DEF ServesCall, Served, InCall, Awaits, Wish
<1>3. Calm(p)'
  BY DEF Calm, ServesCall, Served
<1> QED
  BY <1>1, <1>2, <1>3 DEF Replied, Replying, Answers

\* A birth: the caller is to be answered, and its child calls nobody.
LEMMA CreateProcessMoves ==
  ASSUME TypeInv, PlaceInv, SSIStands, CallInv, BirthInv,
         NEW p, NEW r, ServesCall(p, r), CreateProcess(p, r), ~Break
  PROVE  /\ SingleInv' /\ Replied(p)' /\ InCall(p)' /\ Wish(p)' = r
         /\ \E child \in pcbFree_h \cap Clients :
              /\ child # p /\ Idle(child) /\ Idle(child)' /\ ~Awaits(child)'
              /\ Told(child)' = {} /\ Asked(child)' = {}
              /\ pcbFree_h' = pcbFree_h \ {child}
              /\ p_parent' = [p_parent EXCEPT ![child] = p]
              /\ p_s' = [p_s EXCEPT ![child] = Running]
              /\ readyQueue' = insertProcQ(readyQueue, child)
              /\ UNCHANGED <<queues, msgFree, current_process, dev, mode>>
              /\ \A q \in Clients \ {p, child} : Stays(q)
<1>1. pcbFree_h # {}
  <2>1. p \in Births
    BY DEF ServesCall, Births, Open, CreateProcess
  <2>2. Cardinality(Births) # 0 /\ Cardinality(Births) \in Nat
    BY <2>1, CallSetsFinite, FS_EmptySet
  <2> QED
    BY <2>2, FS_EmptySet DEF BirthInv
<1>2. PICK child \in pcbFree_h :
        /\ ~IsFree(p)
        /\ pcbFree_h' = pcbFree_h \ {child}
        /\ p_parent' = [p_parent EXCEPT ![child] = p]
        /\ inbox' = [inbox EXCEPT ![child] = <<>>]
        /\ p_s' = [p_s EXCEPT ![child] = Running]
        /\ readyQueue' = insertProcQ(readyQueue, child)
        /\ Answer(p, r, child)
        /\ UNCHANGED <<queues, msgFree, current_process, dev, mode>>
  BY <1>1 DEF CreateProcess
<1>3. child \in Pcb /\ child \in Clients /\ child # p /\ IsFree(child) /\ p \in Clients
      /\ current_process = ssi_pcb
  BY <1>2, ClientFacts DEF IsFree, SSIStands, TypeInv, Procs, ServesCall, ServesAnother
<1>4. \A q : Work(q) = (IF q = p THEN Serving(p, r) ELSE Running)
             /\ Work(q)' = (IF q = p THEN Replying(p, [service |-> r.service, arg |-> child])
                                     ELSE Running)
  BY <1>2, AnswerView DEF ServesCall
<1>5. Idle(child)
  <2>1. ~InCall(child) /\ Work(child).op # "reply"
    BY <1>3, <1>4 DEF InCall, Running
  <2> QED
    BY <2>1, <1>3, PhaseOf DEF CallInv
<1>6. UNCHANGED <<blockedQueue, pseudoClockQueue, blockedOnDevice>>
  BY <1>2 DEF queues
<1>7. \A q \in Clients : SoftBlocked(q)' <=> SoftBlocked(q)
  BY <1>6 DEF SoftBlocked, OnClock, OnDevice
<1>8. \A q \in Pcb : /\ inbox'[q] = IF q = child THEN <<>> ELSE inbox[q]
                     /\ p_s'[q] = IF q = child THEN Running ELSE p_s[q]
  BY <1>2 DEF TypeInv, Msgs, Saved
<1>9. \A q \in Clients : /\ Asked(q)' = Asked(q)
                         /\ Told(q)' = IF q = child THEN {} ELSE Told(q)
  <2>1. \A q : Words(<<>>, q) = {}
    BY DEF Words, Letters
  <2> QED
    BY <2>1, <1>3, <1>8, ClientFacts DEF Asked, Told
<1>10. SingleInv'
  <2>1. \A q : Single(<<>>, q)
    BY DEF Single, Letters
  <2> QED
    BY <2>1, <1>3, <1>8, ClientFacts DEF CallInv, SingleInv
<1>11. \A q \in Clients \ {child} : ControlOf(q)' = ControlOf(q)
  BY <1>2, <1>8, ServiceControls, ClientFacts
<1>12. Replied(p)' /\ InCall(p)' /\ Wish(p)' = r
  <2>1. ~IsFree(p)' /\ ~SoftBlocked(p)' /\ ControlOf(p)' = ControlOf(p)
        /\ Asked(p)' = Asked(p) /\ Told(p)' = Told(p)
    BY <1>2, <1>3, <1>7, <1>9, <1>11 DEF IsFree, ServesCall, Served, Calm
  <2> QED
    BY <2>1, <1>2, AnswerPhase DEF CreateProcess
<1>13. Idle(child)' /\ ~Awaits(child)'
  <2>1. ControlOf(child)' = Running
    BY <1>2, <1>3, <1>8, ClientFacts DEF ControlOf
  <2>2. ~InCall(child)' /\ ~Awaits(child)'
    BY <2>1 DEF InCall, Awaits, Running
  <2>3. Calm(child)'
    BY <1>3, <1>5, <1>7, <1>9 DEF Idle, Calm
  <2> QED
    BY <2>2, <2>3, <1>3, <1>4 DEF Idle
<1>14. \A q \in Clients \ {p, child} : Stays(q)
  <2> TAKE q \in Clients \ {p, child}
  <2>1. (IsFree(q)' <=> IsFree(q)) /\ (OnClock(q)' <=> OnClock(q)) /\ Lines(q)' = Lines(q)
    BY <1>2, <1>6 DEF IsFree, OnClock, Lines
  <2> QED
    BY <2>1, <1>3, <1>4, <1>6, <1>9, <1>11 DEF Stays
<1>15. Told(child)' = {} /\ Asked(child)' = {}
  BY <1>3, <1>5, <1>9 DEF Idle, Calm
<1> QED
  BY <1>2, <1>3, <1>5, <1>10, <1>12, <1>13, <1>14, <1>15

\* A termination: whoever dies besides the caller is in no call; the caller is to be
\* answered, alive or not, unless its request was no service.
LEMMA TerminateMoves ==
  ASSUME TypeInv, PlaceInv, SSIStands, CallInv, DoomInv, TreeInv,
         NEW p, NEW r, ServesCall(p, r), Terminate(p, r) \/ Refuse(p, r), ~Break
  PROVE  /\ SingleInv'
         /\ \E v \in Clients :
              /\ v = p \/ p_parent[v] = p
              /\ v = p <=> p \in Subtree(v)
              /\ TerminateProcess(v) /\ ~TerminateBreaks(v)
              /\ UNCHANGED <<readyQueue, msgs, current_process, p_s, dev, mode>>
              /\ \A q \in Subtree(v) \ {p} : Parked(q)
              /\ \A q \in Clients \ {p} :
                   IF q \in Subtree(v) THEN Idle(q) /\ Idle(q)' /\ IsFree(q)' ELSE Stays(q)
              /\ IF v = p THEN (Idle(p)' /\ r.service = "INVALID") \/ (Departed(p)' /\ r = Suicide)
                          ELSE Replied(p)' /\ InCall(p)' /\ Wish(p)' = r
<1>0. /\ p \in Clients /\ r \in Payload /\ Served(p) /\ Wish(p) = r /\ Open(p)
      /\ current_process = ssi_pcb
  BY DEF ServesCall, ServesAnother, Serves, Open
<1> DEFINE victim == IF r.service = "INVALID" \/ r.arg = NULL THEN p ELSE r.arg
<1>1. PICK v : v = victim
  OBVIOUS
<1>2. /\ TerminateProcess(v) /\ ~TerminateBreaks(v)
      /\ r.service \in {"TERMPROCESS", "INVALID"}
      /\ IF r.service = "INVALID" THEN NoAnswer(p, r) ELSE Answer(p, r, NULL)
      /\ UNCHANGED <<readyQueue, msgs, current_process, p_s, dev, mode>>
      /\ UNCHANGED <<inbox, p_s, current_process>>
  BY <1>1 DEF Terminate, Refuse, msgs
<1>3. v \in Clients /\ (v = p \/ p_parent[v] = p) /\ (v # p => r.service = "TERMPROCESS")
  <2>1. CASE v = p
    BY <2>1, <1>0
  <2>2. ASSUME v # p
        PROVE  r.service = "TERMPROCESS" /\ r.arg # NULL /\ v = r.arg
    BY <2>2, <1>1, <1>2
  <2> QED
    BY <2>1, <2>2, <1>0 DEF DoomInv, Foreseen
<1>4. v \in Pcb /\ p \in Pcb /\ v \in Subtree(v)
  BY <1>0, <1>3, ClientFacts, SubtreeClosed
<1>5. v = p <=> p \in Subtree(v)
  BY <1>3, <1>4, ParentAbove
<1>6. \A q \in Subtree(v) \ {p} : Parked(q)
  <2>1. Ends(p, r) = Subtree(v)
    BY <1>1, <1>2 DEF Ends
  <2> QED
    BY <2>1, <1>0 DEF DoomInv, Foreseen, Doomed
<1>7. \A q : q # p => Work(q) = Running /\ Work(q)' = Running
  BY <1>2, AnswerView DEF ServesCall
<1>8. \A q : Asked(q)' = Asked(q) /\ Told(q)' = Told(q)
  BY <1>2, QuietBoxes
<1>9. ASSUME NEW q \in Clients \ {p}, q \in Subtree(v)
      PROVE  Idle(q) /\ Idle(q)' /\ IsFree(q)'
  <2>1. Idle(q)
    BY <1>6, <1>9, ParkedIdle
  <2> QED
    BY <2>1, <1>2, <1>4, <1>7, <1>8, <1>9, KillView, FreedIdle
<1>10. ASSUME NEW q \in Clients, q \notin Subtree(v)
       PROVE  /\ ControlOf(q)' = ControlOf(q) /\ Asked(q)' = Asked(q) /\ Told(q)' = Told(q)
              /\ (IsFree(q)' <=> IsFree(q)) /\ (OnClock(q)' <=> OnClock(q))
              /\ Lines(q)' = Lines(q) /\ blockedOnDevice'[q] = blockedOnDevice[q]
  <2>1. ControlOf(q)' = ControlOf(q)
    BY <1>2, ServiceControls
  <2> QED
    BY <2>1, <1>2, <1>4, <1>8, <1>10, KillView
<1>11. ASSUME NEW q \in Clients \ {p}, q \notin Subtree(v)
       PROVE  Stays(q)
  BY <1>7, <1>10, <1>11 DEF Stays
<1>12. IF v = p THEN (Idle(p)' /\ r.service = "INVALID") \/ (Departed(p)' /\ r = Suicide)
                ELSE Replied(p)' /\ InCall(p)' /\ Wish(p)' = r
  <2>1. CASE v = p
    <3>1. IsFree(p)' /\ ~SoftBlocked(p)'
      BY <2>1, <1>2, <1>4, KillView
    <3>2. Calm(p)' /\ ~InCall(p)'
      BY <3>1, <1>0, <1>8 DEF Served, Calm, InCall
    <3>3. CASE r.service = "INVALID"
      <4>1. Work(p)' = Running
        BY <3>3, <1>2, AnswerView
      <4> QED
        BY <4>1, <3>2, <3>3, <2>1 DEF Idle
    <3>4. CASE r.service = "TERMPROCESS"
      <4>1. Work(p)' = Replying(p, [service |-> r.service, arg |-> NULL])
        BY <3>4, <1>2, AnswerView
      <4>2. Departed(p)'
        BY <4>1, <3>1, <3>2 DEF Departed, Replying
      <4>3. r.arg = NULL
        <5>1. ASSUME r.arg # NULL
              PROVE  FALSE
          <6>1. p_parent[r.arg] = p /\ r.arg = v
            BY <5>1, <3>4, <1>0, <1>1 DEF DoomInv, Foreseen
          <6> QED
            BY <6>1, <2>1, <1>4, ParentAbove
        <5> QED
          BY <5>1
      <4>4. r = Suicide
        BY <4>3, <3>4, <1>0 DEF Payload, Suicide
      <4> QED
        BY <4>2, <4>4, <2>1
    <3> QED
      BY <3>3, <3>4, <1>2
  <2>2. CASE v # p
    <3>1. r.service = "TERMPROCESS" /\ Answer(p, r, NULL) /\ p \notin Subtree(v)
      BY <2>2, <1>2, <1>3, <1>5
    <3>2. ~IsFree(p)'
      BY <3>1, <1>0, <1>10 DEF Served, InCall
    <3>3. ~SoftBlocked(p)'
      BY <3>1, <1>0, <1>10 DEF Served, Calm, SoftBlocked, OnDevice, Lines
    <3> QED
      BY <3>1, <3>2, <3>3, <2>2, <1>0, <1>10, AnswerPhase
  <2> QED
    BY <2>1, <2>2
<1> QED
  BY <1>2, <1>3, <1>5, <1>6, <1>9, <1>11, <1>12, QuietBoxes DEF CallInv

\* doio(): the caller is on the queue of its device.
LEMMA DoIOMoves ==
  ASSUME TypeInv, PlaceInv, SSIStands, CallInv,
         NEW p, NEW r, ServesCall(p, r), DoIO(p, r), ~Break
  PROVE  /\ SingleInv' /\ Queued(p)' /\ InCall(p)' /\ Wish(p)' = r
         /\ \A q \in Clients \ {p} : Stays(q)
<1>0. /\ p \in Clients /\ r \in Payload /\ NamesDevice(r) /\ Served(p) /\ Wish(p) = r
      /\ Serves(p, r) /\ r.service = "DOIO" /\ r.arg \in Device /\ p \in Pcb
  BY ClientFacts DEF ServesCall, ServesAnother, Serves, DoIO, NamesDevice
<1>1. /\ ~IsFree(p) /\ ~SoftBlocked(p)
      /\ blockedOnDevice' = [blockedOnDevice EXCEPT ![p] = r.arg.no]
      /\ NoAnswer(p, r)
      /\ UNCHANGED <<pcbFree_h, pseudoClockQueue, inbox, current_process, p_s>>
  BY DEF DoIO, procs, msgs
<1>2. \A k \in Line : ToSet(blockedQueue'[k]) =
                        IF k = r.arg.line THEN ToSet(blockedQueue[k]) \cup {p}
                                          ELSE ToSet(blockedQueue[k])
  BY <1>0, DoIOLinks
<1>3. r.arg.line \in Line
  BY <1>0, NucleusAssumption
<1>4. \A q : Work(q)' = Running
  BY <1>1, AnswerView
<1>5. \A q \in Clients : /\ ControlOf(q)' = ControlOf(q)
                         /\ Asked(q)' = Asked(q) /\ Told(q)' = Told(q)
                         /\ (IsFree(q)' <=> IsFree(q)) /\ (OnClock(q)' <=> OnClock(q))
  BY <1>1, ServiceControls, QuietBoxes DEF IsFree, OnClock
<1>6. \A q \in Clients \ {p} : Stays(q)
  <2> TAKE q \in Clients \ {p}
  <2>1. Lines(q)' = Lines(q)
    BY <1>2 DEF Lines
  <2>2. blockedOnDevice'[q] = blockedOnDevice[q]
    BY <1>1, ClientFacts DEF TypeInv, Queues
  <2> QED
    BY <2>1, <2>2, <1>4, <1>5 DEF Stays, ServesCall
<1>7. InCall(p)' /\ Wish(p)' = r
  BY <1>0, <1>5 DEF Served, InCall, Awaits, Wish
<1>8. Queued(p)'
  <2>1. Lines(p) = {}
    BY <1>1 DEF SoftBlocked, OnDevice, Lines
  <2>2. Lines(p)' = {r.arg.line}
    BY <2>1, <1>2, <1>3 DEF Lines
  <2>3. blockedOnDevice'[p] = r.arg.no
    BY <1>0, <1>1 DEF TypeInv, Queues
  <2> QED
    BY <2>2, <2>3, <1>0, <1>4, <1>5, <1>7 DEF Served, Calm, Queued, OnItsQueue
<1> QED
  BY <1>1, <1>6, <1>7, <1>8, QuietBoxes DEF CallInv

\* wait4Clock(): the caller is on the pseudo-clock queue.
LEMMA WaitForClockMoves ==
  ASSUME TypeInv, SSIStands, CallInv,
         NEW p, NEW r, ServesCall(p, r), WaitForClock(p, r), ~Break
  PROVE  /\ SingleInv' /\ Queued(p)' /\ InCall(p)' /\ Wish(p)' = r
         /\ \A q \in Clients \ {p} : Stays(q)
<1>0. /\ p \in Clients /\ Served(p) /\ Wish(p) = r /\ r.service = "CLOCKWAIT" /\ p \in Pcb
  BY ClientFacts DEF ServesCall, WaitForClock
<1>1. /\ pseudoClockQueue' = insertProcQ(pseudoClockQueue, p) /\ NoAnswer(p, r)
      /\ UNCHANGED <<pcbFree_h, blockedQueue, blockedOnDevice, inbox, current_process, p_s>>
  BY DEF WaitForClock, procs, msgs
<1>2. ToSet(pseudoClockQueue') = ToSet(pseudoClockQueue) \cup {p}
  BY <1>0, <1>1, AppendAdds DEF insertProcQ, TypeInv, Queues
<1>4. \A q : Work(q)' = Running
  BY <1>1, AnswerView
<1>5. \A q \in Clients : /\ ControlOf(q)' = ControlOf(q)
                         /\ Asked(q)' = Asked(q) /\ Told(q)' = Told(q)
                         /\ (IsFree(q)' <=> IsFree(q)) /\ Lines(q)' = Lines(q)
                         /\ blockedOnDevice'[q] = blockedOnDevice[q]
  BY <1>1, ServiceControls, QuietBoxes DEF IsFree, Lines
<1>6. \A q \in Clients \ {p} : Stays(q)
  BY <1>2, <1>4, <1>5 DEF Stays, ServesCall, OnClock
<1>7. InCall(p)' /\ Wish(p)' = r
  BY <1>0, <1>5 DEF Served, InCall, Awaits, Wish
<1>8. OnClock(p)'
  BY <1>2 DEF OnClock
<1>9. Queued(p)'
  BY <1>0, <1>4, <1>5, <1>7, <1>8 DEF Served, Calm, Queued, OnItsQueue
<1> QED
  BY <1>1, <1>6, <1>7, <1>9, QuietBoxes DEF CallInv

\* An inquiry: the caller is to be answered.
LEMMA InquireMoves ==
  ASSUME TypeInv, SSIStands, CallInv,
         NEW p, NEW r, ServesCall(p, r), Inquire(p, r), ~Break
  PROVE  /\ SingleInv' /\ Replied(p)' /\ InCall(p)' /\ Wish(p)' = r
         /\ UNCHANGED <<procs, readyQueue, queues, msgs, current_process, p_s, dev>>
         /\ \A q \in Clients \ {p} : Stays(q)
<1>0. /\ p \in Clients /\ Served(p) /\ r.service # "DOIO"
  BY DEF ServesCall, Inquire
<1>1. PICK result : Answer(p, r, result)
  BY DEF Inquire
<1>2. /\ UNCHANGED <<procs, readyQueue, queues, msgs, current_process, p_s, dev>>
      /\ UNCHANGED <<pcbFree_h, queues, inbox, current_process, p_s>>
  BY DEF Inquire, procs, msgs
<1>3. \A q \in Clients : ControlOf(q)' = ControlOf(q)
  BY <1>2, ServiceControls
<1>4. \A q \in Clients \ {p} : Stays(q)
  <2> TAKE q \in Clients \ {p}
  <2>1. Work(q)' = Work(q)
    BY <1>1, AnswerView DEF ServesCall
  <2> QED
    BY <2>1, <1>2, <1>3, QuietBoxes, Untouched
<1>5. Replied(p)' /\ InCall(p)' /\ Wish(p)' = r
  <2>1. ~IsFree(p)' /\ ~SoftBlocked(p)'
    BY <1>0, <1>2 DEF Served, InCall, Calm, IsFree, SoftBlocked, OnClock, OnDevice, queues
  <2>2. Asked(p)' = Asked(p) /\ Told(p)' = Told(p)
    BY <1>2, QuietBoxes
  <2> QED
    BY <2>1, <2>2, <1>0, <1>1, <1>3, AnswerPhase
<1> QED
  BY <1>2, <1>4, <1>5, QuietBoxes DEF CallInv

\* The SSI's answer reaches its caller, or is lost when that has departed.
LEMMA ReplyMoves ==
  ASSUME TypeInv, PlaceInv, SSIStands, CallInv, PoolInv, Reply, ~Break
  PROVE  /\ SingleInv' /\ UNCHANGED <<procs, queues, current_process, p_s, dev>>
         /\ \E p \in Clients :
              /\ p = cpu.who
              /\ \/ /\ Departed(p) /\ Idle(p)' /\ IsFree(p)' /\ UNCHANGED readyQueue
                    /\ (PoolEmpty /\ msgFree' = msgFree) \/ msgFree' = msgFree - 1
                 \/ /\ Replied(p) /\ Answered(p)' /\ InCall(p)' /\ Wish(p)' = Wish(p)
                    /\ msgFree' = msgFree - 1 /\ p \in Takers
                    /\ readyQueue' = readyQueue \/ readyQueue' = insertProcQ(readyQueue, p)
              /\ \A q \in Clients \ {p} : Stays(q)
<1>1. PICK p : p = cpu.who
  OBVIOUS
<1>2. /\ cpu.op = "reply" /\ Send(ssi_pcb, p, cpu.val) /\ cpu' = AtLoopHead
      /\ UNCHANGED <<procs, queues, current_process, p_s, dev>>
      /\ UNCHANGED <<pcbFree_h, queues>>
      /\ p \in Clients /\ p \in Pcb /\ current_process = ssi_pcb
  BY <1>1, ClientFacts
     DEF Reply, procs, SSIStands, SSIServesOthers, TypeInv, CPU, AtWork, Clients
<1>3. \A q : Work(q) = (IF q = p THEN cpu ELSE Running) /\ Work(q)' = Running
  BY <1>1, <1>2 DEF Work, AtLoopHead, ReceiveFrom
<1>4. Replied(p) \/ Departed(p)
  BY <1>2, <1>3, PhaseOf DEF CallInv
<1>5. \A q \in Clients : ControlOf(q)' = ControlOf(q)
  BY <1>2, ClientFacts DEF ControlOf
<1>6. ~SoftBlocked(p)' /\ (IsFree(p)' <=> IsFree(p))
  BY <1>2, <1>4
     DEF Replied, Departed, Calm, SoftBlocked, OnClock, OnDevice, IsFree, queues
<1>7. CASE Departed(p)
  <2>1. /\ UNCHANGED inbox /\ UNCHANGED readyQueue
        /\ (PoolEmpty /\ msgFree' = msgFree) \/ msgFree' = msgFree - 1
    BY <1>2, <1>7 DEF Send, Departed, msgs
  <2>2. \A q \in Clients \ {p} : Stays(q)
    BY <2>1, <1>2, <1>3, <1>5, QuietBoxes, Untouched
  <2>3. Idle(p)' /\ IsFree(p)'
    BY <2>1, <1>3, <1>6, <1>7, QuietBoxes DEF Departed, Idle, Calm, InCall
  <2> QED
    BY <2>1, <2>2, <2>3, <1>1, <1>2, <1>7, QuietBoxes DEF CallInv
<1>8. CASE Replied(p)
  <2>1. p \in Takers /\ ~PoolEmpty /\ ~IsFree(p)
    <3>1. p \in Takers
      BY <1>2, <1>8 DEF Replied, Calm, Takers
    <3> QED
      BY <3>1, <1>8, TakerServed DEF Replied, InCall
  <2> DEFINE m == [sender |-> ssi_pcb, payload |-> cpu.val]
  <2>2. /\ inbox' = [inbox EXCEPT ![p] = Append(@, m)] /\ msgFree' = msgFree - 1
        /\ readyQueue' = readyQueue \/ readyQueue' = insertProcQ(readyQueue, p)
    BY <2>1, <1>2 DEF Send
  <2>3. m \in SoundMessage /\ m.sender = ssi_pcb /\ m.payload = cpu.val /\ cpu.val \in Payload
    BY <1>2, ClientFacts DEF SoundMessage, Message, TypeInv, CPU, AtWork, Control
  <2>4. Told(p) = {} /\ Asked(p) = {}
    BY <1>8 DEF Replied, Calm
  <2>5. /\ \A q \in Clients : /\ Asked(q)' = Asked(q)
                              /\ Told(q)' = IF q = p THEN {cpu.val} ELSE Told(q)
        /\ SingleInv'
    <3> HIDE DEF m
    <3>1. /\ \A q \in Clients : /\ Asked(q)' = Asked(q)
                                /\ Told(q)' = IF p = q THEN Told(q) \cup {m.payload}
                                                       ELSE Told(q)
          /\ SingleInv'
      BY <2>2, <2>3, <2>4, <1>2, BoxAdd, ClientFacts DEF TypeInv, CallInv
    <3> QED
      BY <3>1, <2>3, <2>4
  <2>6. \A q \in Clients \ {p} : Stays(q)
    BY <2>5, <1>2, <1>3, <1>5, Untouched
  <2>7. InCall(p)' /\ Wish(p)' = Wish(p)
    BY <1>2, <1>5, <1>6, <1>8 DEF Replied, InCall, Awaits, Wish
  <2>8. Answered(p)'
    <3>1. Answers(Wish(p), cpu.val)
      BY <1>3, <1>8 DEF Replied
    <3> QED
      BY <3>1, <2>3, <2>4, <2>5, <2>7, <1>2, <1>3, <1>6 DEF Answered
  <2> QED
    BY <2>1, <2>2, <2>5, <2>6, <2>7, <2>8, <1>1, <1>2, <1>8
<1> QED
  BY <1>4, <1>7, <1>8
=============================================================================
