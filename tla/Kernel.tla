-------------------------------- MODULE Kernel --------------------------------
(***************************************************************************)
(* The nucleus under given programs, over the real lists of phase 1.       *)
(*                                                                         *)
(* Nucleus describes what processes of any kind may meet; here each        *)
(* process runs a program, which is what the modules that extend this one  *)
(* add.  A process holds the kernel calls it makes next; when it has none, *)
(* the program decides on the following ones.  A step is a kernel entry,   *)
(* exception to LDST, or a request served by the SSI.                      *)
(*                                                                         *)
(* There is no PLT interrupt: setPLT() loads about 2^31 ticks for a slice  *)
(* (ssi.c:225), and no process here runs that long without a receive.      *)
(***************************************************************************)
EXTENDS ListHeap

CONSTANTS Device, MAXMESSAGES, Idle

VARIABLES
  heap, p_parent, processCount, softBlockCount, blockedOnDevice, inbox, msgFree,
  current_process,
  p_s,      \* of each PCB: its program, the calls it makes next, what it got last
  global,   \* the C variables that hold PCB pointers
  dev,      \* the character each device works on, or Idle
  mode,
  dead      \* history: the PCBs freed since they were allocated

procs  == <<p_parent, processCount, dead>>
blocks == <<softBlockCount, blockedOnDevice>>
msgs   == <<inbox, msgFree>>
kernelVars == <<heap, p_parent, processCount, softBlockCount, blockedOnDevice, inbox,
                msgFree, current_process, p_s, global, dev, mode, dead>>
-----------------------------------------------------------------------------
(* Programs *)

\* A variable, or an element of an array of them.  PARENT and Client are read off
\* the process that makes the call: its p_parent, and who sent it its last request.
At(array, i) == <<array, i>>
Var(v)  == At(v, 0)
ssi_pcb == Var("ssi_pcb")
PARENT  == Var("PARENT")
Client  == Var("Client")
NoOne   == Var("NULL")     \* NULL, and as a sender ANYMESSAGE

Word(service, arg) == [service |-> service, arg |-> arg]
Nothing == Word("NONE", NULL)

Call(op, who, what, into) == [op |-> op, who |-> who, what |-> what, into |-> into]
Send(who, what)   == Call("SENDMESSAGE", who, what, NoOne)
Receive(who)      == Call("RECEIVEMESSAGE", who, Nothing, NoOne)
ReceiveInto(who, into) == Call("RECEIVEMESSAGE", who, Nothing, into)
Die               == Call("TRAP", NoOne, Nothing, NoOne)

\* A request to the SSI and the receive of its answer.
AskSSI(service, arg) == <<Send(ssi_pcb, Word(service, arg)), Receive(ssi_pcb)>>
CreateProcess(program, into) ==
  <<Send(ssi_pcb, Word("CREATEPROCESS", program)), ReceiveInto(ssi_pcb, into)>>

\* stage is how far the program is; v0 and word are the result of the last call and the
\* payload of the last message; client is the sender of the request being served.
Process(prog, i, calls) ==
  [prog |-> prog, i |-> i, stage |-> 0, calls |-> calls,
   v0 |-> NULL, word |-> Nothing, client |-> NULL]

running == p_s[current_process]
Resolve(who) ==
  CASE who = PARENT -> p_parent[current_process]
    [] who = Client -> running.client
    [] OTHER        -> global[who]

\* The program has decided: it makes these calls next, and is then at this stage.
Goes(stage, calls) ==
  p_s' = [p_s EXCEPT ![current_process] =
            [@ EXCEPT !.calls = calls, !.client = running.v0, !.stage = stage]]
Decides(calls) == Goes(running.stage, calls)
Runs(prog) == mode = "run" /\ running.calls = <<>> /\ running.prog = prog
-----------------------------------------------------------------------------
(* How a handler ends, with the heap h. *)

Verdict ==
  CASE processCount' = 1 -> "halt"
    [] processCount' > 1 /\ softBlockCount' = 0 -> "panic"
    [] processCount' > 1 /\ softBlockCount' > 0 -> "wait"
    [] OTHER -> "broken"

Returns(h) == heap' = h /\ UNCHANGED <<current_process, mode>>

Schedules(h) ==
  /\ heap' = removeProcQ(h, readyQueue)
  /\ current_process' = IF list_empty(h, readyQueue) THEN NULL ELSE First(h, readyQueue)
  /\ mode' = IF list_empty(h, readyQueue) THEN Verdict ELSE "run"

exitInterruptHandler(h) == IF current_process = NULL THEN Schedules(h) ELSE Returns(h)
-----------------------------------------------------------------------------
(* exceptions.c *)

Awake(h, p) ==
  IF p = current_process \/ searchProcQ(h, p, readyQueue) THEN h ELSE insertProcQ(h, readyQueue, p)

Answered(v0) ==
  p_s' = [p_s EXCEPT ![current_process] = [@ EXCEPT !.calls = Tail(@), !.v0 = v0]]

\* The argument of TERMPROCESS is a PCB pointer, read when the request is sent.
Payload(what) ==
  IF what.service = "TERMPROCESS" THEN [what EXCEPT !.arg = Resolve(@)] ELSE what

Gone_Unchecked(dest) == FALSE
Gone(dest) == searchProcQ(heap, dest, pcbFree_h)

send(c) ==
  LET dest == Resolve(c.who)
  IN  /\ c.op = "SENDMESSAGE"
      /\ \/ msgFree = 0 /\ Answered("MSGNOGOOD") /\ Returns(heap) /\ UNCHANGED msgs
         \/ /\ msgFree > 0 /\ dest # NULL /\ Gone(dest)
            /\ Answered("DEST_NOT_EXIST") /\ Returns(heap)
            /\ msgFree' = msgFree - 1 /\ UNCHANGED inbox
         \/ /\ msgFree > 0 /\ dest # NULL /\ ~Gone(dest)
            /\ Answered("sent") /\ Returns(Awake(heap, dest))
            /\ msgFree' = msgFree - 1
            /\ inbox' = [inbox EXCEPT ![dest] =
                 Append(@, [sender |-> current_process, payload |-> Payload(c.what)])]
      /\ UNCHANGED <<procs, blocks, global, dev>>

Freed_Never(n) == n
Freed(n) == n + 1

Found(from) ==
  SelectInSeq(inbox[current_process], LAMBDA m : from = NULL \/ m.sender = from)

recv(c) ==
  LET p == current_process
      i == Found(Resolve(c.who))
  IN  /\ c.op = "RECEIVEMESSAGE"
      /\ \/ i = 0 /\ UNCHANGED <<p_s, msgs, procs, blocks, global, dev>> /\ Schedules(heap)
         \/ /\ i # 0
            /\ p_s' = [p_s EXCEPT ![p] = [@ EXCEPT !.calls = Tail(@), !.v0 = inbox[p][i].sender,
                                                   !.word = inbox[p][i].payload]]
            /\ global' = IF c.into = NoOne THEN global
                         ELSE [global EXCEPT ![c.into] = inbox[p][i].payload.arg]
            /\ inbox' = [inbox EXCEPT ![p] = RemoveAt(@, i)]
            /\ msgFree' = Freed(msgFree)
            /\ Returns(heap)
            /\ UNCHANGED <<procs, blocks, dev>>

\* terminateProcess(), without the end of the handler.
Terminates(p) ==
  LET t == Terminated(heap, p_parent, p)
  IN  /\ p_parent' = t.parent
      /\ processCount' = processCount - Len(t.freed)
      /\ softBlockCount' = softBlockCount - t.awake
      /\ dead' = dead \cup Range(t.freed)

\* A trap, or a positive SYSCALL, of a process without a support structure.
passUpOrDie(c) ==
  /\ c.op = "TRAP"
  /\ Terminates(current_process)
  /\ UNCHANGED <<blockedOnDevice, msgs, p_s, global, dev>>
  /\ Schedules(Terminated(heap, p_parent, current_process).heap)

Syscall ==
  /\ mode = "run" /\ running.calls # <<>>
  /\ LET c == Head(running.calls) IN send(c) \/ recv(c) \/ passUpOrDie(c)
-----------------------------------------------------------------------------
(* ssi.c: the service of a request, and what the SSI does next *)

Answer(result) == <<Send(Client, Word("ANSWER", result)), Receive(NoOne)>>
Reply(result)  == Decides(Answer(result))
NoReply == Decides(<<Receive(NoOne)>>)

\* The state_t in the request is the program of the child.
createProcess(p, r) ==
  LET child == First(heap, pcbFree_h)
      h     == insertChild(insertProcQ(allocPcb(heap), readyQueue, child), p, child)
  IN  /\ r.service = "CREATEPROCESS"
      /\ \/ list_empty(heap, pcbFree_h) /\ NoReply /\ Returns(heap) /\ UNCHANGED <<procs, inbox>>
         \/ /\ ~list_empty(heap, pcbFree_h)
            /\ p_s' = [p_s EXCEPT ![child] = Process(r.arg.prog, r.arg.i, <<>>),
                                  ![current_process] =
                         [@ EXCEPT !.calls = Answer(child), !.client = p]]
            /\ p_parent' = [p_parent EXCEPT ![child] = p]
            /\ inbox' = [inbox EXCEPT ![child] = <<>>]
            /\ processCount' = processCount + 1
            /\ dead' = dead \ {child}
            /\ Returns(h)
      /\ UNCHANGED <<blocks, msgFree, global, dev>>

Victim(p, r) == IF r.arg = NULL THEN p ELSE r.arg

terminateProcess(p, r) ==
  /\ r.service = "TERMPROCESS"
  /\ Terminates(Victim(p, r))
  /\ Returns(Terminated(heap, p_parent, Victim(p, r)).heap)
  /\ Reply(NULL)
  /\ UNCHANGED <<blockedOnDevice, msgs, global, dev>>

\* The SSI runs with interrupts enabled: one may come when the caller has left the ready
\* queue and is not on the device's yet.
doio(p, r) ==
  /\ r.service = "DOIO"
  /\ softBlockCount' = softBlockCount + 1
  /\ blockedOnDevice' = [blockedOnDevice EXCEPT ![p] = r.arg.device]
  /\ Returns(outProcQ(heap, readyQueue, p))
  /\ Decides(<<Call("COMMAND", Client, r, NoOne), Receive(NoOne)>>)
  /\ UNCHANGED <<procs, msgs, global, dev>>

\* The rest of doio().  The command, with the character to print, is written last: the
\* device may answer at once.
command(c) ==
  /\ c.op = "COMMAND"
  /\ Returns(insertProcQ(heap, blockedDiskQueue, running.client))
  /\ dev' = [dev EXCEPT ![c.what.arg.device] = c.what.arg.char]
  /\ p_s' = [p_s EXCEPT ![current_process].calls = Tail(@)]
  /\ UNCHANGED <<procs, blocks, msgs, global>>

wait4Clock(p, r) ==
  /\ r.service = "CLOCKWAIT"
  /\ softBlockCount' = softBlockCount + 1
  /\ Returns(insertProcQ(heap, pseudoClockQueue, p))
  /\ NoReply
  /\ UNCHANGED <<procs, blockedOnDevice, msgs, global, dev>>

\* The PCB stands for its pid.
inquire(p, r) ==
  /\ r.service \in {"GETTIME", "GETSUPPORTPTR", "GETPROCESSID"}
  /\ Reply(IF r.service = "GETPROCESSID" /\ r.arg # NULL THEN p_parent[p] ELSE p)
  /\ Returns(heap)
  /\ UNCHANGED <<procs, blocks, msgs, global, dev>>

SSIRequest ==
  /\ Runs("SSI")
  /\ LET p == running.v0
         r == running.word
     IN  \/ createProcess(p, r) \/ terminateProcess(p, r) \/ doio(p, r)
         \/ wait4Clock(p, r) \/ inquire(p, r)

SSI == SSIRequest \/ (mode = "run" /\ running.calls # <<>> /\ command(Head(running.calls)))
-----------------------------------------------------------------------------
(* interrupts.c: a device has ended its operation, or the clock ticks *)

\* The handler takes p off its queue, sends it a message of the SSI and readies it.  A
\* device's message is its status; no device here errs.
Awoken_Asleep(h, p) == list_del(h, p_list(p))
Awoken_StaysBlocked(h, p) == insertProcQ(h, readyQueue, p)
Awoken(h, p) == insertProcQ(list_del(h, p_list(p)), readyQueue, p)
FromSSI(status) == [sender |-> global[ssi_pcb], payload |-> Word("ANSWER", status)]

Pending(d) == mode \in {"run", "wait"} /\ dev[d] # Idle /\ msgFree > 0

deviceHandler(d) ==
  LET waiting == Unlocked(heap, blockedDiskQueue, blockedOnDevice, d)
  IN  /\ Pending(d)
      /\ dev' = [dev EXCEPT ![d] = Idle]
      /\ IF waiting = NULL
         THEN UNCHANGED <<softBlockCount, msgs, procs>> /\ exitInterruptHandler(heap)
         ELSE /\ softBlockCount' = softBlockCount - 1
              /\ msgFree' = msgFree - 1
              /\ inbox' = [inbox EXCEPT ![waiting] = Append(@, FromSSI("SUCCESS"))]
              /\ UNCHANGED procs
              /\ exitInterruptHandler(Awoken(heap, waiting))
      /\ UNCHANGED <<blockedOnDevice, p_s, global>>

ClockWaiters == Owners(Walk(heap.next, pseudoClockQueue))
Ticks == mode \in {"run", "wait"} /\ ClockWaiters # <<>> /\ msgFree >= Len(ClockWaiters)

intervalTimerHandler ==
  LET waiting == ClockWaiters
  IN  /\ Ticks
      /\ softBlockCount' = softBlockCount - Len(waiting)
      /\ msgFree' = msgFree - Len(waiting)
      /\ inbox' = [p \in Pcb |-> IF p \in Range(waiting) THEN Append(inbox[p], FromSSI(NULL))
                                                         ELSE inbox[p]]
      /\ UNCHANGED <<procs, blockedOnDevice, p_s, global, dev>>
      /\ exitInterruptHandler(FoldLeft(Awoken, heap, waiting))
-----------------------------------------------------------------------------
\* main(): the SSI and the first process, which runs the program test(), hold the
\* first two PCBs; the SSI has been dispatched.
KernelInit(variables) ==
  LET first(h) == insertProcQ(allocPcb(h), readyQueue, First(h, pcbFree_h))
      ssi      == pcbTable[1]
      test     == pcbTable[2]
  IN  /\ heap = removeProcQ(first(first(Initialised)), readyQueue)
      /\ p_parent = [p \in Pcb |-> NULL]
      /\ processCount = 2 /\ softBlockCount = 0
      /\ blockedOnDevice = [p \in Pcb |-> NULL]
      /\ inbox = [p \in Pcb |-> <<>>] /\ msgFree = MAXMESSAGES
      /\ current_process = ssi
      /\ p_s = [p \in Pcb |-> CASE p = ssi  -> Process("SSI", 0, <<Receive(NoOne)>>)
                                [] p = test -> Process("test", 0, <<>>)
                                [] OTHER    -> Process("none", 0, <<>>)]
      /\ global = [v \in variables \cup {ssi_pcb, NoOne} |-> IF v = ssi_pcb THEN ssi ELSE NULL]
      /\ dev = [d \in Device |-> Idle]
      /\ mode = "run"
      /\ dead = Pcb \ {ssi, test}

Stopped == mode \in {"halt", "panic", "broken"} /\ UNCHANGED kernelVars
-----------------------------------------------------------------------------
\* A process that has been freed is not dispatched again, though the SSI answers the
\* processes it has freed, and test() frees an SST that is asking for its own end
\* (exceptions.c:25, initProc.c:300-302, sst.c:25-27).  It is also what keeps TERMINATE
\* out of WRITEPRINTER (sst.c:77-81).
DeadStayDead == current_process \notin dead

\* TERMPROCESS is only served when nobody that it frees is on the ready queue, where
\* terminateProcess() would leave its link (ssi.c:72-89).
KillsOnlySleepers ==
  Runs("SSI") /\ running.word.service = "TERMPROCESS"
    => \A p \in Range(Terminated(heap, p_parent, Victim(running.v0, running.word)).freed) :
          ~OnList(heap, p_list(p), readyQueue)
=============================================================================
