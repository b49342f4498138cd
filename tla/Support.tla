------------------------------- MODULE Support --------------------------------
(***************************************************************************)
(* The support level (phase 3): test() builds the user processes' world,   *)
(* each SST serves the requests of its user process, printer and terminal  *)
(* processes print, and the shutdown starts when the user processes end.   *)
(* All of them are programs over Kernel.  What the pager does with frames  *)
(* is in Pager; here a page fault is the calls it makes.                   *)
(***************************************************************************)
EXTENDS Kernel

CONSTANTS UPROCMAX,
          Strings,   \* what user processes print
          Requests,  \* bound: the requests of a user process before it ends
          LastRequest, \* of each: TERMINATE, or a service that there is not
          Orderly    \* TRUE if user processes end in the order of their asids

VARIABLES
  due,     \* history: what user processes have asked to print on each device
  output   \* history: what each device has printed

vars == <<kernelVars, due, output>>

User == 0..(UPROCMAX - 1)
printer(i)  == <<"printer", i>>
terminal(i) == <<"terminal", i>>
flash(i)    == <<"flash", i>>

testPcb     == Var("testPcb")
mutexSender == Var("mutexSender")
mutexRecv   == Var("mutexRecv")
printerPcbs(i)  == At("printerPcbs", i)
terminalPcbs(i) == At("terminalPcbs", i)
sstPcbs(i)      == At("sstPcbs", i)
uproc(i)        == At("uproc", i)

Variables ==
  {testPcb, mutexSender, mutexRecv}
    \cup UNION {{printerPcbs(i), terminalPcbs(i), sstPcbs(i), uproc(i)} : i \in User}
-----------------------------------------------------------------------------
(* utils.c *)

create_process(prog, i, into) == CreateProcess([prog |-> prog, i |-> i], into)
getSupStruct     == AskSSI("GETSUPPORTPTR", NULL)
sendKillReq(who) == AskSSI("TERMPROCESS", who)
askMutex         == <<Send(mutexSender, Nothing), Receive(mutexSender)>>
DoIO(d, c)       == AskSSI("DOIO", [device |-> d, char |-> c])

\* What a program's decision leaves alone.
Quiet == Returns(heap) /\ UNCHANGED <<procs, blocks, msgs, dev, due, output>>

mutex ==
  /\ Runs("mutex")
  /\ IF running.stage = 0
     THEN Goes(1, <<Receive(NoOne)>>) /\ UNCHANGED global
     ELSE /\ global' = [global EXCEPT ![mutexRecv] = running.v0]
          /\ Decides(<<Send(Client, Nothing), Receive(Client), Receive(NoOne)>>)
  /\ Quiet

\* The string of the message is printed by one DOIO for each character.
printDevice ==
  /\ \E d \in Device : Runs(d[1]) /\ running.i = d[2] /\
       IF running.stage = 0
       THEN Goes(1, <<Receive(NoOne)>>)
       ELSE LET msg == running.word.arg
            IN  /\ msg # NULL
                /\ Decides(FlattenSeq([k \in DOMAIN msg |-> DoIO(d, msg[k])])
                             \o <<Send(Client, Nothing), Receive(NoOne)>>)
  /\ Quiet /\ UNCHANGED global
-----------------------------------------------------------------------------
(* initProc.c: test() *)

initSST == FlattenSeq([n \in 1..UPROCMAX |-> create_process("SST", n - 1, sstPcbs(n - 1))])

initPeripheralProc_OnlyPrinter(i) == create_process("printer", i, printerPcbs(i))
initPeripheralProc(i) ==
  create_process("printer", i, printerPcbs(i)) \o create_process("terminal", i, terminalPcbs(i))

test ==
  /\ Runs("test") /\ running.stage = 0
  /\ global' = [global EXCEPT ![testPcb] = current_process]
  /\ Goes(1, create_process("mutex", 0, mutexSender) \o initSST
               \o FlattenSeq([n \in 1..UPROCMAX |-> initPeripheralProc(n - 1)])
               \o <<Receive(sstPcbs(0))>>)
  /\ Quiet

\* The message of SST i has come: the SST is freed, and test() waits for the next one
\* or ends.
SSTEnded(i) ==
  LET sst == global[sstPcbs(i)]
  IN  /\ Runs("test") /\ running.stage = i + 1
      /\ Returns(freePcb(outProcQ(heap, readyQueue, sst), sst))
      /\ dead' = dead \cup {sst}
      /\ Goes(i + 2, IF i + 1 < UPROCMAX THEN <<Receive(sstPcbs(i + 1))>> ELSE sendKillReq(NoOne))
      /\ UNCHANGED <<p_parent, processCount, blocks, msgs, global, dev, due, output>>
-----------------------------------------------------------------------------
(* sst.c *)

terminate(i) ==
  <<Send(testPcb, Nothing)>> \o sendKillReq(printerPcbs(i)) \o sendKillReq(terminalPcbs(i))
    \o sendKillReq(NoOne)

Text(msg) == Word("PRINT", msg)

writePrinter_NoWait(i, msg) == <<Send(printerPcbs(i), Text(msg))>>
writePrinter(i, msg) == <<Send(printerPcbs(i), Text(msg)), Receive(printerPcbs(i))>>

writeTerminal_NoWait(i, msg) == <<Send(terminalPcbs(i), Text(msg))>>
writeTerminal(i, msg) == <<Send(terminalPcbs(i), Text(msg)), Receive(terminalPcbs(i))>>

\* TERMINATE goes on with WRITEPRINTER.
SSTRequest(i, service, arg) ==
  CASE service = "GET_TOD"       -> <<>>
    [] service = "TERMINATE"     -> terminate(i) \o writePrinter(i, arg)
    [] service = "WRITEPRINTER"  -> writePrinter(i, arg)
    [] service = "WRITETERMINAL" -> writeTerminal(i, arg)
    [] OTHER                     -> terminate(i)

SST ==
  /\ Runs("SST")
  /\ LET i == running.i
     IN  IF running.stage = 0
         THEN Goes(1, getSupStruct \o create_process("uproc", i, uproc(i)) \o <<Receive(NoOne)>>)
         ELSE Decides(SSTRequest(i, running.word.service, running.word.arg)
                        \o <<Send(Client, Nothing), Receive(NoOne)>>)
  /\ Quiet /\ UNCHANGED global
-----------------------------------------------------------------------------
(* A user process, with supExceptionHandler() and pager() on its behalf *)

supExceptionHandler(call) == getSupStruct \o <<call>>

\* The first instruction is not in memory: the page is read into a free frame.
PageFault ==
  /\ Runs("uproc") /\ running.stage = 0
  /\ Goes(1, getSupStruct \o askMutex \o DoIO(flash(running.i), "page") \o <<Send(mutexSender, Nothing)>>)
  /\ Quiet /\ UNCHANGED global

Asks(stage, service, arg) ==
  Goes(stage, supExceptionHandler(Send(PARENT, Word(service, arg)))
                \o supExceptionHandler(Receive(NoOne)))

\* The stage of a user process that has asked for its end.
Ending == Requests + 2

AskPrint(service, d) ==
  /\ running.stage <= Requests
  /\ \E msg \in Strings : Asks(running.stage + 1, service, msg) /\ due' = [due EXCEPT ![d] = @ \o msg]

\* Whether test() has collected the SSTs before that of user i.
Turn(i) == ~Orderly \/ p_s[pcbTable[2]].stage > i

\* A user that waits for its turn to end asks for the time over and over.
AskTime == ~Turn(running.i) /\ Asks(running.stage, "GET_TOD", NULL) /\ UNCHANGED due

AskEnd == Turn(running.i) /\ Asks(Ending, LastRequest[running.i], NULL) /\ UNCHANGED due

UProc ==
  /\ Runs("uproc") /\ running.stage > 0
  /\ \/ AskPrint("WRITEPRINTER", printer(running.i))
     \/ AskPrint("WRITETERMINAL", terminal(running.i))
     \/ running.stage = Requests + 1 /\ (AskTime \/ AskEnd)
  /\ Returns(heap) /\ UNCHANGED <<procs, blocks, msgs, global, dev, output>>
-----------------------------------------------------------------------------
Init ==
  /\ KernelInit(Variables)
  /\ due = [d \in Device |-> <<>>]
  /\ output = [d \in Device |-> <<>>]

Program ==
  \/ mutex \/ printDevice \/ test \/ SST \/ PageFault \/ UProc
  \/ \E i \in User : SSTEnded(i)

KernelStep == (Syscall \/ SSI) /\ UNCHANGED <<due, output>>

Interrupt(d) ==
  /\ deviceHandler(d)
  /\ output' = IF d[1] = "flash" THEN output ELSE [output EXCEPT ![d] = Append(@, dev[d])]
  /\ UNCHANGED due

CPU  == KernelStep \/ Program
Next == CPU \/ (\E d \in Device : Interrupt(d)) \/ (Stopped /\ UNCHANGED vars)

Spec == Init /\ [][Next]_vars

\* Weak fairness, with each action's guard for its ENABLED: the CPU executes the current
\* process (which can always go on, otherwise TLC finds a deadlock) and user processes go
\* on to their next request, and a device ends what it was told to do.
FairSpec ==
  /\ Spec
  /\ []<>(mode # "run") \/ []<><<CPU>>_vars
  /\ \A d \in Device : []<>~Pending(d) \/ []<><<Interrupt(d)>>_vars
-----------------------------------------------------------------------------
(* What user processes are promised *)

Status(i) ==
  LET u == {p \in Pcb : p_s[p].prog = "uproc" /\ p_s[p].i = i}
  IN  CASE \E p \in u : p_s[p].stage = Ending -> "ended"
        [] \E p \in u : p_s[p].stage \in 2..(Requests + 1) /\ p_s[p].calls # <<>> -> "waiting"
        [] OTHER -> "computing"

service == INSTANCE UserService
  WITH Device <- {printer(i) : i \in User} \cup {terminal(i) : i \in User},
       user <- [i \in User |-> Status(i)], halted <- (mode = "halt")

\* Strings come out whole, in the order of the requests and on the device of the user
\* that wrote them, a user's request is answered when its string has been printed and
\* not before, and the system halts when all users have asked for their end: through
\* the exception handler, SST, printer or terminal process, SSI, device and test()
\* (sst.c:104, utils.c:122, sysSupport.c:17, initProc.c:297).
ImplementsUserService == service!Spec

\* No process sends to a variable that test() has not set yet: user processes are
\* created before the printer and terminal processes (initProc.c:286-295).
PeripheralsReady ==
  mode = "run" /\ running.calls # <<>> /\ Head(running.calls).op = "SENDMESSAGE"
    => Resolve(Head(running.calls).who) # NULL
=============================================================================
