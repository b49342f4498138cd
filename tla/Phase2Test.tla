------------------------------ MODULE Phase2Test ------------------------------
(***************************************************************************)
(* The test of the nucleus (p2test.c) as programs over Kernel, each with   *)
(* its own checks: sends to oneself and to the dead, inquiries, clock      *)
(* waits, traps with and without a handler, a tree of processes that is    *)
(* killed from its root, all of them printing through one process.  A      *)
(* string is one character; CPU times are left out.                        *)
(***************************************************************************)
EXTENDS Kernel

CONSTANTS
  Waits,   \* how often a process that waits for several ticks waits
  Prompt   \* TRUE if interrupts come at any time, FALSE if they find the CPU idle: the
           \* terminal and the clock are slower than what there is to do between them

vars == kernelVars

test_pcb  == Var("test_pcb")
print_pcb == Var("print_pcb")
p2_pcb == Var("p2_pcb")
p3_pcb == Var("p3_pcb")
p4_pcb_v1 == Var("p4_pcb_v1")
p4_pcb_v2 == Var("p4_pcb_v2")
p5_pcb == Var("p5_pcb")
p6_pcb == Var("p6_pcb")
p7_pcb == Var("p7_pcb")
p8_pcb == Var("p8_pcb")
p8root_pcb == Var("p8root_pcb")
child_pcb(i)  == At("child_pcb", i)
gchild_pcb(i) == At("gchild_pcb", i)
p9_pcb  == Var("p9_pcb")
p10_pcb == Var("p10_pcb")
p1p2sync == Var("p1p2sync")
p4inc    == Var("p4inc")

Variables ==
  {test_pcb, print_pcb, p2_pcb, p3_pcb, p4_pcb_v1, p4_pcb_v2, p5_pcb, p6_pcb, p7_pcb, p8_pcb,
   p8root_pcb, p9_pcb, p10_pcb, p1p2sync, p4inc}
    \cup {child_pcb(i) : i \in 1..2} \cup {gchild_pcb(i) : i \in 1..4}
-----------------------------------------------------------------------------
(* What a process does between its calls. *)

\* A global variable is set to the process itself.
Set(v) == Call("SET", v, Nothing, NoOne)

\* A check that prints ERROR or calls PANIC() if it fails, of the result of the last
\* call, of the PCB (or its pid) or the status in the last message, or of the test's
\* children.  p_pid counts allocations: as long as nobody has been freed, pid 4 is the
\* fourth PCB of the table.
Expect(what, v)  == Call("EXPECT", v, Word(what, NULL), NoOne)
ExpectSender(v)  == Expect("SENDER", v)
ExpectDead       == Expect("DEAD", NoOne)
ExpectPid(v)     == Expect("PID", v)
ExpectSet(v)     == Expect("SET", v)
ExpectFourth(v)  == Expect("FOURTH", v)
ExpectRECVD      == Expect("STATUS", NoOne)
ExpectOneChild   == Expect("ONECHILD", NoOne)
PANIC            == Expect("NEVER", NoOne)

Repeated(calls) == FlattenSeq([n \in 1..Waits |-> calls])

print_term0 == <<Send(print_pcb, Word("PRINT", NULL)), Receive(print_pcb)>>
clockwait_process == AskSSI("CLOCKWAIT", NULL)
terminate_process(who) == AskSSI("TERMPROCESS", who)
SELF == NoOne
create_process(prog, i, into) == CreateProcess([prog |-> prog, i |-> i], into)
GetProcessId(arg) == AskSSI("GETPROCESSID", arg)
Wait(who)   == <<Receive(who)>>
Notify(who) == <<Send(who, Nothing)>>

\* TERMPROCESS of oneself does not return.
Ends == terminate_process(SELF) \o print_term0 \o <<PANIC>>
-----------------------------------------------------------------------------
(* The programs: each is a sequence of parts. *)

Reach(v) == <<Send(v, Nothing), ExpectDead>>

p8check ==
  create_process("p8root", 0, p8root_pcb) \o Notify(p8root_pcb) \o Wait(p8root_pcb)
    \o Repeated(clockwait_process)
    \o Reach(child_pcb(1)) \o Reach(child_pcb(2))
    \o Reach(gchild_pcb(1)) \o Reach(gchild_pcb(2)) \o Reach(gchild_pcb(3)) \o Reach(gchild_pcb(4))

greets ==
  <<Set(test_pcb), Send(test_pcb, Nothing), Receive(NoOne), ExpectSender(test_pcb)>>
    \o create_process("print", 0, print_pcb) \o print_term0

runs_p2 ==
  create_process("p2", 0, p2_pcb) \o <<ExpectFourth(p2_pcb)>> \o Notify(p2_pcb) \o Wait(p2_pcb)
    \o <<ExpectSet(p1p2sync)>> \o print_term0

runs_p3 == create_process("p3", 0, p3_pcb) \o Notify(p3_pcb) \o Wait(p3_pcb) \o print_term0

starts_hp == create_process("hp_p1", 0, NoOne) \o create_process("hp_p2", 0, NoOne)

runs_p4 ==
  create_process("p4", 0, p4_pcb_v1) \o Wait(p4_pcb_v1) \o print_term0
    \o Reach(p4_pcb_v2) \o print_term0

starts_p5 == create_process("p5", 0, p5_pcb) \o Notify(p5_pcb)

starts_p6_p7 ==
  create_process("p6", 0, p6_pcb) \o Notify(p6_pcb)
    \o create_process("p7", 0, p7_pcb) \o Notify(p7_pcb)

runs_p8 == create_process("p8", 0, p8_pcb) \o Notify(p8_pcb) \o Wait(p8_pcb) \o print_term0

ends_p9 ==
  create_process("p9", 0, p9_pcb) \o Notify(p9_pcb) \o Wait(p9_pcb) \o Wait(p10_pcb)
    \o terminate_process(p9_pcb) \o <<ExpectOneChild>> \o print_term0

test ==
  <<greets, runs_p2, runs_p3, starts_hp, runs_p4, starts_p5, starts_p6_p7, runs_p8,
    p8check, p8check, ends_p9, Ends>>

p2 ==
  << Wait(test_pcb) \o print_term0 \o GetProcessId(NULL) \o <<ExpectPid(p2_pcb)>> \o print_term0,
     AskSSI("GETTIME", NULL) \o AskSSI("GETTIME", NULL) \o print_term0 \o <<Set(p1p2sync)>>,
     Notify(test_pcb) \o Ends >>

p3 ==
  << Wait(test_pcb) \o print_term0 \o clockwait_process \o print_term0,
     AskSSI("GETTIME", NULL) \o Repeated(clockwait_process) \o AskSSI("GETTIME", NULL) \o print_term0,
     GetProcessId(NULL) \o <<ExpectPid(p3_pcb)>> \o Notify(test_pcb) \o Ends >>

p4_first ==
  print_term0 \o <<Set(p4inc)>> \o create_process("p4", 0, p4_pcb_v2)
    \o Notify(p4_pcb_v2) \o Wait(p4_pcb_v2) \o print_term0 \o Notify(test_pcb) \o Ends
p4_second ==
  Wait(p4_pcb_v1) \o print_term0 \o Notify(p4_pcb_v1) \o <<Receive(NoOne), PANIC>>
p4 == << IF global[p4inc] = NULL THEN p4_first ELSE p4_second >>

\* The bus error, the TLB exception, the system call in user mode and that in kernel
\* mode are passed up to p5's own handlers, which go on with its next part.
p5gen == print_term0
p5a   == print_term0
p5mm  == print_term0 \o AskSSI("GETSUPPORTPTR", NULL) \o <<ExpectPid(p5_pcb)>> \o print_term0
p5sys == print_term0 \o print_term0
p5b   == print_term0 \o Ends
p5    == << Wait(test_pcb) \o print_term0, p5gen, p5a, p5mm, p5gen, p5sys, p5b >>

\* Nobody handles the system call of p6 and the trap of p7.
p6 == << Wait(test_pcb) \o print_term0 \o <<Die>> \o print_term0 \o <<PANIC>> >>
p7 == << Wait(test_pcb) \o print_term0 \o <<Die>> \o print_term0 \o <<PANIC>> >>

p8 ==
  << Wait(NoOne) \o print_term0 \o Notify(p8_pcb) \o <<Receive(NoOne), ExpectSender(p8_pcb)>>
       \o print_term0,
     Notify(test_pcb) \o Ends >>

p8root ==
  << Wait(test_pcb) \o print_term0 \o create_process("child", 1, child_pcb(1))
       \o create_process("child", 2, child_pcb(2)),
     Wait(NoOne) \o Wait(NoOne) \o Wait(NoOne) \o Wait(NoOne) \o Notify(test_pcb) \o Ends >>

child(i) ==
  << print_term0 \o GetProcessId(1) \o <<ExpectPid(p8root_pcb)>>
       \o create_process("p8leaf", 2 * i - 1, gchild_pcb(2 * i - 1))
       \o create_process("p8leaf", 2 * i, gchild_pcb(2 * i)) \o Wait(NoOne) >>

p8leaf == << print_term0 \o Notify(p8root_pcb) \o Wait(NoOne) >>

p9 ==
  << Wait(NoOne) \o print_term0 \o create_process("p10", 0, p10_pcb) \o Notify(test_pcb)
       \o Wait(NoOne) >>

p10 ==
  << print_term0 \o GetProcessId(1) \o <<ExpectPid(p9_pcb)>> \o print_term0,
     Notify(test_pcb) \o Ends >>

hp_p1 == << print_term0 \o Ends >>
hp_p2 == << print_term0 \o Repeated(clockwait_process) \o Ends >>

Parts(prog, i) ==
  CASE prog = "test" -> test
    [] prog = "p2" -> p2 [] prog = "p3" -> p3 [] prog = "p4" -> p4 [] prog = "p5" -> p5
    [] prog = "p6" -> p6 [] prog = "p7" -> p7 [] prog = "p8" -> p8
    [] prog = "p8root" -> p8root [] prog = "child" -> child(i) [] prog = "p8leaf" -> p8leaf
    [] prog = "p9" -> p9 [] prog = "p10" -> p10
    [] prog = "hp_p1" -> hp_p1 [] prog = "hp_p2" -> hp_p2
-----------------------------------------------------------------------------
Quiet == heap' = heap /\ UNCHANGED <<current_process, procs, blocks, msgs, dev>>

GoesOn ==
  /\ mode = "run" /\ running.prog \notin {"SSI", "print"} /\ Runs(running.prog)
  /\ Goes(running.stage + 1, Parts(running.prog, running.i)[running.stage + 1])
  /\ Quiet /\ UNCHANGED <<global, mode>>

PRINTCHR == AskSSI("DOIO", [device |-> "term0", char |-> "c"])

\* The caller of print_term0() is never told that its string is out.
print_Forgets ==
  /\ Runs("print")
  /\ IF running.stage = 0
     THEN Goes(1, <<Receive(NoOne)>>)
     ELSE Decides(PRINTCHR \o <<ExpectRECVD, Receive(NoOne)>>)
  /\ Quiet /\ UNCHANGED <<global, mode>>

print ==
  /\ Runs("print")
  /\ IF running.stage = 0
     THEN Goes(1, <<Receive(NoOne)>>)
     ELSE Decides(PRINTCHR \o <<ExpectRECVD, Send(Client, Nothing), Receive(NoOne)>>)
  /\ Quiet /\ UNCHANGED <<global, mode>>

Holds(c) ==
  CASE c.what.service = "SENDER"   -> running.v0 = Resolve(c.who)
    [] c.what.service = "DEAD"     -> running.v0 = "DEST_NOT_EXIST"
    [] c.what.service = "PID"      -> running.word.arg = Resolve(c.who)
    [] c.what.service = "FOURTH"   -> Resolve(c.who) = pcbTable[4]
    [] c.what.service = "STATUS"   -> running.word.arg = "SUCCESS"
    [] c.what.service = "SET"      -> Resolve(c.who) # NULL
    [] c.what.service = "ONECHILD" -> Len(Walk(heap.next, p_child(current_process))) <= 1
    [] c.what.service = "NEVER"    -> FALSE

Local ==
  /\ mode = "run" /\ running.calls # <<>>
  /\ LET c == Head(running.calls)
     IN  \/ /\ c.op = "SET"
            /\ global' = [global EXCEPT ![c.who] = current_process] /\ UNCHANGED mode
         \/ /\ c.op = "EXPECT"
            /\ mode' = IF Holds(c) THEN mode ELSE "panic"
            /\ UNCHANGED global
  /\ p_s' = [p_s EXCEPT ![current_process].calls = Tail(@)]
  /\ Quiet
-----------------------------------------------------------------------------
Interruptible == Prompt \/ mode = "wait"

Terminal(d) == Interruptible /\ deviceHandler(d)
Clock       == Interruptible /\ intervalTimerHandler

Init == KernelInit(Variables)
CPU  == Syscall \/ SSI \/ GoesOn \/ print \/ Local
Next == CPU \/ Clock \/ (\E d \in Device : Terminal(d)) \/ Stopped

Spec == Init /\ [][Next]_vars

\* Weak fairness, with each action's guard for its ENABLED: the CPU executes the current
\* process (which can always go on, otherwise TLC finds a deadlock), the clock ticks and
\* the terminal ends what it was told to do.
FairSpec ==
  /\ Spec
  /\ []<>(mode # "run") \/ []<><<CPU>>_vars
  /\ []<>~(Interruptible /\ Ticks) \/ []<><<Clock>>_vars
  /\ \A d \in Device : []<>~(Interruptible /\ Pending(d)) \/ []<><<Terminal(d)>>_vars

\* No check of the test fails and no PANIC() is reached, the scheduler's included: each
\* sender and pid is right, the dead are dead and nobody survives its own end
\* (p2test.c:184-435).
TestPasses == mode \notin {"panic", "broken"}

\* The descriptors that the test loses, with every answer to a process that has ended and
\* every message that reaches nobody, never empty the pool (exceptions.c:15-28).
PoolLasts == msgFree > 0

\* Every queue of PCBs but the device's is the same list read backwards: no insertion or
\* removal of a PCB was made through the link of a list it had left (ssi.c:137-145,
\* interrupts.c:32-50, 137-185).  blockedDiskQueue is not: a string sent to the print
\* process while it waits for the terminal links it into the ready queue as well, and what
\* its link was part of before is left as it was (exceptions.c:29-30).
OtherQueuesWhole ==
  \A q \in {readyQueue, pseudoClockQueue, pcbFree_h} :
    Walk(heap.next, q) = Reverse(Walk(heap.prev, q))

\* Though the device's queue is so damaged, the interrupt finds the print process on it,
\* which is runnable afterwards, and with it whoever was before: unlinking it through the
\* links of another queue loses nobody (interrupts.c:159-182, pcb.c:282-297).
Runnable == Range(Owners(Walk(heap.next, readyQueue))) \cup {current_process}
TerminalWakesPrint ==
  [][\A d \in Device : dev[d] # Idle /\ dev'[d] = Idle =>
       Runnable' \cup {NULL} = Runnable \cup {global[print_pcb], NULL}]_vars

\* The whole test ends in HALT, which the SSI alone is left to see (scheduler.c:13).
TestEnds == <>(mode = "halt")
=============================================================================
