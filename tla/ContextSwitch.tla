---------------------------- MODULE ContextSwitch ----------------------------
(***************************************************************************)
(* Context switching word by word (platform/context/backend/x86_64), under *)
(* the three functions that use it: gt_runtime_run and gt_runtime_yield    *)
(* (runtime_execution.c) and __gt_runtime_schedule (runtime_scheduler.c).  *)
(*                                                                         *)
(* gt_context_save stores where its own return address lies, not what it   *)
(* is: the word lies below the stack pointer of the caller once save has   *)
(* returned, and the caller goes on using that memory until the context is *)
(* loaded.  What a load resumes is therefore decided by the calls in       *)
(* between, and they differ between builds.  Runtime takes it for granted  *)
(* that a load continues the function that saved; this module checks it.   *)
(*                                                                         *)
(* A stack is a sequence of words, the oldest at index Depth; a push       *)
(* writes at the next lower index.  A return address is named after the    *)
(* call it follows.  The registers a prologue pushes are one word, "regs"  *)
(* (both functions push equally many); of the callee-saved registers that  *)
(* stay in the processor it matters whose values they hold.                *)
(***************************************************************************)
EXTENDS Integers, Sequences, FiniteSets

CONSTANTS
    Tasks,
    Main,       \* the flow of the thread that calls gt_run
    NULL,
    Depth,      \* words of a stack (bound)
    MaxFrames,  \* nested calls of user code below its first function (bound)
    TailCall    \* whether the build turns gt_runtime_yield's last call into a jump

ASSUME FlowsDiffer == Main \notin Tasks /\ NULL \notin Tasks \cup {Main}
ASSUME StackHoldsCalls == MaxFrames \in Nat /\ Depth \in Nat /\ Depth >= MaxFrames + 8
ASSUME BuildKnown == TailCall \in BOOLEAN

Flows == Tasks \cup {Main}
Slots == 1 .. Depth
ReturnAddresses == {"user", "trampoline", "context_start.called", "gt_context_start",
                    "run.saved", "run.scheduled", "yield.saved", "yield.scheduled",
                    "exit.called", "exit.scheduled", "schedule.loaded"}
Words == ReturnAddresses \cup {"zero", "regs", "entry"} \cup Tasks

VARIABLES
    mem,        \* the words of each flow's stack
    cpu,        \* the flow whose stack rsp points into
    rsp,        \* the index of the last word pushed there
    at,         \* the code that executes next
    rax, rdi,   \* a return value, an argument
    callee,     \* whose values are in the callee-saved registers that no prologue pushes
    saved,      \* the rsp field of each flow's struct gt_context
    kept,       \* the fields for those registers
    ready,      \* the ready queue
    live,       \* tasks created and not yet reaped
    frames      \* nested calls that the user code of each flow is in

registers == <<callee, kept>>
vars == <<mem, cpu, rsp, at, rax, rdi, registers, saved, ready, live, frames>>

Zeroed == [i \in Slots |-> "zero"]

\* The stack after pushing words, the first one first, below index top.
Pushed(stack, top, words) ==
    [i \in Slots |-> IF top - i \in 1 .. Len(words) THEN words[top - i] ELSE stack[i]]

\* push, or call, on the executing stack.
Push(words) == mem' = [mem EXCEPT ![cpu] = Pushed(@, rsp, words)]
               /\ rsp' = rsp - Len(words)

\* ret, with rsp at index top.
Ret(top) == at' = mem[cpu][top] /\ rsp' = top + 1

Init ==
    /\ mem = [f \in Flows |-> Zeroed]
    /\ cpu = Main /\ rsp = Depth + 1 /\ at = "user"
    /\ rax = 0 /\ rdi = NULL
    /\ callee = Main /\ kept = [f \in Flows |-> NULL]
    /\ saved = [f \in Flows |-> 0]
    /\ ready = <<>> /\ live = {}
    /\ frames = [f \in Flows |-> 0]

-----------------------------------------------------------------------------
(* User code, on the main stack or in a task *)

\* What __gt_context_build_initial_frame pushes for task t.
InitialFrame(t) == <<t, "entry", "gt_context_start">>

\* gt_context_init and gt_context_configure on a stack just mapped.
ConfigureTask(t) ==
    /\ at = "user" /\ t \notin live
    /\ mem' = [mem EXCEPT ![t] = Pushed(Zeroed, Depth + 1, InitialFrame(t))]
    /\ saved' = [saved EXCEPT ![t] = Depth - 2]
    /\ kept' = [kept EXCEPT ![t] = NULL]
    /\ live' = live \cup {t} /\ ready' = Append(ready, t)
    /\ UNCHANGED <<cpu, rsp, at, rax, rdi, callee, frames>>

UserCalls ==
    /\ at = "user" /\ frames[cpu] < MaxFrames
    /\ Push(<<"user">>)
    /\ frames' = [frames EXCEPT ![cpu] = @ + 1]
    /\ UNCHANGED <<cpu, at, rax, rdi, registers, saved, ready, live>>

\* The first function of a task returns to the trampoline.
UserReturns ==
    /\ at = "user" /\ (frames[cpu] > 0 \/ cpu # Main)
    /\ Ret(rsp)
    /\ frames' = [frames EXCEPT ![cpu] = IF @ > 0 THEN @ - 1 ELSE 0]
    /\ UNCHANGED <<mem, cpu, rax, rdi, registers, saved, ready, live>>

-----------------------------------------------------------------------------
(* gt_runtime_run and gt_runtime_yield *)

\* Call, prologue, and the call of gt_context_save.
CallRun ==
    /\ at = "user" /\ cpu = Main
    /\ Push(<<"user", "regs", "run.saved">>)
    /\ at' = "save"
    /\ UNCHANGED <<cpu, rax, rdi, registers, saved, ready, live, frames>>

CallYield ==
    /\ at = "user" /\ cpu # Main
    /\ Push(<<"user", "regs", "yield.saved">>)
    /\ at' = "save"
    /\ UNCHANGED <<cpu, rax, rdi, registers, saved, ready, live, frames>>

\* Faulty: the stack pointer is stored as it will be after the return.
SaveAfterReturn ==
    /\ at = "save"
    /\ saved' = [saved EXCEPT ![cpu] = rsp + 1]
    /\ kept' = [kept EXCEPT ![cpu] = callee]
    /\ rax' = 0
    /\ Ret(rsp)
    /\ UNCHANGED <<mem, cpu, rdi, callee, ready, live, frames>>

\* __gt_context_save_asm
Save ==
    /\ at = "save"
    /\ saved' = [saved EXCEPT ![cpu] = rsp]
    /\ kept' = [kept EXCEPT ![cpu] = callee]
    /\ rax' = 0
    /\ Ret(rsp)
    /\ UNCHANGED <<mem, cpu, rdi, callee, ready, live, frames>>

\* Faulty: gt_runtime_yield jumps to the scheduler although control comes back.
SaveReturnsZeroJumps ==
    /\ at \in {"run.saved", "yield.saved"} /\ rax = 0
    /\ rdi' = IF cpu = Main THEN NULL ELSE cpu
    /\ at' = "schedule"
    /\ IF at = "yield.saved"
       THEN rsp' = rsp + 1 /\ UNCHANGED mem
       ELSE Push(<<"run.scheduled">>)
    /\ UNCHANGED <<cpu, rax, registers, saved, ready, live, frames>>

\* The branch taken when gt_context_save returns 0.  A tail call takes the
\* frame of gt_runtime_yield down first and leaves the scheduler in its place;
\* in gt_runtime_run the call is never the last one.
SaveReturnsZero ==
    /\ at \in {"run.saved", "yield.saved"} /\ rax = 0
    /\ rdi' = IF cpu = Main THEN NULL ELSE cpu
    /\ at' = "schedule"
    /\ IF TailCall /\ at = "yield.saved"
       THEN rsp' = rsp + 1 /\ UNCHANGED mem
       ELSE Push(<<IF at = "run.saved" THEN "run.scheduled" ELSE "yield.scheduled">>)
    /\ UNCHANGED <<cpu, rax, registers, saved, ready, live, frames>>

\* Faulty: the frame stays on the stack.
YieldReturnsKeepsFrame ==
    /\ at = "yield.scheduled" \/ (at = "yield.saved" /\ rax # 0)
    /\ at' = mem[cpu][rsp + 1] /\ rsp' = rsp
    /\ UNCHANGED <<mem, cpu, rax, rdi, registers, saved, ready, live, frames>>

\* The end of gt_runtime_yield, reached from the other branch of the test or
\* from the instruction after the call of the scheduler.
YieldReturns ==
    /\ at = "yield.scheduled" \/ (at = "yield.saved" /\ rax # 0)
    /\ Ret(rsp + 1)
    /\ UNCHANGED <<mem, cpu, rax, rdi, registers, saved, ready, live, frames>>

\* The end of gt_runtime_run, which reaps: every task has ended, their stacks
\* are unmapped and their contexts cleared.
RunReturns ==
    /\ at = "run.scheduled" \/ (at = "run.saved" /\ rax # 0)
    /\ Ret(rsp + 1)
    /\ live' = {}
    /\ mem' = [f \in Flows |-> IF f = Main THEN mem[f] ELSE Zeroed]
    /\ saved' = [f \in Flows |-> IF f = Main THEN saved[f] ELSE 0]
    /\ kept' = [f \in Flows |-> IF f = Main THEN kept[f] ELSE NULL]
    /\ UNCHANGED <<cpu, rax, rdi, callee, ready, frames>>

-----------------------------------------------------------------------------
(* The scheduler and gt_context_load *)

\* What __gt_runtime_schedule pushes before control leaves it: its registers and
\* the return address of the call of __gt_context_load_asm.
ScheduleFrame == <<"regs", "schedule.loaded">>

\* Faulty: only the stack pointer is restored.
LoadRspOnly(f) ==
    /\ cpu' = f
    /\ rsp' = saved[f] + 1 /\ at' = mem'[f][saved[f]]
    /\ rax' = 1 /\ callee' = callee

\* __gt_context_load_asm, on the memory that its call leaves behind.
Load(f) ==
    /\ cpu' = f
    /\ rsp' = saved[f] + 1 /\ at' = mem'[f][saved[f]]
    /\ rax' = 1 /\ callee' = kept[f]

\* __gt_runtime_schedule: admit the task it got, take the next one, load it.
Schedule ==
    /\ at = "schedule"
    /\ LET queue == IF rdi = NULL THEN ready ELSE Append(ready, rdi)
       IN  /\ ready' = IF queue = <<>> THEN <<>> ELSE Tail(queue)
           /\ mem' = [mem EXCEPT ![cpu] = Pushed(@, rsp, ScheduleFrame)]
           /\ Load(IF queue = <<>> THEN Main ELSE Head(queue))
    /\ UNCHANGED <<rdi, kept, saved, live, frames>>

\* Faulty: the argument is read but not popped.
ContextStartKeepsArgument ==
    /\ at = "gt_context_start" /\ mem[cpu][rsp] = "entry"
    /\ rdi' = mem[cpu][rsp + 1]
    /\ mem' = [mem EXCEPT ![cpu] =
                  Pushed(@, rsp + 1, <<"context_start.called", "regs", "trampoline">>)]
    /\ rsp' = rsp - 2
    /\ at' = "user" /\ callee' = cpu
    /\ UNCHANGED <<cpu, rax, kept, saved, ready, live, frames>>

\* gt_context_start pops the function and its argument and calls it; the
\* function is the trampoline, which calls the user's entry function.  What
\* that puts into the callee-saved registers is the task's.
ContextStart ==
    /\ at = "gt_context_start" /\ mem[cpu][rsp] = "entry"
    /\ rdi' = mem[cpu][rsp + 1]
    /\ mem' = [mem EXCEPT ![cpu] =
                  Pushed(@, rsp + 2, <<"context_start.called", "regs", "trampoline">>)]
    /\ rsp' = rsp - 1
    /\ at' = "user" /\ callee' = cpu
    /\ UNCHANGED <<cpu, rax, kept, saved, ready, live, frames>>

\* The trampoline calls __gt_runtime_task_exit, which calls the scheduler and
\* gives it no task to admit.  Neither call is meant to return.
TaskExit ==
    /\ at = "trampoline"
    /\ Push(<<"exit.called", "regs", "exit.scheduled">>)
    /\ rdi' = NULL /\ at' = "schedule"
    /\ UNCHANGED <<cpu, rax, registers, saved, ready, live, frames>>

Next ==
    \/ \E t \in Tasks : ConfigureTask(t)
    \/ UserCalls \/ UserReturns \/ CallRun \/ CallYield
    \/ Save \/ SaveReturnsZero \/ YieldReturns \/ RunReturns
    \/ Schedule \/ ContextStart \/ TaskExit

Spec == Init /\ [][Next]_vars

-----------------------------------------------------------------------------
\* Registers and memory hold words, the stack pointer stays in the stack.
TypeOK ==
    /\ mem \in [Flows -> [Slots -> Words]]
    /\ cpu \in Flows /\ rsp \in 1 .. Depth + 1
    /\ at \in Words \cup {"save", "schedule"}
    /\ rax \in {0, 1} /\ rdi \in Words \cup {NULL}
    /\ callee \in Flows \cup {NULL} /\ kept \in [Flows -> Flows \cup {NULL}]
    /\ saved \in [Flows -> 0 .. Depth + 1]
    /\ ready \in Seq(Tasks) /\ live \subseteq Tasks
    /\ frames \in [Flows -> 0 .. MaxFrames]

\* The first word of the stack that user code of flow f uses.
Base(f) == IF f = Main THEN Depth + 1 ELSE Depth - 2

\* gt_yield and gt_run return to user code with its stack as it was at the call:
\* only return addresses of its own calls lie on it, and rsp is at the last.
StackBalanced ==
    at = "user" =>
        /\ rsp = Base(cpu) - frames[cpu]
        /\ \A i \in rsp .. Base(cpu) - 1 : mem[cpu][i] = "user"
        /\ cpu # Main => mem[cpu][Base(cpu)] = "trampoline"

\* The flow that the word at saved[f] leads back to.
Continues(f) == mem[f][saved[f]]

\* While a flow waits, its saved stack pointer finds a return address into the
\* function that saved it, and the frame of that function lies intact above,
\* whatever has been called on that stack after the save.
WaitingIntact ==
    /\ cpu # Main => /\ Continues(Main) = "run.scheduled"
                     /\ mem[Main][saved[Main] + 1] = "regs"
                     /\ mem[Main][saved[Main] + 2] = "user"
                     /\ saved[Main] + 3 = Base(Main) - frames[Main]
    /\ \A t \in Tasks :
           (\E i \in DOMAIN ready : ready[i] = t) =>
               \/ Continues(t) = "gt_context_start" /\ saved[t] = Depth - 2
               \/ /\ Continues(t) \in {"yield.saved", "yield.scheduled"}
                  /\ mem[t][saved[t] + 1] = "regs" /\ mem[t][saved[t] + 2] = "user"
                  /\ saved[t] + 3 = Base(t) - frames[t]

\* gt_yield and gt_run give the callee-saved registers back to the caller with
\* its own values in them, whatever has run in between (System V calling
\* convention, switch.S).
RegistersKept == at = "user" => callee = cpu

\* At GT_UNREACHABLE after gt_context_load or after a call of task_exit, at the ud2
\* after the trampoline, or at a word that is no code: nothing is known of the program any more, and no
\* action says what it does.
Lost == at \notin {"user", "save", "schedule", "trampoline", "gt_context_start",
                   "run.saved", "run.scheduled", "yield.saved", "yield.scheduled"}

\* gt_context_load never returns to the scheduler that called it, and no task
\* comes back to gt_context_start (the GT_UNREACHABLE of runtime_scheduler.c).
LoadNeverReturns == ~Lost
=============================================================================
