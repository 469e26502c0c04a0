------------------------------- MODULE Runtime -------------------------------
(***************************************************************************)
(* The green-threads runtime: the five public operations of src/runtime.c, *)
(* the task lifetime of runtime_task.c, the scheduling path of             *)
(* runtime_scheduler.c and runtime_execution.c, and what they do to the    *)
(* objects below them (heap, virtual memory, ID pool, ready queue, saved   *)
(* contexts).                                                              *)
(*                                                                         *)
(* There is one kernel thread.  What runs is identified by the stack it    *)
(* runs on, cpu; what the runtime believes runs is rt_current, current.    *)
(* A runtime function that can stop half way, or that is a loop, is a      *)
(* sequence of steps named by pc.  While pc = "user" the program is in     *)
(* code of its own and may call any operation.                             *)
(***************************************************************************)
EXTENDS Naturals, FiniteSets, SequencesExt

CONSTANTS
    Tasks,          \* heap addresses at which a struct gt_task may live
    Regions,        \* address ranges mmap may return for a stack
    Capacity,       \* GT_TASK_MAX_CAPACITY
    NULL,
    MainStack,      \* the stack of the thread that calls gt_run
    TaskMayDestroy, \* whether a task may call gt_destroy (nothing prevents it)
    ReleaseMayFail  \* whether munmap may fail

ASSUME CapacityIsPositive == Capacity \in Nat \ {0}
ASSUME DistinctAddresses == NULL \notin Tasks /\ NULL \notin Regions
                            /\ MainStack \notin Regions /\ MainStack # NULL
ASSUME FlagsAreBoolean == TaskMayDestroy \in BOOLEAN /\ ReleaseMayFail \in BOOLEAN

VARIABLES
    rtState,    \* rt_state
    rtTasks,    \* rt_tasks, front first
    rtZombies,  \* rt_zombies, front first
    readyQueue, \* rt_scheduler.ready_queue, front first
    taskIds,    \* the identifiers whose bit is set in rt_task_ids
    taskCount,  \* rt_task_count
    current,    \* rt_current
    mainCtx,    \* rt_main_context
    tState,     \* t_state of the task at each address
    tId,        \* t_id
    tStack,     \* t_stack.s_mapping, the region or NULL
    tCtx,       \* t_context
    heap,       \* addresses that hold an allocated task
    mapped,     \* regions that are mapped
    lost,       \* history: mapped regions that were to be released, in vain
    pageReady,  \* __gt_page_size_initialized
    cpu,        \* the stack the thread executes on
    pc,         \* the step of the runtime function being executed
    arg,        \* its task argument or local, NULL when it has none
    argId,      \* its local gt_task_id_t
    outcome     \* "ok", or how the process ended

lists == <<rtTasks, rtZombies, readyQueue>>
pools == <<taskIds, taskCount, heap, mapped, lost, pageReady>>
taskVars == <<tState, tId, tStack, tCtx>>
control == <<rtState, current, mainCtx, cpu, pc, arg, argId, outcome>>
vars == <<lists, pools, taskVars, control>>

Ids == 0 .. Capacity - 1
Stacks == Regions \cup {MainStack}

\* What gt_context_load would resume: the stack of the saved rsp, and where.
\* Loading leaves the registers in place but the stack moves on: "stale".
Contexts == [stack : Stacks \cup {NULL},
             at : {"cleared", "start", "yield", "run", "stale"}]
Cleared == [stack |-> NULL, at |-> "cleared"]
Loadable(c) == c.at \in {"start", "yield", "run"}
Spent(c) == [c EXCEPT !.at = "stale"]

\* The list seq without the node of t.
Unlink(seq, t) ==
    IF Contains(seq, t)
    THEN RemoveAt(seq, CHOOSE i \in DOMAIN seq : seq[i] = t)
    ELSE seq

Init ==
    /\ rtState = "UNINITIALIZED"
    /\ rtTasks = <<>> /\ rtZombies = <<>> /\ readyQueue = <<>>
    /\ taskIds = {} /\ taskCount = 0
    /\ current = NULL /\ mainCtx = Cleared
    /\ tState = [t \in Tasks |-> "NEW"]
    /\ tId = [t \in Tasks |-> 0]
    /\ tStack = [t \in Tasks |-> NULL]
    /\ tCtx = [t \in Tasks |-> Cleared]
    /\ heap = {} /\ mapped = {} /\ lost = {} /\ pageReady = FALSE
    /\ cpu = MainStack /\ pc = "user" /\ arg = NULL /\ argId = 0
    /\ outcome = "ok"

\* The process lives and the stack under it is there.
Executing == outcome = "ok" /\ cpu \in mapped \cup {MainStack}
At(p) == Executing /\ pc = p

-----------------------------------------------------------------------------
(* gt_init *)

\* sysconf fails: only the first call asks it, later ones find the page size.
InitFails ==
    /\ At("user") /\ rtState = "UNINITIALIZED" /\ ~pageReady
    /\ UNCHANGED vars

RuntimeInit ==
    /\ At("user") /\ rtState = "UNINITIALIZED"
    /\ rtTasks' = <<>> /\ rtZombies' = <<>> /\ readyQueue' = <<>>
    /\ taskIds' = {} /\ taskCount' = 0
    /\ current' = NULL /\ mainCtx' = Cleared
    /\ rtState' = "INITIALIZED" /\ pageReady' = TRUE
    /\ UNCHANGED <<taskVars, heap, mapped, lost, cpu, pc, arg, argId, outcome>>

-----------------------------------------------------------------------------
(* gt_create_task: allocate the task, its identifier, its stack; publish it. *)

CreateReturns == pc' = "user" /\ arg' = NULL /\ argId' = 0

\* gt_heap_alloc.  When calloc fails nothing has changed yet.
CreateAllocates(t) ==
    /\ At("user") /\ rtState # "UNINITIALIZED"
    /\ t \notin heap
    /\ heap' = heap \cup {t}
    /\ pc' = "create_id" /\ arg' = t
    /\ UNCHANGED <<lists, taskIds, taskCount, mapped, lost, pageReady, taskVars,
                   rtState, current, mainCtx, cpu, argId, outcome>>

\* Faulty: the identifier returned is one above the bit that was set.
CreateTakesIdOffByOne(i) ==
    /\ At("create_id")
    /\ i \in Ids \ taskIds /\ \A j \in Ids \ taskIds : i <= j
    /\ taskIds' = taskIds \cup {i} /\ argId' = i + 1
    /\ pc' = "create_stack"
    /\ UNCHANGED <<lists, taskCount, heap, mapped, lost, pageReady, taskVars,
                   rtState, current, mainCtx, cpu, arg, outcome>>

\* gt_id_pool_allocate takes the lowest identifier that is free.
CreateTakesId(i) ==
    /\ At("create_id")
    /\ i \in Ids \ taskIds /\ \A j \in Ids \ taskIds : i <= j
    /\ taskIds' = taskIds \cup {i} /\ argId' = i
    /\ pc' = "create_stack"
    /\ UNCHANGED <<lists, taskCount, heap, mapped, lost, pageReady, taskVars,
                   rtState, current, mainCtx, cpu, arg, outcome>>

\* Faulty: the record is not freed.
CreateFindsNoIdLeaks ==
    /\ At("create_id") /\ Ids \ taskIds = {}
    /\ CreateReturns
    /\ UNCHANGED <<lists, pools, taskVars, rtState, current, mainCtx, cpu, outcome>>

CreateFindsNoId ==
    /\ At("create_id") /\ Ids \ taskIds = {}
    /\ heap' = heap \ {arg}
    /\ CreateReturns
    /\ UNCHANGED <<lists, taskIds, taskCount, mapped, lost, pageReady, taskVars,
                   rtState, current, mainCtx, cpu, outcome>>

\* gt_task_init and gt_context_configure.  The page layer asserts that
\* gt_page_init ran.
CreateMapsStack(r) ==
    /\ At("create_stack") /\ r \notin mapped
    /\ mapped' = mapped \cup {r}
    /\ tState' = [tState EXCEPT ![arg] = "NEW"]
    /\ tId' = [tId EXCEPT ![arg] = argId]
    /\ tStack' = [tStack EXCEPT ![arg] = r]
    /\ tCtx' = [tCtx EXCEPT ![arg] = [stack |-> r, at |-> "start"]]
    /\ pc' = "create_publish"
    /\ outcome' = IF pageReady THEN "ok" ELSE "assert"
    /\ UNCHANGED <<lists, taskIds, taskCount, heap, lost, pageReady,
                   rtState, current, mainCtx, cpu, arg, argId>>

\* Faulty: the identifier is not given back.
CreateRollsBackKeepsId ==
    /\ heap' = heap \ {arg} /\ outcome' = outcome
    /\ CreateReturns
    /\ UNCHANGED <<lists, taskIds, taskCount, pageReady, taskVars,
                   rtState, current, mainCtx, cpu>>

\* The way out of a failed gt_task_init: the identifier goes back, then the task
\* is freed with whatever gt_task_init wrote to it.
CreateRollsBack ==
    /\ taskIds' = taskIds \ {argId}
    /\ heap' = heap \ {arg}
    /\ outcome' = IF pageReady /\ argId \in taskIds THEN "ok" ELSE "assert"
    /\ CreateReturns
    /\ UNCHANGED <<lists, taskCount, pageReady, taskVars,
                   rtState, current, mainCtx, cpu>>

\* mmap fails.
CreateReserveFails ==
    /\ At("create_stack")
    /\ UNCHANGED <<mapped, lost>>
    /\ CreateRollsBack

\* Faulty: the new mapping is not released.
CreateProtectFailsLeaks(r) ==
    /\ At("create_stack") /\ r \notin mapped
    /\ mapped' = mapped \cup {r} /\ lost' = lost
    /\ CreateRollsBack

\* gt_vm_mapping_release.  No caller looks at its status, and every caller
\* clears the record of the mapping: what munmap leaves mapped stays mapped.
Released(r) ==
    \/ mapped' = mapped \ {r} /\ lost' = lost
    \/ ReleaseMayFail /\ mapped' = mapped \cup {r} /\ lost' = lost \cup {r}

\* mprotect fails: the new mapping is released first.
CreateProtectFails(r) ==
    /\ At("create_stack") /\ r \notin mapped
    /\ Released(r)
    /\ CreateRollsBack

\* Faulty: a task is queued in front of those that wait, or not at all.
AdmittedInFront(t) == <<t>> \o readyQueue
AdmittedNever(t) == readyQueue

\* The ready queue after gt_scheduler_admit(t).  Its assertion, t_state == READY,
\* holds where it is called: the lines before have set or tested it.
Admitted(t) == Append(readyQueue, t)

CreatePublishes ==
    /\ At("create_publish")
    /\ tState' = [tState EXCEPT ![arg] = "READY"]
    /\ rtTasks' = Append(rtTasks, arg)
    /\ readyQueue' = Admitted(arg)
    /\ taskCount' = taskCount + 1
    /\ CreateReturns
    /\ UNCHANGED <<rtZombies, taskIds, heap, mapped, lost, pageReady, tId, tStack, tCtx,
                   rtState, current, mainCtx, cpu, outcome>>

-----------------------------------------------------------------------------
(* gt_run, gt_yield, the end of a task, and __gt_runtime_schedule *)

\* Faulty: the registers are not stored, what was in the context stays.
SavedNothing(at) == [stack |-> cpu, at |-> "stale"]

\* The context that gt_context_save leaves behind.
Saved(at) == [stack |-> cpu, at |-> at]

RunCall ==
    /\ At("user") /\ rtState \in {"INITIALIZED", "STOPPED"}
    /\ mainCtx' = Saved("run")
    /\ rtState' = "RUNNING"
    /\ pc' = "schedule" /\ arg' = NULL
    /\ UNCHANGED <<lists, pools, taskVars, current, cpu, argId, outcome>>

YieldCall ==
    /\ At("user") /\ current # NULL
    /\ tState' = [tState EXCEPT ![current] = "READY"]
    /\ tCtx' = [tCtx EXCEPT ![current] = Saved("yield")]
    /\ pc' = "schedule" /\ arg' = current
    /\ UNCHANGED <<lists, pools, tId, tStack, rtState, current, mainCtx, cpu,
                   argId, outcome>>

\* Faulty: the end of a task is handled like a yield.
TaskExitAsYield == cpu # MainStack /\ YieldCall

\* Faulty: a task that ends releases its stack itself.
TaskExitReleases ==
    /\ At("user") /\ cpu # MainStack /\ current # NULL
    /\ tState' = [tState EXCEPT ![current] = "ZOMBIE"]
    /\ tStack' = [tStack EXCEPT ![current] = NULL]
    /\ mapped' = mapped \ {tStack[current]}
    /\ rtTasks' = Unlink(rtTasks, current)
    /\ rtZombies' = Append(rtZombies, current)
    /\ current' = NULL
    /\ pc' = "schedule" /\ arg' = NULL
    /\ UNCHANGED <<readyQueue, taskIds, taskCount, heap, lost, pageReady, tId, tCtx,
                   rtState, mainCtx, cpu, argId, outcome>>

\* The entry function returns to the trampoline, which calls task_exit.
TaskExit ==
    /\ At("user") /\ cpu # MainStack /\ current # NULL
    /\ tState' = [tState EXCEPT ![current] = "ZOMBIE"]
    /\ rtTasks' = Unlink(rtTasks, current)
    /\ rtZombies' = Append(rtZombies, current)
    /\ current' = NULL
    /\ pc' = "schedule" /\ arg' = NULL
    /\ UNCHANGED <<readyQueue, pools, tId, tStack, tCtx, rtState, mainCtx, cpu,
                   argId, outcome>>

\* Faulty: the stack pointer is not restored.
LoadWithoutStack(c) ==
    /\ cpu' = cpu
    /\ pc' = IF c.at = "run" THEN "reap" ELSE "user"
    /\ outcome' = IF Loadable(c) THEN outcome ELSE "wild"

\* gt_context_load.  Registers that no save or configure wrote, or that were
\* loaded before, lead nowhere.
Load(c) ==
    /\ cpu' = c.stack
    /\ pc' = IF c.at = "run" THEN "reap" ELSE "user"
    /\ outcome' = IF Loadable(c) THEN outcome ELSE "wild"

\* The ready queue after a task that yielded is admitted again.
Readmitted ==
    IF arg # NULL /\ tState[arg] = "READY"
    THEN Admitted(arg) ELSE readyQueue

\* Faulty: the task that is resumed stays in the queue.
DequeuedNothing == Readmitted

\* The ready queue after gt_scheduler_next.
Dequeued == Tail(Readmitted)

ResumeMain ==
    /\ At("schedule") /\ Readmitted = <<>>
    /\ current' = NULL /\ rtState' = "STOPPED"
    /\ mainCtx' = Spent(mainCtx)
    /\ arg' = NULL
    /\ Load(mainCtx)
    /\ UNCHANGED <<lists, pools, taskVars, argId>>

ResumeTask ==
    /\ At("schedule") /\ Readmitted # <<>>
    /\ LET next == Head(Readmitted)
       IN  /\ tState' = [tState EXCEPT ![next] = "RUNNING"]
           /\ current' = next
           /\ tCtx' = [tCtx EXCEPT ![next] = Spent(tCtx[next])]
           /\ Load(tCtx[next])
    /\ readyQueue' = Dequeued
    /\ arg' = NULL
    /\ UNCHANGED <<rtTasks, rtZombies, pools, tId, tStack, rtState, mainCtx, argId>>

-----------------------------------------------------------------------------
(* gt_destroy, and the reaping of zombies at the end of gt_run *)

DestroyCall ==
    /\ At("user") /\ rtState # "UNINITIALIZED"
    /\ cpu = MainStack \/ TaskMayDestroy
    /\ pc' = "destroy_tasks"
    /\ UNCHANGED <<lists, pools, taskVars, rtState, current, mainCtx, cpu, arg,
                   argId, outcome>>

\* The list a destruction loop empties.
LoopList == IF pc = "destroy_tasks" THEN rtTasks ELSE rtZombies
InLoop == Executing /\ pc \in {"destroy_tasks", "destroy_zombies", "reap"}

\* First half of __gt_runtime_task_destroy: unlink the runtime node, keep the
\* identifier, gt_task_destroy.  The ready node is not unlinked.
DestroyUnmaps ==
    /\ InLoop /\ arg = NULL /\ LoopList # <<>>
    /\ LET t == Head(LoopList)
       IN  /\ arg' = t /\ argId' = tId[t]
           /\ Released(tStack[t])
           /\ tState' = [tState EXCEPT ![t] = "NEW"]
           /\ tId' = [tId EXCEPT ![t] = 0]
           /\ tStack' = [tStack EXCEPT ![t] = NULL]
           /\ tCtx' = [tCtx EXCEPT ![t] = Cleared]
    /\ IF pc = "destroy_tasks"
       THEN rtTasks' = Tail(rtTasks) /\ rtZombies' = rtZombies
       ELSE rtZombies' = Tail(rtZombies) /\ rtTasks' = rtTasks
    /\ UNCHANGED <<readyQueue, taskIds, taskCount, heap, pageReady, rtState,
                   current, mainCtx, cpu, pc, outcome>>

\* Faulty: the identifier is read after gt_task_destroy has cleared the record.
DestroyFreesLateId ==
    /\ InLoop /\ arg # NULL
    /\ taskIds' = taskIds \ {tId[arg]} /\ heap' = heap \ {arg}
    /\ taskCount' = IF taskCount > 0 THEN taskCount - 1 ELSE 0
    /\ outcome' = IF tId[arg] \in taskIds /\ taskCount > 0 THEN "ok" ELSE "assert"
    /\ arg' = NULL /\ argId' = 0
    /\ UNCHANGED <<lists, mapped, lost, pageReady, taskVars, rtState, current, mainCtx,
                   cpu, pc>>

\* Faulty: rt_task_count is not decremented.
DestroyFreesUncounted ==
    /\ InLoop /\ arg # NULL
    /\ taskIds' = taskIds \ {argId} /\ heap' = heap \ {arg}
    /\ arg' = NULL /\ argId' = 0
    /\ UNCHANGED <<lists, taskCount, mapped, lost, pageReady, taskVars, rtState,
                   current, mainCtx, cpu, pc, outcome>>

\* Second half: release the identifier, free the task, drop the count.
DestroyFrees ==
    /\ InLoop /\ arg # NULL
    /\ taskIds' = taskIds \ {argId}
    /\ heap' = heap \ {arg}
    /\ taskCount' = IF taskCount > 0 THEN taskCount - 1 ELSE 0
    /\ outcome' = IF argId \in taskIds /\ taskCount > 0 THEN "ok" ELSE "assert"
    /\ arg' = NULL /\ argId' = 0
    /\ UNCHANGED <<lists, mapped, lost, pageReady, taskVars, rtState, current, mainCtx,
                   cpu, pc>>

DestroyTurnsToZombies ==
    /\ At("destroy_tasks") /\ arg = NULL /\ rtTasks = <<>>
    /\ pc' = "destroy_zombies"
    /\ UNCHANGED <<lists, pools, taskVars, rtState, current, mainCtx, cpu, arg,
                   argId, outcome>>

ReapReturns ==
    /\ At("reap") /\ arg = NULL /\ rtZombies = <<>>
    /\ pc' = "user"
    /\ UNCHANGED <<lists, pools, taskVars, rtState, current, mainCtx, cpu, arg,
                   argId, outcome>>

\* gt_scheduler_destroy clears the queue, mem_clear the whole runtime.
DestroyReturns ==
    /\ At("destroy_zombies") /\ arg = NULL /\ rtZombies = <<>>
    /\ rtTasks' = <<>> /\ rtZombies' = <<>> /\ readyQueue' = <<>>
    /\ taskIds' = {} /\ taskCount' = 0
    /\ current' = NULL /\ mainCtx' = Cleared
    /\ rtState' = "UNINITIALIZED"
    /\ pc' = "user"
    /\ UNCHANGED <<heap, mapped, lost, pageReady, taskVars, cpu, arg, argId, outcome>>

-----------------------------------------------------------------------------
(* Ends of the process *)

\* An operation whose GT_ASSERT does not hold panics.  gt_task_init asserts
\* that the entry function is not NULL.
MisusePanics ==
    /\ \/ At("user") /\ rtState # "UNINITIALIZED"                    \* gt_init
       \/ At("user") /\ rtState = "UNINITIALIZED"          \* create, destroy
       \/ At("user") /\ rtState \notin {"INITIALIZED", "STOPPED"}     \* gt_run
       \/ At("user") /\ current = NULL                 \* gt_yield, task_exit
       \/ At("create_stack")                                    \* NULL entry
    /\ outcome' = "abort"
    /\ UNCHANGED <<lists, pools, taskVars, rtState, current, mainCtx, cpu, pc,
                   arg, argId>>

\* The stack under the executing function is gone.
ExecutionFaults ==
    /\ outcome = "ok" /\ cpu \notin mapped \cup {MainStack}
    /\ outcome' = "fault"
    /\ UNCHANGED <<lists, pools, taskVars, rtState, current, mainCtx, cpu, pc,
                   arg, argId>>

ProcessEnded == outcome # "ok" /\ UNCHANGED vars

-----------------------------------------------------------------------------
CreateTask ==
    \/ \E t \in Tasks : CreateAllocates(t)
    \/ (\E i \in Ids : CreateTakesId(i)) \/ CreateFindsNoId
    \/ \E r \in Regions : CreateMapsStack(r) \/ CreateProtectFails(r)
    \/ CreateReserveFails \/ CreatePublishes

Schedule == ResumeMain \/ ResumeTask
Execute == RunCall \/ YieldCall \/ TaskExit \/ Schedule

DestroyTasks ==
    \/ DestroyUnmaps \/ DestroyFrees \/ DestroyTurnsToZombies
    \/ ReapReturns \/ DestroyReturns

Next ==
    \/ InitFails \/ RuntimeInit \/ CreateTask \/ Execute
    \/ DestroyCall \/ DestroyTasks
    \/ MisusePanics \/ ExecutionFaults \/ ProcessEnded

Spec == Init /\ [][Next]_vars

\* A runtime function that has been entered goes on: it never waits.  On a stack
\* that is gone it does not go far.
RuntimeProceeds == WF_vars(CreateTask /\ pc # "user") /\ WF_vars(Schedule)
                   /\ WF_vars(DestroyTasks) /\ WF_vars(ExecutionFaults)

\* The cooperative contract: a task that comes back to its own code again and
\* again in the end yields or returns.
TasksCooperate == SF_vars(YieldCall \/ TaskExit)
FairSpec == Spec /\ RuntimeProceeds /\ TasksCooperate

\* Every task that keeps getting turns in the end returns.
TasksFinish == \A t \in Tasks : SF_vars(TaskExit /\ current = t)

-----------------------------------------------------------------------------
(* Types *)

RuntimeStates == {"UNINITIALIZED", "INITIALIZED", "RUNNING", "STOPPED"}
TaskStates == {"NEW", "READY", "RUNNING", "ZOMBIE"}
Steps == {"user", "create_id", "create_stack", "create_publish", "schedule",
          "destroy_tasks", "destroy_zombies", "reap"}

\* Every variable of the runtime holds a value of its kind.
TypeOK ==
    /\ rtState \in RuntimeStates
    /\ rtTasks \in Seq(Tasks) /\ rtZombies \in Seq(Tasks) /\ readyQueue \in Seq(Tasks)
    /\ taskIds \subseteq Ids /\ taskCount \in Nat
    /\ current \in Tasks \cup {NULL} /\ mainCtx \in Contexts
    /\ tState \in [Tasks -> TaskStates]
    /\ tId \in [Tasks -> Ids]
    /\ tStack \in [Tasks -> Regions \cup {NULL}]
    /\ tCtx \in [Tasks -> Contexts]
    /\ heap \subseteq Tasks /\ mapped \subseteq Regions /\ lost \subseteq Regions
    /\ pageReady \in BOOLEAN
    /\ cpu \in Stacks \cup {NULL}
    /\ pc \in Steps /\ arg \in Tasks \cup {NULL} /\ argId \in Ids
    /\ outcome \in {"ok", "abort", "assert", "wild", "fault"}

-----------------------------------------------------------------------------
(* Safety *)

Quiescent == At("user")
Owned == ToSet(rtTasks) \cup ToSet(rtZombies)

\* Whenever no runtime function is under way the allocated tasks are those on
\* rt_tasks and rt_zombies, each on one list once, and rt_task_count counts
\* them: what the failure paths of task_create and the loops of
\* destroy_task_list must give back (runtime_task.c).
TasksAccounted ==
    Quiescent =>
        /\ heap = Owned
        /\ IsInjective(rtTasks) /\ IsInjective(rtZombies)
        /\ ToSet(rtTasks) \cap ToSet(rtZombies) = {}
        /\ taskCount = Len(rtTasks) + Len(rtZombies)

\* An identifier is allocated exactly while one task, live or zombie, bears it:
\* no identifier leaks on a failed creation and none is shared after reuse.
IdsAccounted ==
    Quiescent =>
        /\ taskIds = {tId[t] : t \in Owned}
        /\ \A t, u \in Owned : tId[t] = tId[u] => t = u

\* Between operations a region is mapped because one task, and no other, owns it
\* as its stack, or because munmap refused to release it: whichever step of a
\* creation or of a destruction failed, the runtime itself leaks no region, and
\* never gives a task the region of another (stack.c, vm.c).
StacksAccounted ==
    Quiescent =>
        /\ mapped = {tStack[t] : t \in Owned} \cup lost
        /\ {tStack[t] : t \in Owned} \cap lost = {}
        /\ \A t, u \in Owned : tStack[t] = tStack[u] => t = u

\* The ready queue holds exactly the live tasks in state READY, each once, so
\* the running task, zombies and freed tasks are never dispatched.
ReadyQueueExact ==
    Quiescent =>
        /\ ToSet(readyQueue) = {t \in ToSet(rtTasks) : tState[t] = "READY"}
        /\ IsInjective(readyQueue)

\* The stacks on which no task of the runtime executes.
Foreign == {MainStack} \cup lost

\* rt_current names the task whose stack the thread executes on, and it is the
\* one task in state RUNNING; outside a run there is none and the runtime is not
\* RUNNING.  (A task that calls gt_destroy goes on without a record when munmap
\* did not take its stack away.)
CurrentOwnsCpu ==
    Quiescent =>
        /\ current = NULL <=> cpu \in Foreign
        /\ current # NULL => tStack[current] = cpu
        /\ rtState = "RUNNING" <=> current # NULL
        /\ \A t \in Owned : tState[t] = "RUNNING" <=> t = current

\* What the scheduler may load next is a continuation that was saved (or
\* configured) and not yet resumed, on the mapped stack of its own task; and the
\* caller of gt_run waits where it saved itself.
ContextsLoadable ==
    Executing /\ pc \in {"user", "schedule"} =>
        /\ \A t \in ToSet(readyQueue) \cup ({arg} \ {NULL}) :
              /\ tCtx[t].at \in {"start", "yield"}
              /\ tCtx[t].stack = tStack[t] /\ tStack[t] \in mapped
        /\ rtState = "RUNNING" => mainCtx.at = "run" /\ mainCtx.stack \in Foreign

\* Nothing but gt_destroy ever takes away the stack that the thread executes on:
\* not the reaping at the end of gt_run, not the rollback of a creation, and a
\* task that has ended is left before its stack goes.
StackHeld ==
    outcome = "ok" /\ pc \notin {"destroy_tasks", "destroy_zombies"} =>
        cpu \in mapped \cup {MainStack}

\* The thread executes on a stack that has not been released.
StackAlive == outcome = "ok" => cpu \in mapped \cup {MainStack}

\* No sequence of calls trips an internal assertion of the runtime (the release
\* of a free identifier, a count below zero) or loads a dead context.
NoInternalFailure == outcome \notin {"assert", "wild"}

\* gt_destroy gives back every stack: when the runtime is down nothing is mapped
\* (design/invariants.md: every allocated stack is eventually released).
NothingLeftMapped == At("user") /\ rtState = "UNINITIALIZED" => mapped = {}

\* A task changes state only as design/invariants.md ("Task State Invariants") and
\* docs/task/contract.md ("Lifecycle") draw it: it becomes READY when published or
\* yielding, RUNNING from READY only, ZOMBIE from RUNNING only, and its record is
\* cleared only for a zombie or, which they do not draw, by gt_destroy.
LifeCycleStep(t) ==
    tState'[t] # tState[t] =>
        CASE tState'[t] = "READY" -> tState[t] \in {"NEW", "RUNNING"}
          [] tState'[t] = "RUNNING" -> tState[t] = "READY"
          [] tState'[t] = "ZOMBIE" -> tState[t] = "RUNNING"
          [] tState'[t] = "NEW" -> tState[t] = "ZOMBIE" \/ pc = "destroy_tasks"
TaskLifeCycle == [][\A t \in Tasks : LifeCycleStep(t)]_vars

\* From its publication until it is unlinked to be freed a task, zombies included,
\* keeps its identifier and its stack, whatever is created, freed or reused around
\* it ("Immutable Configuration", docs/task/contract.md, of which the entry function
\* and its argument are not modelled).
ConfigurationKept ==
    [][\A t \in Owned \cap Owned' : tId'[t] = tId[t] /\ tStack'[t] = tStack[t]]_vars

\* The tasks that get the processor before t does when the queue is q.
InFront(q, t) == {q[i] : i \in {j \in DOMAIN q : \E k \in DOMAIN q : j < k /\ q[k] = t}}

\* Nobody overtakes a task that waits: it stays in the queue, behind no task that
\* it was not behind before, until it is the first and gets the processor, or
\* gt_destroy ends everything. Every dispatch brings it nearer
\* (design/invariants.md: "FIFO ordering must be preserved").
Advances(t) ==
    \/ /\ t \in ToSet(readyQueue')
       /\ InFront(readyQueue', t) \subseteq InFront(readyQueue, t)
       /\ pc = "schedule" /\ pc' # "schedule" =>
             InFront(readyQueue', t) # InFront(readyQueue, t)
    \/ InFront(readyQueue, t) = {} /\ current' = t
    \/ rtState' = "UNINITIALIZED"
NobodyOvertakes == [][\A t \in ToSet(readyQueue) : Advances(t)]_vars

\* gt_run comes back only when every task, those created during the run too,
\* has finished: what is left to release are zombies (runtime_execution.c).
RunDrains ==
    At("reap") => /\ rtTasks = <<>> /\ readyQueue = <<>>
                  /\ heap = ToSet(rtZombies) \cup ({arg} \ {NULL})

-----------------------------------------------------------------------------
(* Liveness *)

Ended == outcome # "ok"

\* During a run every READY task gets the processor: round robin starves none.
ReadyTasksRun ==
    \A t \in Tasks :
        rtState = "RUNNING" /\ tState[t] = "READY" ~> tState[t] = "RUNNING" \/ Ended

\* gt_destroy and the reaping of zombies come to their end, unless gt_destroy
\* releases the stack it runs on.
ReleaseLoopsEnd ==
    pc \in {"destroy_tasks", "reap"} ~> pc = "user" \/ outcome = "fault"

\* A run in which every task finishes comes to its end, however many tasks the
\* tasks create: zombies keep their identifiers until the run is over, so one
\* run can create at most Capacity of them.
RunEnds == TasksFinish => (rtState = "RUNNING" ~> rtState = "STOPPED" \/ Ended)

-----------------------------------------------------------------------------
(* The runtime implements the cooperative scheduler CoopSched *)

Coop == INSTANCE CoopSched WITH
    NoTask <- NULL,
    phase <- CASE rtState = "UNINITIALIZED" -> "down"
               [] rtState = "RUNNING" -> "running"
               [] OTHER -> "idle",
    waiting <- readyQueue,
    turn <- current

\* Seen through rt_state, the ready queue and rt_current, every step of the
\* runtime is a step of the cooperative scheduler or changes nothing there.
ImplementsCoopSched == Coop!CoopSafe
=============================================================================
