---------------------------- MODULE RuntimeProofs -----------------------------
(***************************************************************************)
(* The theorems about Runtime and about the calls of RuntimeCalls, for any *)
(* addresses, any capacity and whatever the environment does: munmap may   *)
(* fail, and a task may call gt_destroy.  Then: nobody who waits is        *)
(* overtaken; the runtime implements the cooperative scheduler CoopSched   *)
(* unless both happen at once; the pool is exhausted exactly when Capacity *)
(* tasks exist; and a creation that fails leaves nothing behind.           *)
(***************************************************************************)
EXTENDS RuntimeInduction, RuntimeCalls, FiniteSetTheorems

USE CapacityIsPositive, DistinctAddresses, FlagsAreBoolean

LEMMA InitInv == Init => Inv
  <1> SUFFICES ASSUME Init PROVE Inv
    OBVIOUS
  <1>1. <<>> \in Seq(Tasks) /\ ToSet(<<>>) = {} /\ IsInjective(<<>>) /\ Len(<<>>) = 0
    BY EmptySeq DEF ToSet, IsInjective
  <1>2. TypeOK
    <2>1. Cleared \in Contexts /\ 0 \in Ids
      BY DEF Contexts, Cleared, Ids
    <2>2. /\ [t \in Tasks |-> "NEW"] \in [Tasks -> TaskStates]
          /\ [t \in Tasks |-> 0] \in [Tasks -> Ids]
          /\ [t \in Tasks |-> NULL] \in [Tasks -> Regions \cup {NULL}]
          /\ [t \in Tasks |-> Cleared] \in [Tasks -> Contexts]
      BY <2>1 DEF TaskStates
    <2>. QED BY <1>1, <2>1, <2>2 DEF Init, TypeOK, Stacks, RuntimeStates, Steps
  <1>3. AccountInv
    BY <1>1 DEF Init, AccountInv, ArgInv, StateInv, ListsInv, CountInv, IdsInv,
       ReadyInv, Owned, TasksInFlight, IdsInFlight, IdInFlight, Creating, Looping, Destroying
  <1>4. ExecutionInv
    BY <1>1 DEF Init, ExecutionInv, StacksInv, TaskStatesInv, CpuInv, ContextsInv,
       StackOwners, Owned, Foreign, Waiting, Destroying
  <1>. QED BY <1>2, <1>3, <1>4 DEF Inv, NoInternalFailure, Init

-----------------------------------------------------------------------------
\* What a step outside the account of the invariant leaves alone.
LEMMA StutterStep ==
    ASSUME Inv, UNCHANGED vars PROVE Inv'
  <1> USE DEF vars, lists, pools, taskVars, control
  <1>1. TypeOK' /\ NoInternalFailure' /\ (outcome' = "ok" => outcome = "ok")
    BY DEF Inv, TypeOK, NoInternalFailure
  <1>2. AccountInv => AccountInv'
    BY DEF AccountInv, ArgInv, StateInv, ListsInv, CountInv, IdsInv, ReadyInv, Owned,
       TasksInFlight, IdsInFlight, IdInFlight, Creating, Looping, Destroying
  <1>3. ExecutionInv => ExecutionInv'
    BY DEF ExecutionInv, StacksInv, TaskStatesInv, CpuInv, ContextsInv, StackOwners,
       Owned, Foreign, Waiting, Destroying
  <1>. QED BY <1>1, <1>2, <1>3 DEF Inv

\* No assertion fails and no dead context is loaded: the identifier that is
\* released is allocated, the count is positive, the page size is known, and what
\* the scheduler finds in the queue has been saved.
LEMMA NoFailureStep ==
    ASSUME TypeOK, AccountInv, ExecutionInv, outcome = "ok",
           CreateTask \/ Execute \/ DestroyTasks
    PROVE  outcome' = "ok"
  <1>0. /\ ArgInv /\ StateInv /\ ListsInv /\ CountInv /\ IdsInv /\ ReadyInv
        /\ ContextsInv
    BY DEF AccountInv, ExecutionInv
  <1>1. CASE CreateTask
    <2>1. ASSUME pc = "create_stack" PROVE pageReady /\ argId \in taskIds
      BY <1>0, <2>1 DEF StateInv, IdsInv, IdsInFlight, IdInFlight
    <2>. QED BY <1>1, <2>1 DEF CreateTask, CreateAllocates, CreateTakesId,
            CreateFindsNoId, CreateMapsStack, CreateReserveFails, CreateProtectFails,
            CreateRollsBack, CreatePublishes, At, Executing
  <1>2. CASE RunCall \/ YieldCall \/ TaskExit
    BY <1>2 DEF RunCall, YieldCall, TaskExit
  <1>3. CASE ResumeMain
    <2>1. pc = "schedule"
      BY <1>3 DEF ResumeMain, At, Executing
    <2>2. Loadable(mainCtx)
      BY <1>0, <2>1 DEF StateInv, ContextsInv, Loadable
    <2>. QED BY <1>3, <2>2 DEF ResumeMain, Load
  <1>4. CASE ResumeTask
    <2>1. pc = "schedule" /\ Readmitted # <<>>
      BY <1>4 DEF ResumeTask, At, Executing
    <2>2. Readmitted \in Seq(Tasks) /\ ToSet(Readmitted) \subseteq Waiting
      <3>1. CASE arg # NULL
        <4>1. Readmitted = Append(readyQueue, arg) /\ arg \in Tasks
          BY <1>0, <2>1, <3>1 DEF Readmitted, Admitted, ArgInv, TypeOK
        <4>. QED BY <2>1, <3>1, <4>1, AppendFacts DEF TypeOK, Waiting
      <3>2. CASE arg = NULL
        BY <2>1, <3>2 DEF Readmitted, Admitted, Waiting, TypeOK
      <3>. QED BY <3>1, <3>2
    <2>3. Head(Readmitted) \in Waiting
      BY <2>1, <2>2, HeadTailFacts
    <2>4. Loadable(tCtx[Head(Readmitted)])
      BY <1>0, <2>1, <2>3 DEF ContextsInv, Loadable, Destroying
    <2>. QED BY <1>4, <2>4 DEF ResumeTask, Load
  <1>5. CASE DestroyTasks
    <2>1. ASSUME DestroyFrees PROVE argId \in taskIds /\ taskCount > 0
      <3>1. /\ Looping /\ arg # NULL
            /\ Len(rtTasks) \in Nat /\ Len(rtZombies) \in Nat
        BY <2>1, LenProperties DEF DestroyFrees, InLoop, Looping, Destroying, TypeOK
      <3>. QED BY <1>0, <3>1 DEF IdsInv, IdsInFlight, IdInFlight, CountInv
    <2>. QED BY <1>5, <2>1 DEF DestroyTasks, DestroyUnmaps, DestroyFrees,
            DestroyTurnsToZombies, ReapReturns, DestroyReturns
  <1>. QED BY <1>1, <1>2, <1>3, <1>4, <1>5 DEF Execute, Schedule

\* Every step of the runtime keeps the inductive invariant.
LEMMA InvStep == Inv /\ [Next]_vars => Inv'
  <1> SUFFICES ASSUME Inv, [Next]_vars PROVE Inv'
    OBVIOUS
  <1>1. TypeOK /\ TypeOK'
    BY TypeStep DEF Inv
  <1>2. CASE CreateTask \/ Execute \/ DestroyTasks
    <2>1. outcome = "ok" /\ AccountInv /\ ExecutionInv
      BY <1>2 DEF Inv, CreateTask, CreateAllocates, CreateTakesId, CreateFindsNoId,
         CreateMapsStack, CreateReserveFails, CreateProtectFails, CreatePublishes,
         Execute, RunCall, YieldCall, TaskExit, Schedule, ResumeMain, ResumeTask,
         DestroyTasks, DestroyUnmaps, DestroyFrees, DestroyTurnsToZombies,
         ReapReturns, DestroyReturns, InLoop, At, Executing
    <2>2. outcome' = "ok"
      BY <1>1, <1>2, <2>1, NoFailureStep
    <2>3. AccountInv'
      BY <1>1, <1>2, <2>1, <2>2, CreateAccounts, ScheduleAccounts, DestroyAccounts
         DEF Execute
    <2>4. ExecutionInv'
      BY <1>1, <1>2, <2>1, <2>2, CreateExecution, ScheduleExecution, DestroyExecution
         DEF Execute
    <2>. QED BY <1>1, <2>2, <2>3, <2>4 DEF Inv, NoInternalFailure
  <1>3. CASE RuntimeInit \/ DestroyCall
    <2>1. /\ outcome = "ok" /\ outcome' = "ok" /\ AccountInv /\ ExecutionInv
      BY <1>3 DEF Inv, RuntimeInit, DestroyCall, At, Executing
    <2>. QED BY <1>1, <1>3, <2>1, DestroyAccounts, DestroyExecution
         DEF Inv, NoInternalFailure
  <1>4. CASE MisusePanics \/ ExecutionFaults
    BY <1>1, <1>4 DEF Inv, NoInternalFailure, MisusePanics, ExecutionFaults
  <1>5. CASE UNCHANGED vars
    BY <1>5, StutterStep
  <1>. QED BY <1>2, <1>3, <1>4, <1>5 DEF Next, InitFails, ProcessEnded

\* The inductive invariant holds throughout.
THEOREM Invariance == Spec => []Inv
  <1>. QED BY InitInv, InvStep, PTL DEF Spec

\* The runtime keeps every variable in its type.
THEOREM TypeCorrect == Spec => []TypeOK
  <1>1. Inv => TypeOK
    BY DEF Inv
  <1>. QED BY <1>1, Invariance, PTL

\* Between operations no task record is lost or counted wrongly, whichever step
\* of gt_create_task failed and whoever called gt_destroy.
THEOREM TasksAreAccounted == Spec => []TasksAccounted
  <1>1. Inv => TasksAccounted
    <2> SUFFICES ASSUME Inv, At("user") PROVE TasksAccounted
      BY DEF TasksAccounted, Quiescent
    <2>1. AccountInv /\ pc = "user" /\ Len(rtTasks) \in Nat /\ Len(rtZombies) \in Nat
      BY LenProperties DEF Inv, At, Executing, TypeOK
    <2>. QED BY <2>1 DEF AccountInv, ListsInv, CountInv, TasksAccounted,
            TasksInFlight, Creating, Looping, Destroying
  <1>. QED BY <1>1, Invariance, PTL

\* Between operations the identifiers in use are those of the owned tasks, and
\* no two tasks share one.
THEOREM IdsAreAccounted == Spec => []IdsAccounted
  <1>1. Inv => IdsAccounted
    <2> SUFFICES ASSUME Inv, At("user") PROVE IdsAccounted
      BY DEF IdsAccounted, Quiescent
    <2>1. AccountInv /\ pc = "user"
      BY DEF Inv, At, Executing
    <2>. QED BY <2>1 DEF AccountInv, IdsInv, IdsAccounted, IdsInFlight,
            IdInFlight, Looping, Destroying
  <1>. QED BY <1>1, Invariance, PTL

\* Between operations the ready queue holds the READY tasks, each once.
THEOREM ReadyQueueIsExact == Spec => []ReadyQueueExact
  <1>1. Inv => ReadyQueueExact
    <2> SUFFICES ASSUME Inv, At("user") PROVE ReadyQueueExact
      BY DEF ReadyQueueExact, Quiescent
    <2>1. AccountInv /\ pc = "user"
      BY DEF Inv, At, Executing
    <2>. QED BY <2>1 DEF AccountInv, ReadyInv, ReadyQueueExact, Destroying
  <1>. QED BY <1>1, Invariance, PTL

\* Between operations every mapped region is the stack of exactly one task, or was
\* released in vain.
THEOREM StacksAreAccounted == Spec => []StacksAccounted
  <1>1. Inv => StacksAccounted
    <2> SUFFICES ASSUME Inv, At("user") PROVE StacksAccounted
      BY DEF StacksAccounted, Quiescent
    <2>1. StacksInv /\ StackOwners = Owned
      BY DEF Inv, At, Executing, ExecutionInv, StackOwners
    <2>. QED BY <2>1 DEF StacksInv, StacksAccounted
  <1>. QED BY <1>1, Invariance, PTL

\* In the code of the program rt_current is the task that executes, it alone is
\* RUNNING, and there is one exactly during a run.
THEOREM CurrentOwnsTheCpu == Spec => []CurrentOwnsCpu
  <1>1. Inv => CurrentOwnsCpu
    <2> SUFFICES ASSUME Inv, At("user") PROVE CurrentOwnsCpu
      BY DEF CurrentOwnsCpu, Quiescent
    <2>1. /\ pc = "user" /\ TypeOK /\ ReadyInv
          /\ StacksInv /\ TaskStatesInv /\ CpuInv /\ StackOwners = Owned
      BY DEF Inv, At, Executing, AccountInv, ExecutionInv, StackOwners
    <2>2. rtState = "RUNNING" <=> current # NULL
      BY <2>1 DEF CpuInv
    <2>3. current = NULL => cpu \in Foreign
      BY <2>1 DEF CpuInv
    <2>4. current # NULL => /\ current \in ToSet(rtTasks) /\ current \in Owned
                            /\ tState[current] = "RUNNING"
                            /\ cpu = tStack[current] /\ cpu \notin Foreign
      <3> SUFFICES ASSUME current # NULL
                   PROVE  /\ current \in ToSet(rtTasks) /\ current \in Owned
                          /\ tState[current] = "RUNNING"
                          /\ cpu = tStack[current] /\ cpu \notin Foreign
        OBVIOUS
      <3>1. /\ current \in ToSet(rtTasks) /\ current \in Owned
            /\ tState[current] = "RUNNING" /\ cpu = tStack[current]
        BY <2>1 DEF ReadyInv, CpuInv, Owned, Destroying
      <3>2. tStack[current] \in mapped /\ tStack[current] \notin lost
        BY <2>1, <3>1 DEF StacksInv
      <3>. QED BY <2>1, <3>1, <3>2 DEF TypeOK, Foreign
    <2>5. \A t \in Owned : tState[t] = "RUNNING" <=> t = current
      <3> SUFFICES ASSUME NEW t \in Owned PROVE tState[t] = "RUNNING" <=> t = current
        OBVIOUS
      <3>1. t \in Tasks /\ t # NULL
        BY <2>1 DEF TypeOK, Owned, ToSet
      <3>2. tState[t] = "RUNNING" => t = current
        BY <2>1 DEF TaskStatesInv, Owned
      <3>. QED BY <2>4, <3>1, <3>2
    <2>. QED BY <2>2, <2>3, <2>4, <2>5 DEF CurrentOwnsCpu
  <1>. QED BY <1>1, Invariance, PTL

\* Whatever the scheduler may load next was saved or configured, lies on the
\* mapped stack of its task, and has not been loaded since.
THEOREM ContextsAreLoadable == Spec => []ContextsLoadable
  <1>1. Inv => ContextsLoadable
    <2> SUFFICES ASSUME Inv, Executing, pc \in {"user", "schedule"}
                 PROVE  ContextsLoadable
      BY DEF ContextsLoadable
    <2>1. TypeOK /\ ArgInv /\ ReadyInv /\ StacksInv /\ ContextsInv /\ ~Destroying
      BY DEF Inv, Executing, AccountInv, ExecutionInv, Destroying
    <2>2. Waiting = ToSet(readyQueue) \cup ({arg} \ {NULL})
      BY <2>1 DEF Waiting, ArgInv
    <2>3. Waiting \subseteq Owned
      BY <2>1 DEF Waiting, ReadyInv, ArgInv, Owned
    <2>4. \A t \in Owned : tStack[t] \in mapped
      BY <2>1 DEF StacksInv, StackOwners
    <2>. QED BY <2>1, <2>2, <2>3, <2>4 DEF ContextsInv, ContextsLoadable
  <1>. QED BY <1>1, Invariance, PTL

\* No internal assertion fails and no dead context is loaded, in any sequence of
\* calls and failures.
THEOREM NoInternalFailures == Spec => []NoInternalFailure
  <1>1. Inv => NoInternalFailure
    BY DEF Inv
  <1>. QED BY <1>1, Invariance, PTL

\* gt_run comes back only to zombies.
THEOREM RunsDrain == Spec => []RunDrains
  <1>1. Inv => RunDrains
    <2> SUFFICES ASSUME Inv, At("reap") PROVE RunDrains
      BY DEF RunDrains
    <2>1. /\ pc = "reap" /\ StateInv /\ ListsInv /\ ToSet(<<>>) = {}
      BY EmptySeq DEF Inv, At, Executing, AccountInv, ToSet
    <2>. QED BY <2>1 DEF StateInv, ListsInv, RunDrains, Owned, TasksInFlight, Looping
  <1>. QED BY <1>1, Invariance, PTL

LEMMA StackHeldStep ==
    ASSUME Inv, StackHeld, [Next]_vars PROVE StackHeld'
  <1> SUFFICES ASSUME outcome' = "ok", ~Destroying' PROVE cpu' \in mapped' \cup {MainStack}
    BY DEF StackHeld, Destroying
  <1> USE DEF Destroying
  <1>1. CASE UNCHANGED vars
    BY <1>1 DEF vars, lists, pools, control, StackHeld
  <1>2. CASE CreateTask
    BY <1>2 DEF CreateTask, CreateAllocates, CreateTakesId, CreateFindsNoId,
       CreateMapsStack, CreateReserveFails, CreateProtectFails, CreateRollsBack,
       CreatePublishes, CreateReturns, Released, At, Executing
  <1>3. CASE RunCall \/ YieldCall \/ TaskExit
    BY <1>3 DEF RunCall, YieldCall, TaskExit, pools, At, Executing
  <1>4. CASE Schedule
    <2>1. outcome = "ok" /\ pc = "schedule"
      BY <1>4 DEF Schedule, ResumeMain, ResumeTask, At, Executing
    <2>2. /\ ArgInv' /\ StateInv' /\ CpuInv' /\ ReadyInv' /\ StacksInv'
          /\ rtState = "RUNNING" /\ mainCtx.at = "run"
      BY <1>4, <2>1, ScheduleAccounts, ScheduleExecution
         DEF Inv, AccountInv, ExecutionInv, StateInv, ContextsInv
    <2>3. CASE ResumeMain
      <3>1. pc' = "reap"
        BY <2>2, <2>3 DEF ResumeMain, Load
      <3>. QED BY <2>2, <3>1 DEF CpuInv, Foreign, StacksInv
    <2>4. CASE ResumeTask
      <3>1. pc' \in {"user", "reap"}
        BY <2>4 DEF ResumeTask, Load
      <3>. QED BY <2>2, <3>1 DEF CpuInv, ReadyInv, Foreign, StacksInv, StackOwners, Owned
    <2>. QED BY <1>4, <2>3, <2>4 DEF Schedule
  <1>5. CASE RuntimeInit \/ DestroyCall
    BY <1>5 DEF RuntimeInit, DestroyCall, pools, At, Executing
  <1>6. CASE DestroyUnmaps
    <2>1. /\ outcome = "ok" /\ pc = "reap" /\ LoopList # <<>> /\ cpu' = cpu
          /\ Released(tStack[Head(LoopList)])
      BY <1>6 DEF DestroyUnmaps, InLoop, Executing
    <2>2. StacksInv /\ CpuInv /\ cpu \in Foreign
      BY <2>1 DEF Inv, ExecutionInv, CpuInv, Foreign
    <2>3. Head(LoopList) \in StackOwners
      BY <2>1, HeadTailFacts DEF Inv, TypeOK, LoopList, StackOwners, Owned
    <2>. QED BY <2>1, <2>2, <2>3 DEF StacksInv, Released, Foreign
  <1>7. CASE DestroyFrees \/ DestroyTurnsToZombies \/ ReapReturns \/ DestroyReturns
    BY <1>7 DEF DestroyFrees, DestroyTurnsToZombies, ReapReturns, DestroyReturns,
       pools, InLoop, At, Executing
  <1>8. CASE MisusePanics \/ ExecutionFaults
    BY <1>8 DEF MisusePanics, ExecutionFaults
  <1>. QED BY <1>1, <1>2, <1>3, <1>4, <1>5, <1>6, <1>7, <1>8
          DEF Next, Execute, DestroyTasks, InitFails, ProcessEnded

\* Whatever the tasks call and whatever fails, only gt_destroy takes away the
\* stack that the thread executes on.
THEOREM StacksAreHeld == Spec => []StackHeld
  <1>1. Init => StackHeld
    BY DEF Init, StackHeld
  <1>. QED BY <1>1, StackHeldStep, Invariance, PTL DEF Spec

\* When no task calls gt_destroy the thread never executes on a stack that has
\* been released: gt_destroy, like gt_run, works on the stack it was called on.
THEOREM StacksOutliveExecution ==
    ASSUME TaskMayDestroy = FALSE PROVE Spec => []StackAlive
  <1> DEFINE CallerDestroys == outcome = "ok" /\ Destroying => cpu = MainStack
  <1>1. Init => CallerDestroys
    BY DEF Init, Destroying
  <1>2. CallerDestroys /\ [Next]_vars => CallerDestroys'
    <2> SUFFICES ASSUME CallerDestroys, [Next]_vars, outcome' = "ok", Destroying'
                 PROVE  cpu' = MainStack
      OBVIOUS
    <2> USE DEF Destroying
    <2>1. CASE CreateTask
      BY <2>1 DEF CreateTask, CreateAllocates, CreateTakesId, CreateFindsNoId,
         CreateMapsStack, CreateReserveFails, CreateProtectFails, CreateRollsBack,
         CreatePublishes, CreateReturns, At, Executing
    <2>2. CASE Execute
      BY <2>2 DEF Execute, RunCall, YieldCall, TaskExit, Schedule, ResumeMain,
         ResumeTask, Load
    <2>3. CASE DestroyTasks
      BY <2>3 DEF DestroyTasks, DestroyUnmaps, DestroyFrees, DestroyTurnsToZombies,
         ReapReturns, DestroyReturns, InLoop, At, Executing
    <2>4. CASE DestroyCall
      BY <2>4 DEF DestroyCall
    <2>5. CASE InitFails \/ RuntimeInit \/ MisusePanics \/ ExecutionFaults
               \/ ProcessEnded \/ UNCHANGED vars
      BY <2>5 DEF InitFails, RuntimeInit, MisusePanics, ExecutionFaults, ProcessEnded,
         vars, control, At, Executing
    <2>. QED BY <2>1, <2>2, <2>3, <2>4, <2>5 DEF Next
  <1>3. StackHeld /\ CallerDestroys => StackAlive
    BY DEF StackHeld, StackAlive, Destroying
  <1> HIDE DEF CallerDestroys
  <1>. QED BY <1>1, <1>2, <1>3, StacksAreHeld, PTL DEF Spec

\* Every step moves each task along its life cycle or leaves its state alone.
THEOREM TasksLiveTheirCycle == Spec => TaskLifeCycle
  <1>1. Inv /\ [Next]_vars => [\A t \in Tasks : LifeCycleStep(t)]_vars
    <2> SUFFICES ASSUME Inv, Next, NEW t \in Tasks, tState'[t] # tState[t]
                 PROVE  LifeCycleStep(t)
      BY DEF LifeCycleStep
    <2>0. TypeOK
      BY DEF Inv
    <2>1. CASE \/ InitFails \/ RuntimeInit \/ DestroyCall
               \/ MisusePanics \/ ExecutionFaults \/ ProcessEnded
      BY <2>1 DEF InitFails, RuntimeInit, DestroyCall, MisusePanics, ExecutionFaults,
         ProcessEnded, vars, taskVars
    <2>2. CASE CreateTask
      <3>1. arg \in Tasks /\ arg \notin Owned /\ tState[arg] = "NEW"
        BY <2>0, <2>2 DEF Inv, CreateTask, CreateAllocates, CreateTakesId,
           CreateFindsNoId, CreateMapsStack, CreateReserveFails, CreateProtectFails,
           CreateRollsBack, CreatePublishes, At, Executing, AccountInv, ArgInv, ListsInv,
           TasksInFlight, Creating, ExecutionInv, TaskStatesInv, taskVars
      <3>2. tState' = tState \/ tState' = [tState EXCEPT ![arg] = "NEW"]
            \/ tState' = [tState EXCEPT ![arg] = "READY"]
        BY <2>2 DEF CreateTask, CreateAllocates, CreateTakesId, CreateFindsNoId,
           CreateMapsStack, CreateReserveFails, CreateProtectFails, CreateRollsBack,
           CreatePublishes, taskVars
      <3>3. t = arg /\ tState'[t] = "READY"
        BY <2>0, <3>1, <3>2 DEF TypeOK
      <3>. QED BY <3>1, <3>3 DEF LifeCycleStep
    <2>3. CASE RunCall \/ ResumeMain
      BY <2>3 DEF RunCall, ResumeMain, taskVars
    <2>4. CASE YieldCall \/ TaskExit
      <3>1. current \in Tasks /\ tState[current] = "RUNNING"
        BY <2>0, <2>4 DEF Inv, AccountInv, ReadyInv, YieldCall, TaskExit, At, Executing,
           TypeOK, Destroying
      <3>. QED BY <2>0, <2>4, <3>1 DEF TypeOK, YieldCall, TaskExit, LifeCycleStep
    <2>5. CASE ResumeTask
      <3>1. pc = "schedule" /\ Readmitted # <<>> /\ ReadyInv /\ ArgInv
        BY <2>5 DEF Inv, AccountInv, ResumeTask, At, Executing
      <3>2. Readmitted \in Seq(Tasks) /\ \A u \in ToSet(Readmitted) : tState[u] = "READY"
        <4>1. CASE arg # NULL
          <5>1. Readmitted = Append(readyQueue, arg) /\ arg \in Tasks /\ tState[arg] = "READY"
            BY <2>0, <3>1, <4>1 DEF Readmitted, Admitted, ArgInv, TypeOK
          <5>. QED BY <2>0, <3>1, <5>1, AppendFacts DEF TypeOK, ReadyInv, Destroying
        <4>2. CASE arg = NULL
          BY <2>0, <3>1, <4>2 DEF Readmitted, Admitted, ReadyInv, TypeOK, Destroying
        <4>. QED BY <4>1, <4>2
      <3>3. Head(Readmitted) \in Tasks /\ tState[Head(Readmitted)] = "READY"
        BY <3>1, <3>2, HeadTailFacts
      <3>. QED BY <2>0, <2>5, <3>3 DEF TypeOK, ResumeTask, LifeCycleStep
    <2>6. CASE DestroyUnmaps
      <3>1. /\ pc \in {"destroy_tasks", "destroy_zombies", "reap"} /\ LoopList # <<>>
            /\ TaskStatesInv
        BY <2>6 DEF Inv, ExecutionInv, DestroyUnmaps, InLoop, Executing
      <3>2. Head(LoopList) \in Tasks /\ Head(LoopList) \in ToSet(LoopList)
        BY <2>0, <3>1, HeadTailFacts DEF TypeOK, LoopList
      <3>3. t = Head(LoopList) /\ tState'[t] = "NEW"
        BY <2>0, <2>6, <3>2 DEF TypeOK, DestroyUnmaps
      <3>. QED BY <3>1, <3>2, <3>3 DEF LoopList, TaskStatesInv, LifeCycleStep
    <2>7. CASE DestroyFrees \/ DestroyTurnsToZombies \/ ReapReturns \/ DestroyReturns
      BY <2>7 DEF DestroyFrees, DestroyTurnsToZombies, ReapReturns, DestroyReturns,
         taskVars
    <2>. QED BY <2>1, <2>2, <2>3, <2>4, <2>5, <2>6, <2>7
            DEF Next, Execute, Schedule, DestroyTasks
  <1>. QED BY <1>1, Invariance, PTL DEF Spec, TaskLifeCycle

\* From its publication until it is unlinked a task keeps its identifier and its
\* stack: what is created meanwhile has a record, an identifier and a region of
\* its own, and the reaping of a task touches no other.
THEOREM ConfigurationIsKept == Spec => ConfigurationKept
  <1> DEFINE Kept(t) == tId'[t] = tId[t] /\ tStack'[t] = tStack[t]
  <1>1. Inv /\ [Next]_vars => [\A t \in Owned \cap Owned' : Kept(t)]_vars
    <2> SUFFICES ASSUME Inv, Next, NEW t \in Owned, t \in Owned' PROVE Kept(t)
      OBVIOUS
    <2>0. TypeOK /\ t \in Tasks
      BY DEF Inv, TypeOK, Owned, ToSet
    <2>1. CASE \E r \in Regions : CreateMapsStack(r)
      <3>1. arg \in Tasks /\ arg \notin Owned
        BY <2>1 DEF CreateMapsStack, At, Executing, Inv, AccountInv, ArgInv, ListsInv,
           TasksInFlight, Creating
      <3>. QED BY <2>0, <2>1, <3>1 DEF TypeOK, CreateMapsStack
    <2>2. CASE DestroyUnmaps
      <3>1. ListsInv /\ LoopList # <<>>
        BY <2>2 DEF DestroyUnmaps, InLoop, Executing, Inv, AccountInv
      <3>2. /\ Head(LoopList) \in Tasks /\ Head(LoopList) \in ToSet(LoopList)
            /\ Head(LoopList) \notin ToSet(Tail(LoopList))
        BY <2>0, <3>1, HeadTailFacts DEF TypeOK, LoopList, ListsInv
      <3>3. Head(LoopList) \notin Owned'
        BY <2>2, <3>1, <3>2 DEF DestroyUnmaps, LoopList, ListsInv, Owned
      <3>. QED BY <2>0, <2>2, <3>2, <3>3 DEF TypeOK, DestroyUnmaps
    <2>3. CASE CreateTask /\ ~(\E r \in Regions : CreateMapsStack(r))
      BY <2>3 DEF CreateTask, CreateAllocates, CreateTakesId, CreateFindsNoId,
         CreateReserveFails, CreateProtectFails, CreateRollsBack, CreatePublishes,
         taskVars
    <2>4. CASE Execute
      BY <2>4 DEF Execute, RunCall, YieldCall, TaskExit, Schedule, ResumeMain,
         ResumeTask, taskVars
    <2>5. CASE DestroyFrees \/ DestroyTurnsToZombies \/ ReapReturns \/ DestroyReturns
      BY <2>5 DEF DestroyFrees, DestroyTurnsToZombies, ReapReturns, DestroyReturns,
         taskVars
    <2>6. CASE \/ InitFails \/ RuntimeInit \/ DestroyCall
               \/ MisusePanics \/ ExecutionFaults \/ ProcessEnded
      BY <2>6 DEF InitFails, RuntimeInit, DestroyCall, MisusePanics, ExecutionFaults,
         ProcessEnded, vars, taskVars
    <2>. QED BY <2>1, <2>2, <2>3, <2>4, <2>5, <2>6 DEF Next, DestroyTasks
  <1>. QED BY <1>1, Invariance, PTL DEF Spec, ConfigurationKept

\* When munmap does its work no region is ever lost, so a runtime that is down
\* has given back every stack.
THEOREM NothingStaysMapped ==
    ASSUME ReleaseMayFail = FALSE PROVE Spec => []NothingLeftMapped
  <1> DEFINE NoneLost == lost = {}
  <1>1. Init => NoneLost
    BY DEF Init
  <1>2. NoneLost /\ [Next]_vars => NoneLost'
    BY DEF Next, InitFails, RuntimeInit, CreateTask, CreateAllocates, CreateTakesId,
       CreateFindsNoId, CreateMapsStack, CreateReserveFails, CreateProtectFails,
       CreatePublishes, Execute, RunCall, YieldCall, TaskExit, Schedule, ResumeMain,
       ResumeTask, DestroyCall, DestroyTasks, DestroyUnmaps, DestroyFrees,
       DestroyTurnsToZombies, ReapReturns, DestroyReturns, MisusePanics,
       ExecutionFaults, ProcessEnded, Released, vars, pools
  <1>3. Inv /\ NoneLost => NothingLeftMapped
    <2> SUFFICES ASSUME Inv, NoneLost, At("user"), rtState = "UNINITIALIZED"
                 PROVE  mapped = {}
      BY DEF NothingLeftMapped
    <2>1. pc = "user" /\ rtTasks = <<>> /\ rtZombies = <<>> /\ StacksInv
      BY DEF Inv, AccountInv, ExecutionInv, StateInv, At, Executing
    <2>2. StackOwners = {}
      BY <2>1, EmptySeq DEF StackOwners, Owned, ToSet
    <2>. QED BY <2>1, <2>2 DEF StacksInv
  <1> HIDE DEF NoneLost
  <1>. QED BY <1>1, <1>2, <1>3, Invariance, PTL DEF Spec

-----------------------------------------------------------------------------
(* First in, first out *)

\* Who is queued later changes nothing for those that wait.
LEMMA InFrontAfterAppend ==
    ASSUME NEW q \in Seq(Tasks), NEW u \in Tasks \ ToSet(q), NEW t \in ToSet(q)
    PROVE  InFront(Append(q, u), t) = InFront(q, t)
  <1> DEFINE n == Len(q)
             a == Append(q, u)
  <1>1. /\ n \in Nat /\ DOMAIN q = 1 .. n /\ DOMAIN a = 1 .. n + 1
        /\ a[n + 1] = u /\ \A i \in 1 .. n : a[i] = q[i]
    BY AppendProperties, LenProperties
  <1>2. u # t
    OBVIOUS
  <1> HIDE DEF a, n
  <1>3. ASSUME NEW j \in 1 .. n + 1, NEW k \in 1 .. n + 1, j < k, a[k] = t
        PROVE  j \in 1 .. n /\ k \in 1 .. n /\ q[k] = t /\ a[j] = q[j]
    BY <1>1, <1>2, <1>3
  <1>4. ASSUME NEW j \in 1 .. n, NEW k \in 1 .. n, j < k, q[k] = t
        PROVE  j \in 1 .. n + 1 /\ k \in 1 .. n + 1 /\ a[k] = t /\ a[j] = q[j]
    BY <1>1, <1>4
  <1>5. InFront(a, t) = InFront(q, t)
    <2>1. ASSUME NEW x \in InFront(a, t) PROVE x \in InFront(q, t)
      <3>1. PICK j \in 1 .. n + 1, k \in 1 .. n + 1 : j < k /\ a[k] = t /\ x = a[j]
        BY <1>1, <2>1 DEF InFront
      <3>2. j \in 1 .. n /\ k \in 1 .. n /\ q[k] = t /\ x = q[j]
        BY <1>3, <3>1
      <3>. QED BY <1>1, <3>1, <3>2 DEF InFront
    <2>2. ASSUME NEW x \in InFront(q, t) PROVE x \in InFront(a, t)
      <3>1. PICK j \in 1 .. n, k \in 1 .. n : j < k /\ q[k] = t /\ x = q[j]
        BY <1>1, <2>2 DEF InFront
      <3>2. j \in 1 .. n + 1 /\ k \in 1 .. n + 1 /\ a[k] = t /\ x = a[j]
        BY <1>4, <3>1
      <3>. QED BY <1>1, <3>1, <3>2 DEF InFront
    <2>. QED BY <2>1, <2>2
  <1>. QED BY <1>5 DEF a

\* Nobody is in front of the first; when it leaves, everybody else has one task
\* fewer in front.
LEMMA InFrontAfterTail ==
    ASSUME NEW q \in Seq(Tasks), q # <<>>, IsInjective(q), NEW t \in ToSet(q)
    PROVE  /\ t = Head(q) => InFront(q, t) = {}
           /\ t # Head(q) => /\ t \in ToSet(Tail(q))
                             /\ InFront(Tail(q), t) = InFront(q, t) \ {Head(q)}
                             /\ Head(q) \in InFront(q, t)
  <1> DEFINE n == Len(q)
             h == Head(q)
             r == Tail(q)
  <1>1. /\ n \in Nat \ {0} /\ DOMAIN q = 1 .. n /\ DOMAIN r = 1 .. n - 1
        /\ h = q[1] /\ \A i \in 1 .. n - 1 : r[i] = q[i + 1]
    BY HeadTailProperties, EmptySeq, LenProperties
  <1>2. \A i, j \in 1 .. n : q[i] = q[j] => i = j
    BY <1>1 DEF IsInjective
  <1>3. PICK m \in 1 .. n : q[m] = t
    BY <1>1 DEF ToSet
  <1> HIDE DEF n, h, r
  <1>4. ASSUME t = h PROVE InFront(q, t) = {}
    <2>1. \A k \in 1 .. n : q[k] = t => k = 1
      BY <1>1, <1>2, <1>4
    <2>2. \A j, k \in 1 .. n : ~(j < k /\ q[k] = t)
      BY <1>1, <2>1
    <2>. QED BY <1>1, <2>2 DEF InFront
  <1>5. ASSUME t # h
        PROVE  /\ t \in ToSet(r) /\ InFront(r, t) = InFront(q, t) \ {h}
               /\ h \in InFront(q, t)
    <2>1. m - 1 \in 1 .. n - 1 /\ r[m - 1] = t /\ 1 < m /\ 1 \in 1 .. n
      <3>1. m # 1
        BY <1>1, <1>3, <1>5
      <3>2. m - 1 \in 1 .. n - 1 /\ (m - 1) + 1 = m /\ 1 < m /\ 1 \in 1 .. n
        BY <1>1, <3>1
      <3>. QED BY <1>1, <1>3, <3>2
    <2>2. t \in ToSet(r)
      BY <1>1, <2>1 DEF ToSet
    <2>3. h \in InFront(q, t)
      BY <1>1, <1>3, <2>1 DEF InFront
    <2>4. ASSUME NEW x \in InFront(r, t) PROVE x \in InFront(q, t) \ {h}
      <3>1. PICK j \in 1 .. n - 1, k \in 1 .. n - 1 : j < k /\ r[k] = t /\ x = r[j]
        BY <1>1, <2>4 DEF InFront
      <3>2. j + 1 \in 1 .. n /\ k + 1 \in 1 .. n /\ j + 1 < k + 1 /\ j + 1 # 1
        BY <1>1, <3>1
      <3>3. q[k + 1] = t /\ x = q[j + 1]
        BY <1>1, <3>1
      <3>4. x # h
        BY <1>1, <1>2, <2>1, <3>2, <3>3
      <3>. QED BY <1>1, <3>2, <3>3, <3>4 DEF InFront
    <2>5. ASSUME NEW x \in InFront(q, t), x # h PROVE x \in InFront(r, t)
      <3>1. PICK j \in 1 .. n, k \in 1 .. n : j < k /\ q[k] = t /\ x = q[j]
        BY <1>1, <2>5 DEF InFront
      <3>2. j # 1
        BY <1>1, <2>5, <3>1
      <3>3. /\ j - 1 \in 1 .. n - 1 /\ k - 1 \in 1 .. n - 1 /\ j - 1 < k - 1
            /\ (j - 1) + 1 = j /\ (k - 1) + 1 = k
        BY <1>1, <3>1, <3>2
      <3>4. r[k - 1] = t /\ x = r[j - 1]
        BY <1>1, <3>1, <3>3
      <3>. QED BY <1>1, <3>3, <3>4 DEF InFront
    <2>. QED BY <2>2, <2>3, <2>4, <2>5
  <1>. QED BY <1>4, <1>5 DEF h, r

\* A step that leaves the queue alone and is no dispatch takes nobody's place.
LEMMA QueueKept ==
    ASSUME readyQueue' = readyQueue, pc = "schedule" => pc' = "schedule",
           NEW t \in ToSet(readyQueue)
    PROVE  Advances(t)
  BY DEF Advances

\* Whatever is created, yields, ends or fails, whoever waits keeps its place.
THEOREM WaitersAdvance == Spec => NobodyOvertakes
  <1>1. Inv /\ [Next]_vars => [\A t \in ToSet(readyQueue) : Advances(t)]_vars
    <2> SUFFICES ASSUME Inv, Next, NEW t \in ToSet(readyQueue) PROVE Advances(t)
      OBVIOUS
    <2>0. TypeOK /\ t \in Tasks
      BY DEF Inv, TypeOK, ToSet
    <2>1. CASE RuntimeInit
      <3>1. /\ ReadyInv /\ ~Destroying /\ rtTasks = <<>>
        BY <2>1 DEF RuntimeInit, Inv, AccountInv, StateInv, At, Executing, Destroying
      <3>. QED BY <3>1, EmptySeq DEF ReadyInv, ToSet
    <2>2. CASE CreatePublishes
      <3>1. /\ arg \in Tasks /\ arg \notin ToSet(readyQueue) /\ pc = "create_publish"
            /\ readyQueue' = Append(readyQueue, arg)
        BY <2>2 DEF CreatePublishes, Admitted, At, Executing, Inv, AccountInv, ArgInv,
           ListsInv, ReadyInv, TasksInFlight, Creating, Destroying, Owned
      <3>2. t \in ToSet(readyQueue')
        BY <2>0, <3>1, AppendFacts DEF TypeOK
      <3>3. InFront(readyQueue', t) = InFront(readyQueue, t)
        BY <2>0, <3>1, InFrontAfterAppend DEF TypeOK
      <3>. QED BY <3>1, <3>2, <3>3 DEF Advances
    <2>3. CASE Schedule
      <3>1. /\ pc = "schedule" /\ ArgInv /\ ReadyInv /\ ~Destroying
            /\ readyQueue \in Seq(Tasks) /\ IsInjective(readyQueue)
        BY <2>0, <2>3 DEF Schedule, ResumeMain, ResumeTask, Inv, AccountInv, ReadyInv,
           At, Executing, Destroying, TypeOK
      <3>2. /\ Readmitted \in Seq(Tasks) /\ IsInjective(Readmitted)
            /\ t \in ToSet(Readmitted) /\ InFront(Readmitted, t) = InFront(readyQueue, t)
        <4>1. CASE arg # NULL
          <5>1. /\ Readmitted = Append(readyQueue, arg) /\ arg \in Tasks
                /\ arg \notin ToSet(readyQueue)
            BY <2>0, <3>1, <4>1 DEF Readmitted, Admitted, ArgInv, ReadyInv, TypeOK
          <5>. QED BY <3>1, <5>1, AppendFacts, InFrontAfterAppend
        <4>2. CASE arg = NULL
          BY <3>1, <4>2 DEF Readmitted
        <4>. QED BY <4>1, <4>2
      <3>3. Readmitted # <<>>
        BY <3>2, EmptySeq DEF ToSet
      <3>4. /\ readyQueue' = Tail(Readmitted) /\ current' = Head(Readmitted)
        BY <2>3, <3>3 DEF Schedule, ResumeMain, ResumeTask, Dequeued
      <3>5. /\ t = Head(Readmitted) => InFront(Readmitted, t) = {}
            /\ t # Head(Readmitted) =>
                  /\ t \in ToSet(Tail(Readmitted))
                  /\ InFront(Tail(Readmitted), t)
                        = InFront(Readmitted, t) \ {Head(Readmitted)}
                  /\ Head(Readmitted) \in InFront(Readmitted, t)
        BY <3>2, <3>3, InFrontAfterTail
      <3>. QED BY <3>2, <3>4, <3>5 DEF Advances
    <2>4. CASE DestroyReturns
      BY <2>4 DEF DestroyReturns, Advances
    <2>5. CASE CreateTask /\ ~CreatePublishes
      BY <2>5, QueueKept DEF CreateTask, CreateAllocates, CreateTakesId,
         CreateFindsNoId, CreateMapsStack, CreateReserveFails, CreateProtectFails,
         CreateRollsBack, lists, At
    <2>6. CASE RunCall \/ YieldCall \/ TaskExit
      BY <2>6, QueueKept DEF RunCall, YieldCall, TaskExit, lists, At
    <2>7. CASE DestroyUnmaps \/ DestroyFrees \/ DestroyTurnsToZombies \/ ReapReturns
      BY <2>7, QueueKept DEF DestroyUnmaps, DestroyFrees, DestroyTurnsToZombies,
         ReapReturns, InLoop, lists, At
    <2>8. CASE InitFails \/ DestroyCall \/ MisusePanics \/ ExecutionFaults \/ ProcessEnded
      BY <2>8, QueueKept DEF InitFails, DestroyCall, MisusePanics, ExecutionFaults,
         ProcessEnded, vars, lists, control, At
    <2>. QED BY <2>1, <2>2, <2>3, <2>4, <2>5, <2>6, <2>7, <2>8
            DEF Next, CreateTask, Execute, DestroyTasks
  <1>. QED BY <1>1, Invariance, PTL DEF Spec, NobodyOvertakes

-----------------------------------------------------------------------------
(* The runtime implements the cooperative scheduler *)

\* gt_destroy works while no task has the turn; or on the stack of the task that
\* called it, which munmap takes away when the destruction comes to that task.
DestroyedSafely ==
    Destroying =>
        \/ current = NULL /\ rtState # "RUNNING"
        \/ /\ ReleaseMayFail = FALSE /\ current # NULL /\ cpu \in Regions
           /\ cpu \in mapped => current \in ToSet(rtTasks) /\ tStack[current] = cpu

LEMMA DestroyedSafelyStep ==
    ASSUME TaskMayDestroy = FALSE \/ ReleaseMayFail = FALSE,
           Inv, DestroyedSafely, Next
    PROVE  DestroyedSafely'
  <1> USE DEF Destroying
  <1>0. TypeOK
    BY DEF Inv
  <1>1. CASE DestroyCall
    <2>1. /\ CpuInv /\ ReadyInv /\ StacksInv /\ pc = "user"
          /\ cpu = MainStack \/ TaskMayDestroy
          /\ UNCHANGED <<rtState, current, cpu, mapped, rtTasks, tStack>>
      BY <1>1 DEF DestroyCall, Inv, AccountInv, ExecutionInv, At, Executing, lists,
         pools, taskVars
    <2>2. CASE current = NULL
      BY <2>1, <2>2 DEF CpuInv, DestroyedSafely
    <2>3. CASE current # NULL
      <3>1. cpu = tStack[current] /\ current \in ToSet(rtTasks) /\ current \in Owned
        BY <2>1, <2>3 DEF CpuInv, ReadyInv, Owned
      <3>2. cpu \in Regions
        BY <1>0, <2>1, <3>1 DEF StacksInv, StackOwners, TypeOK
      <3>. QED BY <2>1, <2>3, <3>1, <3>2 DEF DestroyedSafely
    <2>. QED BY <2>2, <2>3
  <1>2. CASE DestroyUnmaps
    <2>1. /\ LoopList # <<>> /\ Released(tStack[Head(LoopList)])
          /\ UNCHANGED <<rtState, current, cpu, pc>>
          /\ tStack' = [tStack EXCEPT ![Head(LoopList)] = NULL]
          /\ IF pc = "destroy_tasks" THEN rtTasks' = Tail(rtTasks) ELSE rtTasks' = rtTasks
          /\ ListsInv
      BY <1>2 DEF DestroyUnmaps, InLoop, Executing, Inv, AccountInv
    <2>2. CASE current = NULL
      BY <2>1, <2>2 DEF DestroyedSafely
    <2>3. CASE current # NULL
      <3> SUFFICES ASSUME Destroying, cpu \in mapped', ReleaseMayFail = FALSE
                   PROVE  current \in ToSet(rtTasks') /\ tStack'[current] = cpu
        BY <2>1, <2>3 DEF DestroyedSafely
      <3>1. mapped' = mapped \ {tStack[Head(LoopList)]}
        BY <2>1 DEF Released
      <3>2. current \in ToSet(rtTasks) /\ tStack[current] = cpu
        BY <2>3, <3>1 DEF DestroyedSafely
      <3>3. current # Head(LoopList) /\ current \in Tasks
        BY <1>0, <3>1, <3>2 DEF TypeOK, ToSet
      <3>4. current \in ToSet(rtTasks')
        <4>1. CASE pc = "destroy_tasks"
          <5>1. /\ LoopList = rtTasks /\ rtTasks' = Tail(rtTasks)
                /\ rtTasks \in Seq(Tasks) /\ rtTasks # <<>>
            BY <1>0, <2>1, <4>1 DEF LoopList, TypeOK
          <5>2. ToSet(rtTasks) = {Head(rtTasks)} \cup ToSet(Tail(rtTasks))
            BY <5>1, HeadTailFacts
          <5>. QED BY <3>2, <3>3, <5>1, <5>2
        <4>2. CASE pc # "destroy_tasks"
          BY <2>1, <3>2, <4>2
        <4>. QED BY <4>1, <4>2
      <3>. QED BY <1>0, <2>1, <3>2, <3>3, <3>4 DEF TypeOK
    <2>. QED BY <2>2, <2>3
  <1>3. CASE DestroyFrees \/ DestroyTurnsToZombies \/ ReapReturns \/ DestroyReturns
    BY <1>3 DEF DestroyFrees, DestroyTurnsToZombies, ReapReturns, DestroyReturns,
       InLoop, At, Executing, DestroyedSafely, lists, pools, taskVars
  <1>4. CASE CreateTask
    BY <1>4 DEF CreateTask, CreateAllocates, CreateTakesId, CreateFindsNoId,
       CreateMapsStack, CreateReserveFails, CreateProtectFails, CreateRollsBack,
       CreatePublishes, CreateReturns, DestroyedSafely
  <1>5. CASE Execute
    BY <1>5 DEF Execute, RunCall, YieldCall, TaskExit, Schedule, ResumeMain, ResumeTask,
       Load, DestroyedSafely
  <1>6. CASE RuntimeInit \/ MisusePanics \/ ExecutionFaults
    BY <1>6 DEF RuntimeInit, MisusePanics, ExecutionFaults, At, Executing,
       DestroyedSafely, lists, pools, taskVars
  <1>7. CASE InitFails \/ ProcessEnded
    BY <1>7 DEF InitFails, ProcessEnded, vars, lists, pools, taskVars, control,
       DestroyedSafely
  <1>. QED BY <1>1, <1>2, <1>3, <1>4, <1>5, <1>6, <1>7 DEF Next, DestroyTasks

\* A step that leaves rt_state, the ready queue and rt_current alone.
LEMMA CoopStutter ==
    ASSUME UNCHANGED <<rtState, readyQueue, current>>
    PROVE  UNCHANGED Coop!coopVars
  BY DEF Coop!coopVars

LEMMA CoopStep ==
    ASSUME Inv, DestroyedSafely, Next
    PROVE  [Coop!CoopNext]_(Coop!coopVars)
  <1>0. TypeOK /\ (outcome = "ok" => ArgInv /\ StateInv /\ ListsInv /\ ReadyInv)
    BY DEF Inv, AccountInv
  <1>1. CASE RuntimeInit
    <2>1. current = NULL /\ rtState = "UNINITIALIZED"
      BY <1>0, <1>1 DEF RuntimeInit, At, Executing, StateInv
    <2>2. Coop!Start
      BY <1>1, <2>1 DEF RuntimeInit, Coop!Start
    <2>. QED BY <2>2 DEF Coop!CoopNext
  <1>2. CASE CreatePublishes
    <2>1. /\ outcome = "ok" /\ pc = "create_publish"
          /\ rtState' = rtState /\ current' = current
          /\ readyQueue' = Append(readyQueue, arg)
      BY <1>2 DEF CreatePublishes, Admitted, At, Executing
    <2>. arg \in Tasks /\ arg \notin Owned /\ rtState # "UNINITIALIZED"
      BY <1>0, <2>1 DEF ArgInv, StateInv, ListsInv, Creating, TasksInFlight
    <2>2. arg # current
      BY <1>0, <2>1 DEF ReadyInv, Owned, Destroying
    <2>3. ~Coop!Contains(readyQueue, arg)
      <3>1. arg \notin ToSet(readyQueue)
        BY <1>0, <2>1 DEF ReadyInv, Owned, Destroying
      <3>. QED BY <3>1 DEF Coop!Contains, ToSet
    <2>4. Coop!Spawn(arg)
      BY <2>1, <2>2, <2>3 DEF Coop!Spawn
    <2>. QED BY <2>1, <2>4 DEF Coop!CoopNext
  <1>3. CASE RunCall
    <2>1. Coop!BeginRun
      BY <1>3 DEF RunCall, lists, Coop!BeginRun
    <2>. QED BY <2>1 DEF Coop!CoopNext
  <1>4. CASE TaskExit
    <2>1. Coop!Finish
      <3>1. UNCHANGED <<rtState, readyQueue>> /\ current # NULL /\ current' = NULL
        BY <1>4 DEF TaskExit
      <3>. QED BY <3>1 DEF Coop!Finish
    <2>. QED BY <2>1 DEF Coop!CoopNext
  <1>5. CASE ResumeMain
    <2>1. /\ outcome = "ok" /\ pc = "schedule" /\ rtState = "RUNNING"
          /\ Readmitted = <<>>
      BY <1>0, <1>5 DEF ResumeMain, At, Executing, StateInv
    <2>2. arg = NULL
      <3> SUFFICES ASSUME arg # NULL PROVE FALSE
        OBVIOUS
      <3>1. Readmitted = Append(readyQueue, arg) /\ arg \in Tasks
        BY <1>0, <2>1 DEF Readmitted, Admitted, ArgInv, TypeOK
      <3>. QED BY <1>0, <2>1, <3>1, AppendProperties DEF TypeOK
    <2>3. readyQueue = <<>> /\ current = NULL
      BY <1>0, <2>1, <2>2 DEF Readmitted, ArgInv
    <2>4. Coop!EndRun
      BY <1>5, <2>1, <2>3 DEF ResumeMain, lists, Coop!EndRun
    <2>. QED BY <2>4 DEF Coop!CoopNext
  <1>6. CASE ResumeTask
    <2>1. /\ outcome = "ok" /\ pc = "schedule" /\ rtState = "RUNNING" /\ rtState' = rtState
          /\ Readmitted # <<>>
          /\ current' = Head(Readmitted) /\ readyQueue' = Tail(Readmitted)
      BY <1>0, <1>6 DEF ResumeTask, Dequeued, At, Executing, StateInv
    <2>2. CASE arg # NULL
      <3>1. Readmitted = Append(readyQueue, arg) /\ arg = current
        BY <1>0, <2>1, <2>2 DEF Readmitted, Admitted, ArgInv
      <3>2. Coop!PassTurn
        BY <2>1, <2>2, <3>1 DEF Coop!PassTurn
      <3>. QED BY <3>2 DEF Coop!CoopNext
    <2>3. CASE arg = NULL
      <3>1. Readmitted = readyQueue /\ current = NULL
        BY <1>0, <2>1, <2>3 DEF Readmitted, ArgInv
      <3>2. Coop!GiveTurn
        BY <2>1, <3>1 DEF Coop!GiveTurn
      <3>. QED BY <3>2 DEF Coop!CoopNext
    <2>. QED BY <2>2, <2>3
  <1>7. CASE DestroyReturns
    <2>1. /\ pc = "destroy_zombies" /\ rtTasks = <<>> /\ rtState # "UNINITIALIZED"
          /\ cpu \in mapped \cup {MainStack}
      BY <1>0, <1>7 DEF DestroyReturns, At, Executing, StateInv
    <2>2. current = NULL /\ rtState # "RUNNING"
      <3>1. current \notin ToSet(rtTasks)
        BY <2>1, EmptySeq DEF ToSet
      <3>. QED BY <2>1, <3>1 DEF DestroyedSafely, Destroying
    <2>3. current = NULL /\ rtState \in {"INITIALIZED", "STOPPED"}
      BY <1>0, <2>1, <2>2 DEF TypeOK, RuntimeStates
    <2>4. Coop!Stop
      BY <1>7, <2>3 DEF DestroyReturns, Coop!Stop
    <2>. QED BY <2>4 DEF Coop!CoopNext
  <1>8. CASE \/ InitFails \/ DestroyCall \/ MisusePanics \/ ExecutionFaults
             \/ ProcessEnded \/ YieldCall
             \/ DestroyUnmaps \/ DestroyFrees \/ DestroyTurnsToZombies \/ ReapReturns
    <2>1. UNCHANGED <<rtState, readyQueue, current>>
      BY <1>8 DEF InitFails, DestroyCall, MisusePanics, ExecutionFaults, ProcessEnded,
         YieldCall, DestroyUnmaps, DestroyFrees, DestroyTurnsToZombies, ReapReturns,
         vars, lists, control
    <2>. QED BY <2>1, CoopStutter
  <1>9. CASE CreateTask /\ ~CreatePublishes
    <2>1. UNCHANGED <<rtState, readyQueue, current>>
      BY <1>9 DEF CreateTask, CreateAllocates, CreateTakesId, CreateFindsNoId,
         CreateMapsStack, CreateReserveFails, CreateProtectFails, CreateRollsBack, lists
    <2>. QED BY <2>1, CoopStutter
  <1>. QED BY <1>1, <1>2, <1>3, <1>4, <1>5, <1>6, <1>7, <1>8, <1>9
          DEF Next, CreateTask, Execute, Schedule, DestroyTasks

\* Round robin: seen through rt_state, the ready queue and rt_current, the runtime
\* is the cooperative scheduler, unless a task calls gt_destroy and munmap fails
\* to take the task's stack away, so that it takes the runtime down during a run.
THEOREM RuntimeImplementsCoopSched ==
    ASSUME TaskMayDestroy = FALSE \/ ReleaseMayFail = FALSE
    PROVE  Spec => ImplementsCoopSched
  <1>1. Init => Coop!CoopInit /\ DestroyedSafely
    BY DEF Init, Coop!CoopInit, DestroyedSafely, Destroying
  <1>2. Inv /\ DestroyedSafely /\ [Next]_vars
        => DestroyedSafely' /\ [Coop!CoopNext]_(Coop!coopVars)
    <2>1. CASE UNCHANGED vars
      BY <2>1, CoopStutter DEF vars, lists, pools, taskVars, control,
         DestroyedSafely, Destroying
    <2>. QED BY <2>1, DestroyedSafelyStep, CoopStep
  <1>. QED BY <1>1, <1>2, Invariance, PTL DEF Spec, ImplementsCoopSched, Coop!CoopSafe

-----------------------------------------------------------------------------
(* The calls of gt_init and gt_create_task *)

\* A step of a caller is a step of the runtime, or changes nothing in it.
LEMMA CallStep == [CallNext]_callVars => [Next]_vars
  <1>. QED BY DEF CallNext, callVars, Next, InitReturns, CreateGoesOn, CreateFails,
         CreateAllocFails, CreateTask

\* The calls with their statuses run the runtime and nothing else.
THEOREM CallsAreRuntime == CallSpec => Spec
  <1>1. CallInit => Init
    BY DEF CallInit
  <1>. QED BY <1>1, CallStep, PTL DEF CallSpec, Spec

LEMMA CallInvariance == CallSpec => []Inv
  <1>. QED BY CallsAreRuntime, Invariance, PTL

\* The step that the invariant Inv rules out while a creation is under way.
LEMMA CreationStandsOnAStack ==
    ASSUME Inv, Creating, outcome = "ok" PROVE cpu \in mapped \cup {MainStack}
  <1>1. CpuInv /\ StacksInv /\ ReadyInv /\ ~Destroying
    BY DEF Inv, ExecutionInv, AccountInv, Creating, Destroying
  <1>2. CASE current = NULL
    BY <1>1, <1>2 DEF CpuInv, StacksInv, Creating, Foreign
  <1>3. CASE current # NULL
    BY <1>1, <1>3 DEF CpuInv, StacksInv, Creating, ReadyInv, StackOwners, Owned
  <1>. QED BY <1>2, <1>3

-----------------------------------------------------------------------------
(* RESOURCE_EXHAUSTED *)

\* A list without repetition has as many tasks as places.
LEMMA ListCardinality ==
    ASSUME NEW s \in Seq(Tasks), IsInjective(s)
    PROVE  IsFiniteSet(ToSet(s)) /\ Cardinality(ToSet(s)) = Len(s)
  <1>1. Len(s) \in Nat /\ DOMAIN s = 1 .. Len(s)
    BY LenProperties
  <1>2. IsFiniteSet(1 .. Len(s)) /\ Cardinality(1 .. Len(s)) = Len(s)
    BY <1>1, FS_Interval
  <1> DEFINE f == [i \in 1 .. Len(s) |-> s[i]]
  <1>3. f \in Bijection(1 .. Len(s), ToSet(s))
    BY <1>1 DEF Bijection, Injection, Surjection, IsInjective, ToSet
  <1>4. ExistsBijection(1 .. Len(s), ToSet(s))
    BY <1>3 DEF ExistsBijection
  <1>. QED BY <1>2, <1>4, FS_Bijection

\* While an identifier is sought, as many are taken as there are tasks.
LEMMA IdsCount ==
    ASSUME Inv, pc = "create_id", outcome = "ok"
    PROVE  /\ IsFiniteSet(taskIds)
           /\ Cardinality(taskIds) = Len(rtTasks) + Len(rtZombies)
  <1>1. /\ TypeOK /\ ListsInv
        /\ taskIds = {tId[t] : t \in Owned}
        /\ \A t, u \in Owned : tId[t] = tId[u] => t = u
    BY DEF Inv, AccountInv, IdsInv, IdsInFlight, IdInFlight, Looping, Destroying
  <1> DEFINE A == ToSet(rtTasks)
             B == ToSet(rtZombies)
  <1>2. /\ IsFiniteSet(A) /\ Cardinality(A) = Len(rtTasks)
        /\ IsFiniteSet(B) /\ Cardinality(B) = Len(rtZombies)
    BY <1>1, ListCardinality DEF TypeOK, ListsInv
  <1>3. Cardinality(A \cap B) = 0
    BY <1>1, FS_EmptySet DEF ListsInv
  <1>4. Len(rtTasks) \in Nat /\ Len(rtZombies) \in Nat
    BY <1>1, LenProperties DEF TypeOK
  <1>5. IsFiniteSet(Owned) /\ Cardinality(Owned) = Len(rtTasks) + Len(rtZombies)
    <2>1. Owned = A \cup B
      BY DEF Owned
    <2> HIDE DEF A, B
    <2>2. /\ IsFiniteSet(A \cup B)
          /\ Cardinality(A \cup B) = Cardinality(A) + Cardinality(B) - Cardinality(A \cap B)
      BY <1>2, FS_Union
    <2>. QED BY <1>2, <1>3, <1>4, <2>1, <2>2
  <1> DEFINE f == [t \in Owned |-> tId[t]]
  <1>6. f \in Bijection(Owned, taskIds)
    BY <1>1 DEF Bijection, Injection, Surjection, IsInjective
  <1>7. ExistsBijection(Owned, taskIds)
    BY <1>6 DEF ExistsBijection
  <1> HIDE DEF f
  <1>. QED BY <1>5, <1>7, FS_Bijection

\* None is left exactly when Capacity tasks exist.
LEMMA NoIdLeft ==
    ASSUME Inv, pc = "create_id", outcome = "ok"
    PROVE  Ids \ taskIds = {} <=> Len(rtTasks) + Len(rtZombies) = Capacity
  <1>1. taskIds \subseteq Ids
    BY DEF Inv, TypeOK
  <1>2. IsFiniteSet(Ids) /\ Cardinality(Ids) = Capacity
    BY FS_Interval, CapacityIsPositive DEF Ids
  <1>3. Cardinality(taskIds) = Capacity <=> taskIds = Ids
    BY <1>1, <1>2, FS_Subset
  <1>. QED BY <1>1, <1>3, IdsCount

\* A process that ends does not end while an identifier is sought.
SeekingAlive == pc = "create_id" => outcome = "ok"

LEMMA SeekingStaysAlive == Inv /\ SeekingAlive /\ [Next]_vars => SeekingAlive'
  <1> SUFFICES ASSUME Inv, SeekingAlive, [Next]_vars, pc' = "create_id"
               PROVE  outcome' = "ok"
    BY DEF SeekingAlive
  <1>1. CASE UNCHANGED vars
    BY <1>1 DEF SeekingAlive, vars, control
  <1>2. CASE CreateTask
    BY <1>2 DEF CreateTask, CreateAllocates, CreateTakesId, CreateFindsNoId,
       CreateMapsStack, CreateReserveFails, CreateProtectFails, CreateRollsBack,
       CreateReturns, CreatePublishes, At, Executing
  <1>3. CASE Execute
    BY <1>3 DEF Execute, RunCall, YieldCall, TaskExit, Schedule, ResumeMain, ResumeTask,
       Load
  <1>4. CASE RuntimeInit \/ DestroyCall \/ DestroyTasks
    BY <1>4 DEF RuntimeInit, DestroyCall, DestroyTasks, DestroyUnmaps, DestroyFrees,
       DestroyTurnsToZombies, ReapReturns, DestroyReturns, InLoop, At, Executing
  <1>5. CASE MisusePanics
    BY <1>5 DEF MisusePanics, At
  <1>6. CASE ExecutionFaults
    BY <1>6, CreationStandsOnAStack DEF ExecutionFaults, Creating
  <1>. QED BY <1>1, <1>2, <1>3, <1>4, <1>5, <1>6 DEF Next, InitFails, ProcessEnded

\* gt_create_task reports RESOURCE_EXHAUSTED exactly when Capacity tasks exist: no
\* sequence of failed creations, runs and destructions loses an identifier.
THEOREM ExhaustedWhenFull == CallSpec => ExhaustedExactlyWhenFull
  <1>1. CallInit => SeekingAlive
    BY DEF CallInit, Init, SeekingAlive
  <1>2. Inv /\ SeekingAlive /\ [CallNext]_callVars => SeekingAlive'
    BY CallStep, SeekingStaysAlive
  <1> DEFINE Told == pc = "create_id" =>
                 (status' = "RESOURCE_EXHAUSTED"
                     <=> Len(rtTasks) + Len(rtZombies) = Capacity)
  <1>3. Inv /\ SeekingAlive /\ [CallNext]_callVars => [Told]_callVars
    <2> SUFFICES ASSUME Inv, SeekingAlive, CallNext, pc = "create_id" PROVE Told
      OBVIOUS
    <2>1. outcome = "ok" /\ cpu \in mapped \cup {MainStack}
      BY CreationStandsOnAStack DEF SeekingAlive, Creating
    <2>2. \/ CreateFindsNoId /\ status' = "RESOURCE_EXHAUSTED"
          \/ (\E i \in Ids : CreateTakesId(i)) /\ status' = "none"
      BY <2>1 DEF CallNext, InitReturns, InitFails, RuntimeInit, CreateAllocates,
         CreateGoesOn, CreateMapsStack, CreateFails, CreateAllocFails,
         CreateReserveFails, CreateProtectFails, CreatePublishes, Execute, RunCall,
         YieldCall, TaskExit, Schedule, ResumeMain, ResumeTask, DestroyCall,
         DestroyTasks, DestroyUnmaps, DestroyFrees, DestroyTurnsToZombies,
         ReapReturns, DestroyReturns, InLoop, MisusePanics, ExecutionFaults,
         ProcessEnded, Returns, GoesOn, At
    <2>3. Ids \ taskIds = {} <=> status' = "RESOURCE_EXHAUSTED"
      BY <2>2 DEF CreateFindsNoId, CreateTakesId
    <2>. QED BY <2>1, <2>3, NoIdLeft
  <1>4. CallSpec => []SeekingAlive
    BY <1>1, <1>2, CallInvariance, PTL DEF CallSpec
  <1>. QED BY <1>3, <1>4, CallInvariance, PTL DEF CallSpec, ExhaustedExactlyWhenFull

-----------------------------------------------------------------------------
(* All or nothing *)

\* The stack of a task that is not yet published.
StackInFlight == IF pc = "create_publish" THEN {tStack[arg]} ELSE {}

\* What gt_create_task found, told from what is there now and from what the call
\* itself has acquired since.
Found ==
    [tasks |-> rtTasks, zombies |-> rtZombies, ready |-> readyQueue,
     ids |-> taskIds \ IdsInFlight, count |-> taskCount, heap |-> heap \ {arg},
     stacks |-> (mapped \ lost) \ StackInFlight,
     records |-> [t \in Owned |-> <<tState[t], tId[t], tStack[t], tCtx[t]>>]]

BeforeInv == Creating /\ outcome = "ok" => before = Found

\* The steps of gt_create_task keep the account of what it found.
LEMMA FoundKept == Inv /\ BeforeInv /\ [CallNext]_callVars => BeforeInv'
  <1> SUFFICES ASSUME Inv, BeforeInv, [CallNext]_callVars, Creating', outcome' = "ok"
               PROVE  before' = Found'
    BY DEF BeforeInv
  <1>1. CASE UNCHANGED callVars
    BY <1>1 DEF callVars, vars, lists, pools, taskVars, control, BeforeInv, Found,
       Creating, IdsInFlight, IdInFlight, Looping, Destroying, StackInFlight, Owned
  <1>2. ASSUME NEW t \in Tasks, CreateAllocates(t), Enters PROVE before' = Found'
    <2>1. /\ IdsInFlight' = {} /\ StackInFlight' = {} /\ Owned' = Owned
          /\ heap' \ {arg'} = heap
      BY <1>2 DEF CreateAllocates, IdsInFlight, IdInFlight, Looping, Destroying,
         StackInFlight, Owned, lists
    <2>. QED BY <1>2, <2>1 DEF Enters, Found, Holdings, CreateAllocates, lists, taskVars
  <1>3. ASSUME NEW i \in Ids, CreateTakesId(i), GoesOn PROVE before' = Found'
    <2>1. before = Found /\ IdsInFlight = {} /\ StackInFlight = {}
      BY <1>3 DEF BeforeInv, Creating, CreateTakesId, At, Executing, IdsInFlight,
         IdInFlight, Looping, Destroying, StackInFlight
    <2>2. /\ IdsInFlight' = {i} /\ StackInFlight' = {} /\ Owned' = Owned
          /\ taskIds' \ {i} = taskIds
      BY <1>3 DEF CreateTakesId, IdsInFlight, IdInFlight, Looping, Destroying,
         StackInFlight, Owned, lists
    <2>. QED BY <1>3, <2>1, <2>2 DEF GoesOn, Found, CreateTakesId, lists, taskVars
  <1>4. ASSUME NEW r \in Regions, CreateMapsStack(r), GoesOn PROVE before' = Found'
    <2>1. /\ before = Found /\ IdsInFlight = {argId} /\ StackInFlight = {}
          /\ TypeOK /\ arg \in Tasks /\ arg \notin Owned
      <3>1. pc = "create_stack" /\ outcome = "ok" /\ Creating
        BY <1>4 DEF CreateMapsStack, At, Executing, Creating
      <3>2. TypeOK /\ ArgInv /\ ListsInv
        BY <3>1 DEF Inv, AccountInv
      <3>3. arg \in Tasks /\ arg \notin Owned
        BY <3>1, <3>2, DistinctAddresses DEF ArgInv, ListsInv, TasksInFlight
      <3>. QED BY <3>1, <3>2, <3>3 DEF BeforeInv, IdsInFlight, IdInFlight, StackInFlight
    <2>2. /\ IdsInFlight' = {argId} /\ StackInFlight' = {r} /\ Owned' = Owned
          /\ (mapped' \ lost') \ {r} = mapped \ lost
      BY <1>4, <2>1 DEF CreateMapsStack, IdsInFlight, IdInFlight, Looping, Destroying,
         StackInFlight, Owned, lists, TypeOK
    <2>3. \A t \in Owned : /\ tState'[t] = tState[t] /\ tId'[t] = tId[t]
                           /\ tStack'[t] = tStack[t] /\ tCtx'[t] = tCtx[t]
      BY <1>4, <2>1 DEF CreateMapsStack, TypeOK
    <2>4. Found'.records = Found.records
      BY <2>2, <2>3 DEF Found
    <2>. QED BY <1>4, <2>1, <2>2, <2>4 DEF GoesOn, Found, CreateMapsStack, lists
  <1>5. CASE /\ GoesOn
             /\ Execute \/ DestroyCall \/ DestroyTasks \/ MisusePanics \/ ExecutionFaults
                \/ ProcessEnded
    <2>1. CASE Execute
      BY <2>1 DEF Creating, Execute, RunCall, YieldCall, TaskExit, Schedule, ResumeMain,
         ResumeTask, Load
    <2>2. CASE DestroyCall \/ DestroyTurnsToZombies \/ ReapReturns \/ DestroyReturns
      BY <2>2 DEF Creating, DestroyCall, DestroyTurnsToZombies, ReapReturns,
         DestroyReturns
    <2>3. CASE DestroyUnmaps \/ DestroyFrees
      BY <2>3 DEF Creating, DestroyUnmaps, DestroyFrees, InLoop
    <2>4. CASE MisusePanics \/ ExecutionFaults \/ ProcessEnded
      BY <2>4 DEF MisusePanics, ExecutionFaults, ProcessEnded, vars, control
    <2>. QED BY <1>5, <2>1, <2>2, <2>3, <2>4 DEF DestroyTasks
  <1>6. CASE InitReturns \/ CreateFails \/ CreatePublishes
    BY <1>6 DEF Creating, InitReturns, InitFails, RuntimeInit, CreateFails,
       CreateAllocFails, CreateFindsNoId, CreateReserveFails, CreateProtectFails,
       CreateRollsBack, CreatePublishes, CreateReturns, At, vars, control
  <1>. QED BY <1>1, <1>2, <1>3, <1>4, <1>5, <1>6 DEF CallNext, CreateGoesOn

\* A creation that fails has put everything back.
LEMMA FailureUndone ==
    ASSUME Inv, BeforeInv, Creating, CreateFails, outcome' = "ok"
    PROVE  Holdings' = before
  <1>1. /\ \/ CreateFindsNoId /\ pc = "create_id"
           \/ CreateReserveFails /\ pc = "create_stack"
           \/ (\E r \in Regions : CreateProtectFails(r)) /\ pc = "create_stack"
        /\ outcome = "ok"
    BY DEF CreateFails, CreateAllocFails, CreateFindsNoId, CreateReserveFails,
       CreateProtectFails, Creating, At, Executing
  <1>2. before = Found /\ StackInFlight = {}
    BY <1>1 DEF BeforeInv, StackInFlight
  <1>3. /\ heap' = heap \ {arg} /\ taskIds' = taskIds \ IdsInFlight
        /\ mapped' \ lost' = mapped \ lost
    BY <1>1 DEF CreateFindsNoId, CreateReserveFails, CreateProtectFails,
       CreateRollsBack, Released, IdsInFlight, IdInFlight, Looping, Destroying
  <1>4. UNCHANGED <<lists, taskCount, taskVars>>
    BY <1>1 DEF CreateFindsNoId, CreateReserveFails, CreateProtectFails, CreateRollsBack
  <1>. QED BY <1>2, <1>3, <1>4 DEF Found, Holdings, Owned, lists, taskVars

\* One that succeeds has added its task to all it belongs to.
LEMMA SuccessAddsOne ==
    ASSUME Inv, BeforeInv, CreatePublishes PROVE OneTaskMore
  <1>1. /\ pc = "create_publish" /\ outcome = "ok" /\ before = Found
        /\ IdsInFlight = {argId} /\ StackInFlight = {tStack[arg]}
    BY DEF CreatePublishes, At, Executing, BeforeInv, Creating, IdsInFlight, IdInFlight,
       StackInFlight
  <1>2. /\ TypeOK /\ arg \in Tasks /\ arg \notin Owned /\ arg \in heap /\ arg # NULL
        /\ tId[arg] = argId /\ argId \in taskIds
        /\ tStack[arg] \in mapped \ lost
    <2>1. TypeOK /\ ArgInv /\ ListsInv /\ IdsInv /\ StacksInv
      BY <1>1 DEF Inv, AccountInv, ExecutionInv
    <2>2. arg \in Tasks /\ arg # NULL /\ TasksInFlight = {arg} /\ arg \in StackOwners
      BY <1>1, <2>1, DistinctAddresses DEF ArgInv, Creating, TasksInFlight, StackOwners
    <2>3. arg \notin Owned /\ arg \in heap
      BY <2>1, <2>2 DEF ListsInv
    <2>4. tId[arg] = argId /\ argId \in taskIds
      BY <1>1, <2>1 DEF IdsInv
    <2>5. tStack[arg] \in mapped \ lost
      BY <2>1, <2>2 DEF StacksInv
    <2>. QED BY <2>1, <2>2, <2>3, <2>4, <2>5
  <1>3. /\ tState' = [tState EXCEPT ![arg] = "READY"]
        /\ rtTasks' = Append(rtTasks, arg) /\ readyQueue' = Append(readyQueue, arg)
        /\ taskCount' = taskCount + 1
        /\ UNCHANGED <<rtZombies, taskIds, heap, mapped, lost, tId, tStack, tCtx>>
    BY DEF CreatePublishes, Admitted
  <1>4. ToSet(rtTasks') = ToSet(rtTasks) \cup {arg} /\ Owned' = Owned \cup {arg}
    BY <1>2, <1>3, AppendFacts DEF TypeOK, Owned
  <1> DEFINE record(t) == <<tState'[t], tId'[t], tStack'[t], tCtx'[t]>>
  <1>5. /\ DOMAIN before.records = Owned
        /\ \A t \in Owned : before.records[t] = record(t)
        /\ record(arg) = <<"READY", tId'[arg], tStack'[arg], tCtx'[arg]>>
    BY <1>1, <1>2, <1>3 DEF Found, TypeOK
  <1>6. Holdings'.records = [u \in DOMAIN before.records \cup {arg} |->
                                IF u # arg THEN before.records[u]
                                ELSE <<"READY", tId'[arg], tStack'[arg], tCtx'[arg]>>]
    BY <1>2, <1>4, <1>5 DEF Holdings
  <1>7. /\ before.heap = heap \ {arg} /\ before.ids = taskIds \ {argId}
        /\ before.stacks = (mapped \ lost) \ {tStack[arg]}
        /\ before.tasks = rtTasks /\ before.zombies = rtZombies
        /\ before.ready = readyQueue /\ before.count = taskCount
    BY <1>1 DEF Found
  <1>8. /\ heap' = before.heap \cup {arg} /\ taskIds' = before.ids \cup {tId'[arg]}
        /\ mapped' \ lost' = before.stacks \cup {tStack'[arg]}
        /\ tId'[arg] \notin before.ids /\ tStack'[arg] \notin before.stacks
        /\ arg \in Tasks \ before.heap
    BY <1>2, <1>3, <1>7
  <1>. QED BY <1>3, <1>6, <1>7, <1>8 DEF OneTaskMore, Holdings

\* gt_create_task that reports success has added exactly one task, and one that
\* reports a failure, of whatever step, has changed nothing.
THEOREM CreationIsAllOrNothing == CallSpec => CreationAllOrNothing
  <1>1. CallInit => BeforeInv
    BY DEF CallInit, Init, BeforeInv, Creating
  <1> DEFINE Kept == CreateReturned =>
                 IF status' = "SUCCESS" THEN OneTaskMore ELSE Holdings' = before
  <1>2. Inv /\ BeforeInv /\ [CallNext]_callVars => [Kept]_callVars
    <2> SUFFICES ASSUME Inv, BeforeInv, CallNext, CreateReturned PROVE Kept
      OBVIOUS
    <2>1. Creating /\ pc' = "user" /\ outcome' = "ok"
      BY DEF CreateReturned, Creating
    <2>2. \/ CreateFails /\ status' # "SUCCESS"
          \/ CreatePublishes /\ status' = "SUCCESS"
      BY <2>1 DEF CallNext, InitReturns, InitFails, RuntimeInit, CreateAllocates,
         CreateGoesOn, CreateTakesId, CreateMapsStack, CreateFails, ReserveStatus,
         Execute, RunCall, YieldCall, TaskExit, Schedule, ResumeMain, ResumeTask,
         DestroyCall, DestroyTasks, DestroyUnmaps, DestroyFrees,
         DestroyTurnsToZombies, ReapReturns, DestroyReturns, InLoop, MisusePanics,
         ExecutionFaults, ProcessEnded, Returns, At, Creating, vars, control
    <2>. QED BY <2>1, <2>2, FailureUndone, SuccessAddsOne
  <1>3. CallSpec => []BeforeInv
    BY <1>1, FoundKept, CallInvariance, PTL DEF CallSpec
  <1>. QED BY <1>2, <1>3, CallInvariance, PTL DEF CallSpec, CreationAllOrNothing
=============================================================================
