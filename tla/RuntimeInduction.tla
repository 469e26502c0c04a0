--------------------------- MODULE RuntimeInduction ---------------------------
(***************************************************************************)
(* Every step of the runtime keeps the invariant RuntimeInvariant states:  *)
(* first the types and the accounts (the lists, the count, the identifiers *)
(* and the ready queue), then what the execution path relies on (the       *)
(* ownership of stacks, the states of tasks, who executes on which stack,  *)
(* and which saved contexts may be loaded).  One lemma per group of        *)
(* operations, for any set of addresses, any capacity and whatever the     *)
(* environment does: munmap may fail, and a task may call gt_destroy.      *)
(***************************************************************************)
EXTENDS RuntimeInvariant, SeqFacts

USE CapacityIsPositive, DistinctAddresses, FlagsAreBoolean

\* Unlinking the node of a listed task removes that task from the list.
LEMMA UnlinkFacts ==
    ASSUME NEW s \in Seq(Tasks), IsInjective(s), NEW t \in ToSet(s)
    PROVE  /\ Unlink(s, t) \in Seq(Tasks)
           /\ ToSet(Unlink(s, t)) = ToSet(s) \ {t}
           /\ Len(Unlink(s, t)) = Len(s) - 1
           /\ IsInjective(Unlink(s, t))
  <1> DEFINE k == CHOOSE i \in DOMAIN s : s[i] = t
  <1>1. DOMAIN s = 1 .. Len(s) /\ \E i \in DOMAIN s : s[i] = t
    BY LenProperties DEF ToSet
  <1>2. k \in 1 .. Len(s) /\ s[k] = t
    BY <1>1
  <1>3. Unlink(s, t) = RemoveAt(s, k)
    BY <1>1 DEF Unlink, Contains
  <1> HIDE DEF k
  <1>4. /\ RemoveAt(s, k) \in Seq(Tasks) /\ ToSet(RemoveAt(s, k)) = ToSet(s) \ {s[k]}
        /\ Len(RemoveAt(s, k)) = Len(s) - 1 /\ IsInjective(RemoveAt(s, k))
    BY <1>2, RemoveAtFacts
  <1>. QED BY <1>2, <1>3, <1>4

\* A list stays a list of tasks when a node that may not be on it is unlinked.
LEMMA UnlinkType ==
    ASSUME NEW s \in Seq(Tasks), NEW t PROVE Unlink(s, t) \in Seq(Tasks)
  <1>1. CASE Contains(s, t)
    <2> DEFINE k == CHOOSE i \in DOMAIN s : s[i] = t
    <2>1. k \in 1 .. Len(s)
      BY <1>1, LenProperties DEF Contains
    <2>2. Unlink(s, t) = SubSeq(s, 1, k - 1) \o SubSeq(s, k + 1, Len(s))
      BY <1>1 DEF Unlink, RemoveAt
    <2> HIDE DEF k
    <2>3. Len(s) \in Nat /\ \A i \in 1 .. Len(s) : s[i] \in Tasks
      BY LenProperties, ElementOfSeq
    <2>4. SubSeq(s, 1, k - 1) \in Seq(Tasks) /\ SubSeq(s, k + 1, Len(s)) \in Seq(Tasks)
      BY <2>1, <2>3, SubSeqProperties
    <2>. QED BY <2>2, <2>4, ConcatProperties
  <1>2. CASE ~Contains(s, t)
    BY <1>2 DEF Unlink
  <1>. QED BY <1>1, <1>2

-----------------------------------------------------------------------------
(* Types *)

\* Every step of the runtime keeps every variable in its type.
LEMMA TypeStep == Inv /\ [Next]_vars => TypeOK'
  <1> SUFFICES ASSUME Inv, [Next]_vars PROVE TypeOK'
    OBVIOUS
  <1> USE DEF RuntimeStates, TaskStates, Steps
  <1>0. TypeOK /\ 0 \in Ids
    BY DEF Inv, Ids
  <1>1. ASSUME UNCHANGED vars PROVE TypeOK'
    BY <1>0, <1>1 DEF TypeOK, vars, lists, pools, taskVars, control
  <1>2. ASSUME RuntimeInit \/ DestroyReturns PROVE TypeOK'
    <2>1. <<>> \in Seq(Tasks) /\ Cleared \in Contexts
      BY EmptySeq DEF Cleared, Contexts
    <2>2. CASE RuntimeInit
      BY <1>0, <2>1, <2>2 DEF TypeOK, RuntimeInit, taskVars
    <2>3. CASE DestroyReturns
      BY <1>0, <2>1, <2>3 DEF TypeOK, DestroyReturns, taskVars
    <2>. QED BY <1>2, <2>2, <2>3
  <1>3. ASSUME NEW t \in Tasks, CreateAllocates(t) PROVE TypeOK'
    BY <1>0, <1>3 DEF TypeOK, CreateAllocates, lists, taskVars
  <1>4. ASSUME NEW i \in Ids, CreateTakesId(i) PROVE TypeOK'
    BY <1>0, <1>4 DEF TypeOK, CreateTakesId, lists, taskVars
  <1>5. ASSUME CreateFindsNoId PROVE TypeOK'
    BY <1>0, <1>5 DEF TypeOK, CreateFindsNoId, CreateReturns, lists, taskVars
  <1>6. ASSUME NEW r \in Regions, CreateMapsStack(r) PROVE TypeOK'
    <2>1. [stack |-> r, at |-> "start"] \in Contexts
      BY DEF Contexts, Stacks
    <2>. QED BY <1>0, <1>6, <2>1 DEF TypeOK, CreateMapsStack, lists
  <1>7. ASSUME CreateReserveFails \/ \E r \in Regions : CreateProtectFails(r)
        PROVE  TypeOK'
    <2>1. mapped' \subseteq Regions /\ lost' \subseteq Regions /\ CreateRollsBack
      BY <1>0, <1>7 DEF TypeOK, CreateReserveFails, CreateProtectFails, Released
    <2>. QED BY <1>0, <2>1 DEF TypeOK, CreateRollsBack, CreateReturns, lists, taskVars
  <1>8. ASSUME CreatePublishes PROVE TypeOK'
    <2>1. arg \in Tasks
      BY <1>8 DEF Inv, AccountInv, ArgInv, Creating, CreatePublishes, At, Executing
    <2>2. Append(rtTasks, arg) \in Seq(Tasks) /\ Append(readyQueue, arg) \in Seq(Tasks)
      BY <1>0, <2>1, AppendProperties DEF TypeOK
    <2>. QED BY <1>0, <1>8, <2>2 DEF TypeOK, CreatePublishes, Admitted, CreateReturns
  <1>9. ASSUME RunCall PROVE TypeOK'
    <2>1. cpu \in Stacks
      BY <1>0, <1>9 DEF TypeOK, RunCall, Saved, At, Executing, Stacks
    <2>2. [stack |-> cpu, at |-> "run"] \in Contexts
      BY <2>1 DEF Contexts
    <2>. QED BY <1>0, <1>9, <2>2 DEF TypeOK, RunCall, Saved, lists, pools, taskVars
  <1>10. ASSUME YieldCall PROVE TypeOK'
    <2>1. cpu \in Stacks
      BY <1>0, <1>10 DEF TypeOK, YieldCall, At, Executing, Stacks
    <2>2. [stack |-> cpu, at |-> "yield"] \in Contexts
      BY <2>1 DEF Contexts
    <2>. QED BY <1>0, <1>10, <2>2 DEF TypeOK, YieldCall, Saved, lists, pools
  <1>11. ASSUME TaskExit PROVE TypeOK'
    <2>1. current \in Tasks
      BY <1>0, <1>11 DEF TypeOK, TaskExit
    <2>2. Unlink(rtTasks, current) \in Seq(Tasks) /\ Append(rtZombies, current) \in Seq(Tasks)
      BY <1>0, <2>1, UnlinkType, AppendProperties DEF TypeOK
    <2>. QED BY <1>0, <1>11, <2>2 DEF TypeOK, TaskExit, pools
  <1>12. ASSUME NEW c \in Contexts
         PROVE  c.stack \in Stacks \cup {NULL} /\ Spent(c) \in Contexts
    BY DEF Contexts, Spent
  <1>13. ASSUME ResumeMain PROVE TypeOK'
    <2>1. mainCtx \in Contexts
      BY <1>0 DEF TypeOK
    <2>2. mainCtx.stack \in Stacks \cup {NULL} /\ Spent(mainCtx) \in Contexts
      BY <1>12, <2>1
    <2>. QED BY <1>0, <1>13, <2>2 DEF TypeOK, ResumeMain, Load, lists, pools, taskVars
  <1>14. ASSUME ResumeTask PROVE TypeOK'
    <2>1. Readmitted \in Seq(Tasks)
      BY <1>0, AppendProperties DEF TypeOK, Readmitted, Admitted
    <2>2. Head(Readmitted) \in Tasks /\ Tail(Readmitted) \in Seq(Tasks)
      BY <1>14, <2>1, HeadTailProperties DEF ResumeTask
    <2>3. tCtx[Head(Readmitted)] \in Contexts
      BY <1>0, <2>2 DEF TypeOK
    <2>4. /\ tCtx[Head(Readmitted)].stack \in Stacks \cup {NULL}
          /\ Spent(tCtx[Head(Readmitted)]) \in Contexts
      BY <1>12, <2>3
    <2>. QED BY <1>0, <1>14, <2>2, <2>4 DEF TypeOK, ResumeTask, Dequeued, Load, pools
  <1>15. ASSUME DestroyUnmaps PROVE TypeOK'
    <2>1. LoopList \in Seq(Tasks) /\ LoopList # <<>>
      BY <1>0, <1>15 DEF TypeOK, LoopList, DestroyUnmaps
    <2>2. Head(LoopList) \in Tasks /\ Tail(LoopList) \in Seq(Tasks)
      BY <2>1, HeadTailProperties
    <2>3. Cleared \in Contexts
      BY DEF Cleared, Contexts
    <2>4. rtTasks' \in Seq(Tasks) /\ rtZombies' \in Seq(Tasks)
      BY <1>0, <1>15, <2>2 DEF TypeOK, DestroyUnmaps, LoopList
    <2>5. mapped' \subseteq Regions /\ lost' \subseteq Regions
      <3>1. Head(LoopList) \in Owned
        BY <2>1, HeadTailFacts DEF LoopList, Owned
      <3>2. tStack[Head(LoopList)] \in Regions
        BY <1>0, <1>15, <3>1 DEF Inv, ExecutionInv, StacksInv, StackOwners, TypeOK,
           DestroyUnmaps, InLoop, Executing
      <3>. QED BY <1>0, <1>15, <3>2 DEF TypeOK, DestroyUnmaps, Released
    <2>6. /\ arg' \in Tasks /\ argId' \in Ids
          /\ tState' \in [Tasks -> TaskStates] /\ tId' \in [Tasks -> Ids]
          /\ tStack' \in [Tasks -> Regions \cup {NULL}] /\ tCtx' \in [Tasks -> Contexts]
      BY <1>0, <1>15, <2>2, <2>3 DEF TypeOK, DestroyUnmaps
    <2>. QED BY <1>0, <1>15, <2>4, <2>5, <2>6 DEF TypeOK, DestroyUnmaps
  <1>16. ASSUME DestroyFrees PROVE TypeOK'
    BY <1>0, <1>16 DEF TypeOK, DestroyFrees, lists, taskVars
  <1>17. ASSUME DestroyCall \/ DestroyTurnsToZombies \/ ReapReturns PROVE TypeOK'
    BY <1>0, <1>17 DEF TypeOK, DestroyCall, DestroyTurnsToZombies, ReapReturns,
       lists, pools, taskVars
  <1>18. ASSUME MisusePanics \/ ExecutionFaults PROVE TypeOK'
    BY <1>0, <1>18 DEF TypeOK, MisusePanics, ExecutionFaults, lists, pools, taskVars
  <1>. QED BY <1>1, <1>2, <1>3, <1>4, <1>5, <1>6, <1>7, <1>8, <1>9, <1>10, <1>11,
          <1>13, <1>14, <1>15, <1>16, <1>17, <1>18
          DEF Next, CreateTask, Execute, DestroyTasks, Schedule, InitFails, ProcessEnded
-----------------------------------------------------------------------------
(* Accounts: one lemma per operation *)

\* gt_create_task, from the allocation of the record to its publication.
LEMMA CreateAccounts ==
    ASSUME TypeOK, AccountInv, outcome' = "ok", CreateTask PROVE AccountInv'
  <1> USE DEF AccountInv, Owned, TasksInFlight, IdsInFlight, IdInFlight, Creating, Looping, Destroying
  <1>1. ASSUME NEW t \in Tasks, CreateAllocates(t) PROVE AccountInv'
    <2>1. pc = "user" /\ arg = NULL /\ t \notin heap /\ t # NULL
      BY <1>1 DEF CreateAllocates, At, Executing, ArgInv
    <2> USE <1>1, <2>1 DEF CreateAllocates, lists, taskVars
    <2>2. ArgInv'
      BY DEF ArgInv
    <2>3. StateInv'
      BY DEF StateInv
    <2>4. ListsInv'
      BY DEF ListsInv
    <2>5. CountInv'
      BY DEF CountInv
    <2>6. IdsInv'
      BY DEF IdsInv
    <2>7. ReadyInv'
      BY DEF ReadyInv
    <2>. QED BY <2>2, <2>3, <2>4, <2>5, <2>6, <2>7
  <1>2. ASSUME NEW i \in Ids, CreateTakesId(i) PROVE AccountInv'
    <2>1. pc = "create_id" /\ arg \in Tasks /\ arg # NULL /\ i \notin taskIds
      BY <1>2 DEF CreateTakesId, At, Executing, ArgInv
    <2> USE <1>2, <2>1 DEF CreateTakesId, lists, taskVars
    <2>2. ArgInv'
      BY DEF ArgInv
    <2>3. StateInv'
      BY DEF StateInv
    <2>4. ListsInv'
      BY DEF ListsInv
    <2>5. CountInv'
      BY DEF CountInv
    <2>6. IdsInv'
      BY DEF IdsInv
    <2>7. ReadyInv'
      BY DEF ReadyInv
    <2>. QED BY <2>2, <2>3, <2>4, <2>5, <2>6, <2>7
  <1>3. ASSUME CreateFindsNoId PROVE AccountInv'
    <2>1. pc = "create_id" /\ arg \in Tasks /\ arg # NULL
      BY <1>3 DEF CreateFindsNoId, At, Executing, ArgInv
    <2> USE <1>3, <2>1 DEF CreateFindsNoId, CreateReturns, lists, taskVars
    <2>2. ArgInv'
      BY DEF ArgInv
    <2>3. StateInv'
      BY DEF StateInv
    <2>4. ListsInv'
      BY DEF ListsInv
    <2>5. CountInv'
      BY DEF CountInv
    <2>6. IdsInv'
      BY DEF IdsInv
    <2>7. ReadyInv'
      BY DEF ReadyInv
    <2>. QED BY <2>2, <2>3, <2>4, <2>5, <2>6, <2>7
  <1>4. ASSUME NEW r \in Regions, CreateMapsStack(r) PROVE AccountInv'
    <2>1. pc = "create_stack" /\ arg \in Tasks /\ arg # NULL /\ arg \notin Owned
      BY <1>4 DEF CreateMapsStack, At, Executing, ArgInv, ListsInv
    <2>2. /\ \A u \in Tasks \ {arg} : tState'[u] = tState[u] /\ tId'[u] = tId[u]
          /\ tId'[arg] = argId
      BY <1>4, <2>1 DEF TypeOK, CreateMapsStack
    <2>3. Owned \subseteq Tasks /\ (current # NULL => current \in Tasks)
      BY DEF TypeOK, ToSet
    <2> USE <1>4, <2>1, <2>2, <2>3 DEF CreateMapsStack, lists
    <2>4. ArgInv'
      BY DEF ArgInv
    <2>5. StateInv'
      BY DEF StateInv
    <2>6. ListsInv'
      BY DEF ListsInv
    <2>7. CountInv'
      BY DEF CountInv
    <2>8. IdsInv'
      BY DEF IdsInv
    <2>9. ReadyInv'
      BY DEF ReadyInv
    <2>. QED BY <2>4, <2>5, <2>6, <2>7, <2>8, <2>9
  <1>5. ASSUME CreateReserveFails \/ \E r \in Regions : CreateProtectFails(r)
        PROVE  AccountInv'
    <2>1. pc = "create_stack" /\ arg \in Tasks /\ arg # NULL /\ CreateRollsBack
      BY <1>5 DEF CreateReserveFails, CreateProtectFails, At, Executing, ArgInv
    <2> USE <2>1 DEF CreateRollsBack, CreateReturns, lists, taskVars
    <2>2. ArgInv'
      BY DEF ArgInv
    <2>3. StateInv'
      BY DEF StateInv
    <2>4. ListsInv'
      BY DEF ListsInv
    <2>5. CountInv'
      BY DEF CountInv
    <2>6. IdsInv'
      BY DEF IdsInv
    <2>7. ReadyInv'
      BY DEF ReadyInv
    <2>. QED BY <2>2, <2>3, <2>4, <2>5, <2>6, <2>7
  <1>6. ASSUME CreatePublishes PROVE AccountInv'
    <2>1. /\ pc = "create_publish" /\ arg \in Tasks /\ arg # NULL
          /\ arg \notin Owned /\ arg \notin ToSet(rtTasks)
      BY <1>6 DEF CreatePublishes, At, Executing, ArgInv, ListsInv
    <2>2. /\ \A u \in Tasks \ {arg} : tState'[u] = tState[u]
          /\ tState'[arg] = "READY"
      BY <1>6, <2>1 DEF TypeOK, CreatePublishes
    <2>3. /\ ToSet(rtTasks) \subseteq Tasks /\ ToSet(rtZombies) \subseteq Tasks
          /\ ToSet(readyQueue) \subseteq ToSet(rtTasks)
          /\ (current # NULL => current \in Tasks)
      BY <2>1 DEF TypeOK, ToSet, ReadyInv
    <2>4. /\ ToSet(rtTasks') = ToSet(rtTasks) \cup {arg} /\ IsInjective(rtTasks')
          /\ Len(rtTasks') = Len(rtTasks) + 1
      BY <1>6, <2>1, AppendFacts DEF TypeOK, CreatePublishes, ListsInv
    <2>5. ToSet(readyQueue') = ToSet(readyQueue) \cup {arg} /\ IsInjective(readyQueue')
      BY <1>6, <2>1, <2>3, AppendFacts DEF TypeOK, CreatePublishes, Admitted, ReadyInv
    <2>6. Len(rtTasks) \in Nat /\ Len(rtZombies) \in Nat
      BY LenProperties DEF TypeOK
    <2>7. /\ rtZombies' = rtZombies /\ heap' = heap /\ taskIds' = taskIds
          /\ tId' = tId /\ current' = current /\ rtState' = rtState
          /\ pageReady' = pageReady
          /\ taskCount' = taskCount + 1
          /\ pc' = "user" /\ arg' = NULL
      BY <1>6 DEF CreatePublishes, CreateReturns
    <2> USE <2>1, <2>2, <2>3, <2>4, <2>5, <2>6, <2>7
    <2>8. ArgInv'
      BY DEF ArgInv
    <2>9. StateInv'
      BY DEF StateInv
    <2>10. ListsInv'
      BY DEF ListsInv
    <2>11. CountInv'
      BY DEF CountInv
    <2>12. IdsInv'
      BY DEF IdsInv
    <2>13. ReadyInv'
      BY DEF ReadyInv
    <2>. QED BY <2>8, <2>9, <2>10, <2>11, <2>12, <2>13
  <1>. QED BY <1>1, <1>2, <1>3, <1>4, <1>5, <1>6 DEF CreateTask

\* gt_run, gt_yield, the end of a task and the scheduler.
LEMMA ScheduleAccounts ==
    ASSUME TypeOK, AccountInv, outcome' = "ok",
           RunCall \/ YieldCall \/ TaskExit \/ Schedule, ExecutionInv
    PROVE  AccountInv'
  <1> USE DEF AccountInv, Owned, TasksInFlight, IdsInFlight, IdInFlight, Creating, Looping, Destroying
  <1>0. /\ ToSet(rtTasks) \subseteq Tasks /\ ToSet(rtZombies) \subseteq Tasks
        /\ ToSet(readyQueue) \subseteq Tasks
        /\ Len(rtTasks) \in Nat /\ Len(rtZombies) \in Nat
    BY LenProperties DEF TypeOK, ToSet
  <1>1. ASSUME RunCall PROVE AccountInv'
    <2>1. pc = "user" /\ arg = NULL /\ current = NULL
      BY <1>1 DEF RunCall, At, Executing, ArgInv, ExecutionInv, CpuInv
    <2> USE <1>0, <1>1, <2>1 DEF RunCall, lists, pools, taskVars
    <2>2. ArgInv'
      BY DEF ArgInv
    <2>3. StateInv'
      BY DEF StateInv
    <2>4. ListsInv'
      BY DEF ListsInv
    <2>5. CountInv'
      BY DEF CountInv
    <2>6. IdsInv'
      BY DEF IdsInv
    <2>7. ReadyInv'
      BY DEF ReadyInv
    <2>. QED BY <2>2, <2>3, <2>4, <2>5, <2>6, <2>7
  <1>2. ASSUME YieldCall PROVE AccountInv'
    <2>1. /\ pc = "user" /\ arg = NULL /\ current # NULL /\ current \in Tasks
          /\ current \in ToSet(rtTasks) /\ tState[current] = "RUNNING"
          /\ rtState = "RUNNING"
      BY <1>2 DEF YieldCall, At, Executing, ArgInv, ReadyInv, TypeOK, ExecutionInv,
         CpuInv
    <2>2. /\ \A u \in Tasks \ {current} : tState'[u] = tState[u]
          /\ tState'[current] = "READY"
      BY <1>2, <2>1 DEF TypeOK, YieldCall
    <2>3. /\ UNCHANGED <<lists, pools, tId, rtState, current>>
          /\ pc' = "schedule" /\ arg' = current
      BY <1>2 DEF YieldCall
    <2> USE <1>0, <2>1, <2>2, <2>3 DEF lists, pools
    <2>4. ArgInv'
      BY DEF ArgInv
    <2>5. StateInv'
      BY DEF StateInv
    <2>6. ListsInv'
      BY DEF ListsInv
    <2>7. CountInv'
      BY DEF CountInv
    <2>8. IdsInv'
      BY DEF IdsInv
    <2>9. ReadyInv'
      BY DEF ReadyInv
    <2>. QED BY <2>4, <2>5, <2>6, <2>7, <2>8, <2>9
  <1>3. ASSUME TaskExit PROVE AccountInv'
    <2>1. /\ pc = "user" /\ arg = NULL /\ current # NULL /\ current \in Tasks
          /\ current \in ToSet(rtTasks) /\ tState[current] = "RUNNING"
          /\ current \notin ToSet(rtZombies) /\ rtState = "RUNNING"
      BY <1>3 DEF TaskExit, At, Executing, ArgInv, ReadyInv, TypeOK, ListsInv,
         ExecutionInv, CpuInv
    <2>2. /\ \A u \in Tasks \ {current} : tState'[u] = tState[u]
          /\ tState'[current] = "ZOMBIE"
      BY <1>3, <2>1 DEF TypeOK, TaskExit
    <2>3. /\ UNCHANGED <<readyQueue, pools, tId, rtState>>
          /\ pc' = "schedule" /\ arg' = NULL /\ current' = NULL
      BY <1>3 DEF TaskExit
    <2>4. /\ ToSet(rtTasks') = ToSet(rtTasks) \ {current} /\ IsInjective(rtTasks')
          /\ Len(rtTasks') = Len(rtTasks) - 1
      BY <1>3, <2>1, UnlinkFacts DEF TypeOK, TaskExit, ListsInv
    <2>5. /\ ToSet(rtZombies') = ToSet(rtZombies) \cup {current}
          /\ IsInjective(rtZombies') /\ Len(rtZombies') = Len(rtZombies) + 1
      BY <1>3, <2>1, AppendFacts DEF TypeOK, TaskExit, ListsInv
    <2>6. ToSet(rtTasks') \cup ToSet(rtZombies') = ToSet(rtTasks) \cup ToSet(rtZombies)
      BY <2>1, <2>4, <2>5
    <2> USE <1>0, <2>1, <2>2, <2>3, <2>4, <2>5, <2>6 DEF pools
    <2>7. ArgInv'
      BY DEF ArgInv
    <2>8. StateInv'
      BY DEF StateInv
    <2>9. ListsInv'
      BY DEF ListsInv
    <2>10. CountInv'
      BY DEF CountInv
    <2>11. IdsInv'
      BY DEF IdsInv
    <2>12. ReadyInv'
      BY DEF ReadyInv
    <2>. QED BY <2>7, <2>8, <2>9, <2>10, <2>11, <2>12
  <1>4. ASSUME ResumeMain PROVE AccountInv'
    <2>1. pc = "schedule" /\ Readmitted = <<>> /\ pc' \in {"user", "reap"}
      BY <1>4 DEF ResumeMain, Load, At, Executing
    <2>2. arg = NULL /\ readyQueue = <<>>
      <3>1. CASE arg # NULL
        <4>1. Readmitted = Append(readyQueue, arg) /\ arg \in Tasks
          BY <2>1, <3>1 DEF Readmitted, Admitted, ArgInv, TypeOK
        <4>. QED BY <2>1, <4>1, AppendProperties DEF TypeOK
      <3>2. CASE arg = NULL
        BY <2>1, <3>2 DEF Readmitted, Admitted
      <3>. QED BY <3>1, <3>2
    <2>3. /\ UNCHANGED <<lists, pools, taskVars>>
          /\ arg' = NULL /\ current' = NULL /\ rtState' = "STOPPED"
      BY <1>4 DEF ResumeMain
    <2>. rtTasks = <<>>
      <3>1. current = NULL /\ ToSet(readyQueue) = {} /\ NULL \notin ToSet(rtTasks)
        BY <1>0, <2>1, <2>2, EmptySeq DEF ArgInv, ToSet
      <3>2. ToSet(rtTasks) = {}
        BY <1>0, <2>1, <2>2, <3>1 DEF ReadyInv, ExecutionInv, TaskStatesInv
      <3>. QED BY <3>2, HeadTailFacts DEF TypeOK
    <2> USE <1>0, <2>1, <2>2, <2>3 DEF lists, pools, taskVars
    <2>4. ArgInv'
      BY DEF ArgInv
    <2>5. StateInv'
      BY DEF StateInv
    <2>6. ListsInv'
      BY DEF ListsInv
    <2>7. CountInv'
      BY DEF CountInv
    <2>8. IdsInv'
      BY DEF IdsInv
    <2>9. ReadyInv'
      BY DEF ReadyInv
    <2>. QED BY <2>4, <2>5, <2>6, <2>7, <2>8, <2>9
  <1>5. ASSUME ResumeTask PROVE AccountInv'
    <2> DEFINE next == Head(Readmitted)
    <2>1. pc = "schedule" /\ Readmitted # <<>>
      BY <1>5 DEF ResumeTask, At, Executing
    <2>2. /\ Readmitted \in Seq(Tasks) /\ IsInjective(Readmitted)
          /\ ToSet(Readmitted) = {t \in ToSet(rtTasks) : tState[t] = "READY"}
      <3>1. CASE arg # NULL
        <4>1. /\ Readmitted = Append(readyQueue, arg) /\ arg \in Tasks
              /\ arg \in ToSet(rtTasks) /\ tState[arg] = "READY"
              /\ arg \notin ToSet(readyQueue)
          BY <2>1, <3>1 DEF Readmitted, Admitted, ArgInv, ReadyInv, TypeOK
        <4>. QED BY <2>1, <4>1, AppendFacts DEF TypeOK, ReadyInv
      <3>2. CASE arg = NULL
        BY <1>0, <2>1, <3>2 DEF Readmitted, Admitted, ReadyInv, TypeOK
      <3>. QED BY <3>1, <3>2
    <2>3. /\ next \in Tasks /\ next \in ToSet(rtTasks) /\ next # NULL
          /\ tState[next] = "READY"
          /\ IsInjective(Tail(Readmitted))
          /\ ToSet(Tail(Readmitted)) = ToSet(Readmitted) \ {next}
      BY <2>1, <2>2, HeadTailFacts
    <2>4. /\ \A u \in Tasks \ {next} : tState'[u] = tState[u]
          /\ tState'[next] = "RUNNING"
      BY <1>5, <2>3 DEF TypeOK, ResumeTask
    <2>. pc' = "user"
      <3>1. next \in Waiting
        BY <2>1, <2>2, <2>3 DEF Waiting, ReadyInv, ArgInv
      <3>2. tCtx[next].at # "run"
        BY <2>1, <3>1 DEF ExecutionInv, ContextsInv
      <3>. QED BY <1>5, <3>2 DEF ResumeTask, Load
    <2>5. /\ UNCHANGED <<rtTasks, rtZombies, pools, tId, rtState>>
          /\ readyQueue' = Tail(Readmitted) /\ current' = next /\ arg' = NULL
      BY <1>5 DEF ResumeTask, Dequeued
    <2> HIDE DEF next
    <2> USE <1>0, <2>1, <2>2, <2>3, <2>4, <2>5 DEF pools
    <2>6. ArgInv'
      BY DEF ArgInv
    <2>7. StateInv'
      BY DEF StateInv
    <2>8. ListsInv'
      BY DEF ListsInv
    <2>9. CountInv'
      BY DEF CountInv
    <2>10. IdsInv'
      BY DEF IdsInv
    <2>11. ReadyInv'
      BY DEF ReadyInv
    <2>. QED BY <2>6, <2>7, <2>8, <2>9, <2>10, <2>11
  <1>. QED BY <1>1, <1>2, <1>3, <1>4, <1>5 DEF Schedule

\* gt_init, gt_destroy and the reaping of zombies.
LEMMA DestroyAccounts ==
    ASSUME TypeOK, AccountInv, outcome' = "ok",
           RuntimeInit \/ DestroyCall \/ DestroyTasks
    PROVE  AccountInv'
  <1> USE DEF AccountInv, Owned, TasksInFlight, IdsInFlight, IdInFlight, Creating, Looping, Destroying
  <1>0. /\ ToSet(rtTasks) \subseteq Tasks /\ ToSet(rtZombies) \subseteq Tasks
        /\ Len(rtTasks) \in Nat /\ Len(rtZombies) \in Nat
        /\ ToSet(<<>>) = {} /\ IsInjective(<<>>) /\ Len(<<>>) = 0
    BY LenProperties, EmptySeq DEF TypeOK, ToSet, IsInjective
  <1>1. ASSUME RuntimeInit PROVE AccountInv'
    <2>1. /\ pc = "user" /\ arg = NULL /\ rtTasks = <<>> /\ rtZombies = <<>>
          /\ current = NULL
      BY <1>1 DEF RuntimeInit, At, Executing, ArgInv, StateInv
    <2>2. heap = {}
      BY <1>0, <2>1 DEF ListsInv
    <2> USE <1>0, <1>1, <2>1, <2>2 DEF RuntimeInit, taskVars
    <2>3. ArgInv'
      BY DEF ArgInv
    <2>4. StateInv'
      BY DEF StateInv
    <2>5. ListsInv'
      BY DEF ListsInv
    <2>6. CountInv'
      BY DEF CountInv
    <2>7. IdsInv'
      BY DEF IdsInv
    <2>8. ReadyInv'
      BY DEF ReadyInv
    <2>. QED BY <2>3, <2>4, <2>5, <2>6, <2>7, <2>8
  <1>2. ASSUME DestroyCall PROVE AccountInv'
    <2>1. pc = "user" /\ arg = NULL /\ rtState # "UNINITIALIZED"
      BY <1>2 DEF DestroyCall, At, Executing, ArgInv
    <2> USE <1>0, <1>2, <2>1 DEF DestroyCall, lists, pools, taskVars
    <2>2. ArgInv'
      BY DEF ArgInv
    <2>3. StateInv'
      BY DEF StateInv
    <2>4. ListsInv'
      BY DEF ListsInv
    <2>5. CountInv'
      BY DEF CountInv
    <2>6. IdsInv'
      BY DEF IdsInv
    <2>7. ReadyInv'
      BY DEF ReadyInv
    <2>. QED BY <2>2, <2>3, <2>4, <2>5, <2>6, <2>7
  <1>3. ASSUME DestroyTurnsToZombies PROVE AccountInv'
    <2>1. pc = "destroy_tasks" /\ arg = NULL /\ rtTasks = <<>>
      BY <1>3 DEF DestroyTurnsToZombies, At, Executing
    <2> USE <1>0, <1>3, <2>1 DEF DestroyTurnsToZombies, lists, pools, taskVars
    <2>2. ArgInv'
      BY DEF ArgInv
    <2>3. StateInv'
      BY DEF StateInv
    <2>4. ListsInv'
      BY DEF ListsInv
    <2>5. CountInv'
      BY DEF CountInv
    <2>6. IdsInv'
      BY DEF IdsInv
    <2>7. ReadyInv'
      BY DEF ReadyInv
    <2>. QED BY <2>2, <2>3, <2>4, <2>5, <2>6, <2>7
  <1>4. ASSUME ReapReturns PROVE AccountInv'
    <2>1. pc = "reap" /\ arg = NULL
      BY <1>4 DEF ReapReturns, At, Executing
    <2> USE <1>0, <1>4, <2>1 DEF ReapReturns, lists, pools, taskVars
    <2>2. ArgInv'
      BY DEF ArgInv
    <2>3. StateInv'
      BY DEF StateInv
    <2>4. ListsInv'
      BY DEF ListsInv
    <2>5. CountInv'
      BY DEF CountInv
    <2>6. IdsInv'
      BY DEF IdsInv
    <2>7. ReadyInv'
      BY DEF ReadyInv
    <2>. QED BY <2>2, <2>3, <2>4, <2>5, <2>6, <2>7
  <1>5. ASSUME DestroyReturns PROVE AccountInv'
    <2>1. /\ pc = "destroy_zombies" /\ arg = NULL
          /\ rtTasks = <<>> /\ rtZombies = <<>>
      BY <1>5 DEF DestroyReturns, At, Executing, StateInv
    <2>2. heap = {}
      BY <1>0, <2>1 DEF ListsInv
    <2> USE <1>0, <1>5, <2>1, <2>2 DEF DestroyReturns, taskVars
    <2>3. ArgInv'
      BY DEF ArgInv
    <2>4. StateInv'
      BY DEF StateInv
    <2>5. ListsInv'
      BY DEF ListsInv
    <2>6. CountInv'
      BY DEF CountInv
    <2>7. IdsInv'
      BY DEF IdsInv
    <2>8. ReadyInv'
      BY DEF ReadyInv
    <2>. QED BY <2>3, <2>4, <2>5, <2>6, <2>7, <2>8
  <1>6. ASSUME DestroyFrees PROVE AccountInv'
    <2>1. /\ Looping /\ arg # NULL /\ arg \in Tasks /\ argId \in taskIds /\ taskCount > 0
      BY <1>6 DEF DestroyFrees, InLoop, TypeOK
    <2>2. /\ UNCHANGED <<rtTasks, rtZombies, readyQueue, tState, tId, current, rtState, pc,
                       pageReady>>
          /\ arg' = NULL /\ heap' = heap \ {arg} /\ taskIds' = taskIds \ {argId}
          /\ taskCount' = taskCount - 1
      BY <1>6, <2>1 DEF DestroyFrees, lists, taskVars
    <2> USE <1>0, <2>1, <2>2
    <2>3. ArgInv'
      BY DEF ArgInv
    <2>4. StateInv'
      BY DEF StateInv
    <2>5. ListsInv'
      BY DEF ListsInv
    <2>6. CountInv'
      BY DEF CountInv
    <2>7. IdsInv'
      BY DEF IdsInv
    <2>8. ReadyInv'
      BY DEF ReadyInv
    <2>. QED BY <2>3, <2>4, <2>5, <2>6, <2>7, <2>8
  <1>7. ASSUME DestroyUnmaps PROVE AccountInv'
    <2> DEFINE t == Head(LoopList)
    <2>1. /\ Looping /\ arg = NULL /\ LoopList # <<>>
          /\ LoopList = IF pc = "destroy_tasks" THEN rtTasks ELSE rtZombies
      BY <1>7 DEF DestroyUnmaps, InLoop, LoopList
    <2>2. /\ LoopList \in Seq(Tasks) /\ IsInjective(LoopList)
      BY <2>1 DEF TypeOK, ListsInv
    <2>3. /\ t \in Tasks /\ t # NULL /\ t \in ToSet(LoopList)
          /\ IsInjective(Tail(LoopList))
          /\ ToSet(Tail(LoopList)) = ToSet(LoopList) \ {t}
          /\ Len(LoopList) = Len(Tail(LoopList)) + 1
          /\ Len(Tail(LoopList)) \in Nat
      BY <2>1, <2>2, HeadTailFacts, LenProperties
    <2>4. /\ \A u \in Tasks \ {t} : tState'[u] = tState[u] /\ tId'[u] = tId[u]
          /\ arg' = t /\ argId' = tId[t]
          /\ UNCHANGED <<readyQueue, taskIds, taskCount, heap, current, rtState, pc,
                       pageReady>>
      BY <1>7, <2>3 DEF TypeOK, DestroyUnmaps
    <2>5. IF pc = "destroy_tasks"
          THEN rtTasks' = Tail(LoopList) /\ rtZombies' = rtZombies
          ELSE rtZombies' = Tail(LoopList) /\ rtTasks' = rtTasks
      BY <1>7, <2>1 DEF DestroyUnmaps
    <2> HIDE DEF t
    <2>6. /\ IsInjective(rtTasks') /\ IsInjective(rtZombies')
          /\ ToSet(rtTasks') \cap ToSet(rtZombies') = {}
          /\ ToSet(rtTasks') \cup ToSet(rtZombies') = Owned \ {t}
          /\ t \in Owned
          /\ Len(rtTasks) + Len(rtZombies) = Len(rtTasks') + Len(rtZombies') + 1
      <3>1. CASE pc = "destroy_tasks"
        <4>1. LoopList = rtTasks /\ rtTasks' = Tail(LoopList) /\ rtZombies' = rtZombies
          BY <2>1, <2>5, <3>1
        <4>2. t \notin ToSet(rtZombies) /\ t \in ToSet(rtTasks)
          BY <2>3, <4>1 DEF ListsInv
        <4>3. Len(rtTasks) + Len(rtZombies) = Len(rtTasks') + Len(rtZombies') + 1
          BY <1>0, <2>3, <4>1
        <4>. QED BY <2>3, <4>1, <4>2, <4>3 DEF ListsInv
      <3>2. CASE pc # "destroy_tasks"
        <4>1. LoopList = rtZombies /\ rtZombies' = Tail(LoopList) /\ rtTasks' = rtTasks
          BY <2>1, <2>5, <3>2
        <4>2. t \notin ToSet(rtTasks) /\ t \in ToSet(rtZombies)
          BY <2>3, <4>1 DEF ListsInv
        <4>3. Len(rtTasks) + Len(rtZombies) = Len(rtTasks') + Len(rtZombies') + 1
          BY <1>0, <2>3, <4>1
        <4>. QED BY <2>3, <4>1, <4>2, <4>3 DEF ListsInv
      <3>. QED BY <3>1, <3>2
    <2>7. pc # "destroy_tasks" => rtTasks' = rtTasks /\ t \notin ToSet(rtTasks)
      BY <2>1, <2>3, <2>5 DEF ListsInv
    <2>8. Len(rtTasks') \in Nat /\ Len(rtZombies') \in Nat
      BY <1>0, <2>3, <2>5
    <2> USE <1>0, <2>1, <2>3, <2>4, <2>6, <2>7, <2>8
    <2>9. ArgInv'
      BY DEF ArgInv
    <2>10. StateInv'
      BY <2>5 DEF StateInv
    <2>11. ListsInv'
      BY DEF ListsInv
    <2>12. CountInv'
      BY DEF CountInv
    <2>13. IdsInv'
      BY DEF IdsInv
    <2>14. ReadyInv'
      BY DEF ReadyInv
    <2>. QED BY <2>9, <2>10, <2>11, <2>12, <2>13, <2>14
  <1>. QED BY <1>1, <1>2, <1>3, <1>4, <1>5, <1>6, <1>7 DEF DestroyTasks

-----------------------------------------------------------------------------
(* The execution path *)

\* gt_create_task, from the allocation of the record to its publication.
LEMMA CreateExecution ==
    ASSUME TypeOK, AccountInv, ExecutionInv, outcome' = "ok", CreateTask
    PROVE  ExecutionInv'
  <1> USE DEF Owned, StackOwners, Foreign, Destroying, Waiting
  <1>0. /\ ToSet(rtTasks) \subseteq Tasks /\ ToSet(rtZombies) \subseteq Tasks
        /\ ToSet(readyQueue) \subseteq Tasks
        /\ ArgInv /\ StateInv /\ ListsInv /\ ReadyInv
        /\ StacksInv /\ TaskStatesInv /\ CpuInv /\ ContextsInv
    BY DEF TypeOK, ToSet, AccountInv, ExecutionInv
  <1>1. ASSUME pc \in {"user", "create_id", "create_stack"},
               pc' \in {"user", "create_id", "create_stack"},
               UNCHANGED <<lists, taskVars, mapped, lost, rtState, current, mainCtx, cpu>>
        PROVE  ExecutionInv'
    <2> USE <1>0, <1>1 DEF lists, taskVars
    <2>1. StacksInv'
      BY DEF StacksInv
    <2>2. TaskStatesInv'
      BY DEF TaskStatesInv
    <2>3. CpuInv'
      BY DEF CpuInv
    <2>4. ContextsInv'
      BY DEF ContextsInv
    <2>. QED BY <2>1, <2>2, <2>3, <2>4 DEF ExecutionInv
  <1>2. ASSUME \/ \E t \in Tasks : CreateAllocates(t)
               \/ \E i \in Ids : CreateTakesId(i)
               \/ CreateFindsNoId
               \/ CreateReserveFails
        PROVE  ExecutionInv'
    <2>1. /\ pc \in {"user", "create_id", "create_stack"}
          /\ pc' \in {"user", "create_id", "create_stack"}
          /\ UNCHANGED <<lists, taskVars, mapped, lost, rtState, current, mainCtx, cpu>>
      BY <1>2 DEF CreateAllocates, CreateTakesId, CreateFindsNoId, CreateReserveFails,
         CreateRollsBack, CreateReturns, At, Executing
    <2>. QED BY <1>1, <2>1
  <1>3. ASSUME NEW r \in Regions, CreateProtectFails(r) PROVE ExecutionInv'
    <2>1. /\ pc = "create_stack" /\ pc' = "user" /\ r \notin mapped
          /\ UNCHANGED <<lists, taskVars, rtState, current, mainCtx, cpu>>
          /\ Released(r)
      BY <1>3 DEF CreateProtectFails, CreateRollsBack, CreateReturns, At, Executing
    <2> USE <1>0, <2>1 DEF lists, taskVars, Released
    <2>2. StacksInv'
      BY DEF StacksInv
    <2>3. TaskStatesInv'
      BY DEF TaskStatesInv
    <2>4. CpuInv'
      BY DEF CpuInv
    <2>5. ContextsInv'
      BY DEF ContextsInv
    <2>. QED BY <2>2, <2>3, <2>4, <2>5 DEF ExecutionInv
  <1>4. ASSUME NEW r \in Regions, CreateMapsStack(r) PROVE ExecutionInv'
    <2>1. /\ pc = "create_stack" /\ pc' = "create_publish" /\ r \notin mapped
          /\ arg \in Tasks /\ arg # NULL /\ arg \notin Owned
          /\ UNCHANGED <<lists, lost, rtState, current, mainCtx, cpu, arg>>
          /\ mapped' = mapped \cup {r}
      BY <1>0, <1>4 DEF CreateMapsStack, At, Executing, ArgInv, ListsInv, Creating,
         TasksInFlight
    <2>2. /\ \A u \in Tasks \ {arg} : tState'[u] = tState[u] /\ tStack'[u] = tStack[u]
                                      /\ tCtx'[u] = tCtx[u]
          /\ tStack'[arg] = r /\ tCtx'[arg].at = "start" /\ tCtx'[arg].stack = r
          /\ tState'[arg] = "NEW"
      BY <1>4, <2>1 DEF TypeOK, CreateMapsStack
    <2>3. current # NULL => current \in ToSet(rtTasks)
      BY <1>0, <2>1 DEF ReadyInv
    <2>4. ToSet(readyQueue) \subseteq ToSet(rtTasks)
      BY <1>0, <2>1 DEF ReadyInv
    <2> USE <1>0, <2>1, <2>2, <2>3, <2>4 DEF lists
    <2>5. StacksInv'
      BY DEF StacksInv
    <2>6. TaskStatesInv'
      BY DEF TaskStatesInv
    <2>7. CpuInv'
      BY DEF CpuInv
    <2>8. ContextsInv'
      BY DEF ContextsInv
    <2>. QED BY <2>5, <2>6, <2>7, <2>8 DEF ExecutionInv
  <1>5. ASSUME CreatePublishes PROVE ExecutionInv'
    <2>1. /\ pc = "create_publish" /\ pc' = "user" /\ arg' = NULL
          /\ arg \in Tasks /\ arg # NULL /\ arg \notin Owned
          /\ UNCHANGED <<rtZombies, mapped, lost, tStack, tCtx, rtState, current,
                         mainCtx, cpu>>
      BY <1>0, <1>5 DEF CreatePublishes, CreateReturns, At, Executing, ArgInv,
         ListsInv, Creating, TasksInFlight
    <2>2. /\ \A u \in Tasks \ {arg} : tState'[u] = tState[u]
          /\ tState'[arg] = "READY"
      BY <1>5, <2>1 DEF TypeOK, CreatePublishes
    <2>3. /\ ToSet(rtTasks') = ToSet(rtTasks) \cup {arg}
          /\ ToSet(readyQueue') = ToSet(readyQueue) \cup {arg}
      BY <1>5, <2>1, AppendFacts DEF TypeOK, CreatePublishes, Admitted
    <2> USE <1>0, <2>1, <2>2, <2>3
    <2>4. StacksInv'
      BY DEF StacksInv
    <2>5. TaskStatesInv'
      BY DEF TaskStatesInv
    <2>6. CpuInv'
      BY DEF CpuInv
    <2>7. ContextsInv'
      BY DEF ContextsInv
    <2>. QED BY <2>4, <2>5, <2>6, <2>7 DEF ExecutionInv
  <1>. QED BY <1>2, <1>3, <1>4, <1>5 DEF CreateTask

\* gt_run, gt_yield, the end of a task and the scheduler.
LEMMA ScheduleExecution ==
    ASSUME TypeOK, AccountInv, ExecutionInv, outcome' = "ok",
           RunCall \/ YieldCall \/ TaskExit \/ Schedule
    PROVE  ExecutionInv'
  <1> USE DEF Owned, StackOwners, Foreign, Destroying, Waiting
  <1>0. /\ ToSet(rtTasks) \subseteq Tasks /\ ToSet(rtZombies) \subseteq Tasks
        /\ ToSet(readyQueue) \subseteq Tasks
        /\ ArgInv /\ StateInv /\ ListsInv /\ ReadyInv
        /\ StacksInv /\ TaskStatesInv /\ CpuInv /\ ContextsInv
    BY DEF TypeOK, ToSet, AccountInv, ExecutionInv
  <1>1. ASSUME RunCall PROVE ExecutionInv'
    <2>1. /\ pc = "user" /\ pc' = "schedule" /\ arg' = NULL /\ rtState # "RUNNING"
          /\ mainCtx'.stack = cpu /\ mainCtx'.at = "run"
          /\ UNCHANGED <<lists, pools, taskVars, current, cpu>>
      BY <1>1 DEF RunCall, Saved, At, Executing
    <2>2. cpu \in Foreign
      BY <1>0, <2>1 DEF CpuInv
    <2> USE <1>0, <2>1, <2>2 DEF lists, pools, taskVars
    <2>3. StacksInv'
      BY DEF StacksInv
    <2>4. TaskStatesInv'
      BY DEF TaskStatesInv
    <2>5. CpuInv'
      BY DEF CpuInv
    <2>6. ContextsInv'
      BY DEF ContextsInv
    <2>. QED BY <2>3, <2>4, <2>5, <2>6 DEF ExecutionInv
  <1>2. ASSUME YieldCall PROVE ExecutionInv'
    <2>1. /\ pc = "user" /\ pc' = "schedule" /\ arg' = current
          /\ current # NULL /\ current \in Tasks
          /\ current \in ToSet(rtTasks) /\ tState[current] = "RUNNING"
          /\ cpu = tStack[current]
          /\ UNCHANGED <<lists, pools, tStack, rtState, current, mainCtx, cpu>>
      BY <1>0, <1>2 DEF YieldCall, At, Executing, ReadyInv, TypeOK, CpuInv
    <2>2. /\ \A u \in Tasks \ {current} : tState'[u] = tState[u] /\ tCtx'[u] = tCtx[u]
          /\ tState'[current] = "READY"
          /\ tCtx'[current].stack = cpu /\ tCtx'[current].at = "yield"
      BY <1>2, <2>1 DEF TypeOK, YieldCall, Saved
    <2>3. current \notin ToSet(readyQueue) /\ current \notin ToSet(rtZombies)
      BY <1>0, <2>1 DEF ReadyInv, ListsInv
    <2> USE <1>0, <2>1, <2>2, <2>3 DEF lists, pools
    <2>4. StacksInv'
      BY DEF StacksInv
    <2>5. TaskStatesInv'
      BY DEF TaskStatesInv
    <2>6. CpuInv'
      BY DEF CpuInv
    <2>7. ContextsInv'
      BY DEF ContextsInv
    <2>. QED BY <2>4, <2>5, <2>6, <2>7 DEF ExecutionInv
  <1>3. ASSUME TaskExit PROVE ExecutionInv'
    <2>1. /\ pc = "user" /\ pc' = "schedule" /\ arg' = NULL /\ current' = NULL
          /\ current # NULL /\ current \in Tasks /\ current \in ToSet(rtTasks)
          /\ tState[current] = "RUNNING"
          /\ UNCHANGED <<readyQueue, pools, tStack, tCtx, rtState, mainCtx, cpu>>
      BY <1>0, <1>3 DEF TaskExit, At, Executing, ReadyInv, TypeOK
    <2>2. /\ \A u \in Tasks \ {current} : tState'[u] = tState[u]
          /\ tState'[current] = "ZOMBIE"
      BY <1>3, <2>1 DEF TypeOK, TaskExit
    <2>3. /\ ToSet(rtTasks') = ToSet(rtTasks) \ {current}
          /\ ToSet(rtZombies') = ToSet(rtZombies) \cup {current}
      BY <1>0, <1>3, <2>1, UnlinkFacts, AppendFacts DEF TypeOK, TaskExit, ListsInv
    <2>4. /\ Owned' = Owned /\ current \notin ToSet(readyQueue)
          /\ current \notin ToSet(rtZombies)
      BY <1>0, <2>1, <2>3 DEF ReadyInv, ListsInv
    <2> USE <1>0, <2>1, <2>2, <2>3, <2>4 DEF pools
    <2>5. StacksInv'
      BY DEF StacksInv
    <2>6. TaskStatesInv'
      BY DEF TaskStatesInv
    <2>7. CpuInv'
      BY DEF CpuInv
    <2>8. ContextsInv'
      BY DEF ContextsInv
    <2>. QED BY <2>5, <2>6, <2>7, <2>8 DEF ExecutionInv
  <1>4. ASSUME ResumeMain PROVE ExecutionInv'
    <2>1. /\ pc = "schedule" /\ arg' = NULL /\ current' = NULL
          /\ rtState' = "STOPPED" /\ rtState = "RUNNING"
          /\ UNCHANGED <<lists, pools, taskVars>>
          /\ Load(mainCtx)
      BY <1>0, <1>4 DEF ResumeMain, At, Executing, StateInv
    <2>2. /\ mainCtx.at = "run" /\ mainCtx.stack \in Foreign
          /\ pc' = "reap" /\ cpu' \in Foreign
      BY <1>0, <2>1 DEF ContextsInv, Load, pools
    <2>3. rtTasks' = <<>> /\ readyQueue' = <<>>
      <3>1. AccountInv'
        BY <1>4, ScheduleAccounts DEF Schedule
      <3>. QED BY <2>2, <3>1 DEF AccountInv, StateInv
    <2>4. ToSet(<<>>) = {}
      BY EmptySeq DEF ToSet
    <2> USE <1>0, <2>1, <2>2, <2>3, <2>4 DEF lists, pools, taskVars
    <2>5. StacksInv'
      BY DEF StacksInv
    <2>6. TaskStatesInv'
      BY DEF TaskStatesInv
    <2>7. CpuInv'
      BY DEF CpuInv
    <2>8. ContextsInv'
      BY DEF ContextsInv
    <2>. QED BY <2>5, <2>6, <2>7, <2>8 DEF ExecutionInv
  <1>5. ASSUME ResumeTask PROVE ExecutionInv'
    <2> DEFINE next == Head(Readmitted)
    <2>1. pc = "schedule" /\ rtState = "RUNNING" /\ Readmitted # <<>>
      BY <1>0, <1>5 DEF ResumeTask, At, Executing, StateInv
    <2>2. /\ Readmitted \in Seq(Tasks) /\ IsInjective(Readmitted)
          /\ ToSet(Readmitted) = Waiting
      <3>1. CASE arg # NULL
        <4>1. /\ Readmitted = Append(readyQueue, arg) /\ arg \in Tasks
              /\ arg \notin ToSet(readyQueue) /\ IsInjective(readyQueue)
          BY <1>0, <2>1, <3>1 DEF Readmitted, Admitted, ArgInv, ReadyInv, TypeOK
        <4>. QED BY <2>1, <3>1, <4>1, AppendFacts DEF TypeOK
      <3>2. CASE arg = NULL
        BY <1>0, <2>1, <3>2 DEF Readmitted, Admitted, ReadyInv, TypeOK
      <3>. QED BY <3>1, <3>2
    <2>3. /\ next \in Tasks /\ next \in Waiting /\ next # NULL
          /\ ToSet(Tail(Readmitted)) = Waiting \ {next}
      BY <2>1, <2>2, HeadTailFacts
    <2>4. /\ next \in ToSet(rtTasks) /\ tState[next] = "READY"
          /\ next \notin ToSet(rtZombies)
      BY <1>0, <2>1, <2>3 DEF ReadyInv, ArgInv, ListsInv
    <2>5. /\ \A u \in Tasks \ {next} : tState'[u] = tState[u] /\ tCtx'[u] = tCtx[u]
          /\ tState'[next] = "RUNNING"
      BY <1>5, <2>3 DEF TypeOK, ResumeTask
    <2>6. /\ UNCHANGED <<rtTasks, rtZombies, pools, tStack, rtState, mainCtx>>
          /\ readyQueue' = Tail(Readmitted) /\ current' = next /\ arg' = NULL
          /\ Load(tCtx[next])
      BY <1>5 DEF ResumeTask, Dequeued
    <2>7. cpu' = tStack[next] /\ pc' = "user"
      BY <1>0, <2>1, <2>3, <2>6 DEF ContextsInv, Load
    <2>8. \A t \in ToSet(rtTasks) : tState[t] = "READY"
      BY <1>0, <2>1 DEF TaskStatesInv, ArgInv
    <2> HIDE DEF next
    <2> USE <1>0, <2>1, <2>3, <2>4, <2>5, <2>6, <2>7, <2>8 DEF pools
    <2>9. StacksInv'
      BY DEF StacksInv
    <2>10. TaskStatesInv'
      BY DEF TaskStatesInv
    <2>11. CpuInv'
      BY DEF CpuInv
    <2>12. ContextsInv'
      <3>1. Waiting' = Waiting \ {next}
        OBVIOUS
      <3> HIDE DEF Waiting
      <3>2. \A t \in Waiting' : /\ tCtx'[t].at \in {"start", "yield"}
                                 /\ tCtx'[t].stack = tStack'[t]
        <4>1. Waiting' \subseteq Tasks \ {next}
          BY <3>1 DEF ArgInv, TypeOK, Waiting
        <4>. QED BY <3>1, <4>1 DEF ContextsInv
      <3>. QED BY <3>2 DEF ContextsInv
    <2>. QED BY <2>9, <2>10, <2>11, <2>12 DEF ExecutionInv
  <1>. QED BY <1>1, <1>2, <1>3, <1>4, <1>5 DEF Schedule

\* gt_init, gt_destroy and the reaping of zombies.
LEMMA DestroyExecution ==
    ASSUME TypeOK, AccountInv, ExecutionInv, outcome' = "ok",
           RuntimeInit \/ DestroyCall \/ DestroyTasks
    PROVE  ExecutionInv'
  <1> USE DEF Owned, StackOwners, Foreign, Destroying, Waiting
  <1>0. /\ ToSet(rtTasks) \subseteq Tasks /\ ToSet(rtZombies) \subseteq Tasks
        /\ ToSet(readyQueue) \subseteq Tasks
        /\ ArgInv /\ StateInv /\ ListsInv /\ ReadyInv
        /\ StacksInv /\ TaskStatesInv /\ CpuInv /\ ContextsInv
        /\ ToSet(<<>>) = {}
    BY EmptySeq DEF TypeOK, ToSet, AccountInv, ExecutionInv
  <1>1. ASSUME RuntimeInit PROVE ExecutionInv'
    <2>1. /\ pc = "user" /\ arg = NULL /\ rtTasks = <<>> /\ rtZombies = <<>>
          /\ current = NULL /\ mapped = lost /\ cpu \in Foreign
      BY <1>0, <1>1 DEF RuntimeInit, At, Executing, ArgInv, StateInv, StacksInv, CpuInv
    <2> USE <1>0, <1>1, <2>1 DEF RuntimeInit, taskVars
    <2>2. StacksInv'
      BY DEF StacksInv
    <2>3. TaskStatesInv'
      BY DEF TaskStatesInv
    <2>4. CpuInv'
      BY DEF CpuInv
    <2>5. ContextsInv'
      BY DEF ContextsInv
    <2>. QED BY <2>2, <2>3, <2>4, <2>5 DEF ExecutionInv
  <1>2. ASSUME DestroyCall \/ DestroyTurnsToZombies \/ ReapReturns PROVE ExecutionInv'
    <2>1. /\ pc \in {"user", "destroy_tasks", "reap"} /\ arg' = arg
          /\ pc = "reap" => pc' = "user" /\ rtState = "STOPPED" /\ current = NULL
                            /\ readyQueue = <<>> /\ cpu \in Foreign
          /\ pc # "reap" => pc' \in {"destroy_tasks", "destroy_zombies"}
          /\ UNCHANGED <<lists, pools, taskVars, rtState, current, mainCtx, cpu>>
      BY <1>0, <1>2 DEF DestroyCall, DestroyTurnsToZombies, ReapReturns, At, Executing,
         StateInv, CpuInv
    <2> USE <1>0, <2>1 DEF lists, pools, taskVars
    <2>2. StacksInv'
      BY DEF StacksInv
    <2>3. TaskStatesInv'
      BY DEF TaskStatesInv
    <2>4. CpuInv'
      BY DEF CpuInv
    <2>5. ContextsInv'
      BY DEF ContextsInv
    <2>. QED BY <2>2, <2>3, <2>4, <2>5 DEF ExecutionInv
  <1>3. ASSUME DestroyReturns PROVE ExecutionInv'
    <2>1. /\ pc = "destroy_zombies" /\ rtTasks = <<>> /\ rtZombies = <<>>
          /\ cpu \in mapped \cup {MainStack}
      BY <1>0, <1>3 DEF DestroyReturns, At, Executing, StateInv
    <2>2. mapped = lost
      BY <1>0, <2>1 DEF StacksInv
    <2> USE <1>0, <1>3, <2>1, <2>2 DEF DestroyReturns, taskVars
    <2>3. StacksInv'
      BY DEF StacksInv
    <2>4. TaskStatesInv'
      BY DEF TaskStatesInv
    <2>5. CpuInv'
      BY DEF CpuInv
    <2>6. ContextsInv'
      BY DEF ContextsInv
    <2>. QED BY <2>3, <2>4, <2>5, <2>6 DEF ExecutionInv
  <1>4. ASSUME DestroyFrees PROVE ExecutionInv'
    <2>1. /\ pc \in {"destroy_tasks", "destroy_zombies", "reap"} /\ pc' = pc
          /\ UNCHANGED <<lists, mapped, lost, taskVars, rtState, current, mainCtx, cpu>>
      BY <1>4 DEF DestroyFrees, InLoop
    <2> USE <1>0, <2>1 DEF lists, taskVars
    <2>2. StacksInv'
      BY DEF StacksInv
    <2>3. TaskStatesInv'
      BY DEF TaskStatesInv
    <2>4. CpuInv'
      BY DEF CpuInv
    <2>5. ContextsInv'
      BY DEF ContextsInv
    <2>. QED BY <2>2, <2>3, <2>4, <2>5 DEF ExecutionInv
  <1>5. ASSUME DestroyUnmaps PROVE ExecutionInv'
    <2> DEFINE t == Head(LoopList)
    <2>1. /\ pc \in {"destroy_tasks", "destroy_zombies", "reap"} /\ pc' = pc
          /\ LoopList # <<>> /\ Released(tStack[t])
          /\ LoopList = IF pc = "destroy_tasks" THEN rtTasks ELSE rtZombies
          /\ UNCHANGED <<readyQueue, rtState, current, mainCtx, cpu>>
      BY <1>5 DEF DestroyUnmaps, InLoop, LoopList
    <2>2. /\ t \in Tasks /\ t \in ToSet(LoopList)
          /\ ToSet(Tail(LoopList)) = ToSet(LoopList) \ {t}
      BY <1>0, <2>1, HeadTailFacts DEF TypeOK, ListsInv
    <2>3. /\ \A u \in Tasks \ {t} : tState'[u] = tState[u] /\ tStack'[u] = tStack[u]
          /\ tState'[t] = "NEW"
      BY <1>5, <2>2 DEF TypeOK, DestroyUnmaps
    <2>4. /\ ToSet(rtTasks') = ToSet(rtTasks) \ {t}
          /\ ToSet(rtZombies') = ToSet(rtZombies) \ {t}
          /\ t \in Owned
      <3>1. CASE pc = "destroy_tasks"
        BY <1>0, <1>5, <2>1, <2>2, <3>1 DEF DestroyUnmaps, ListsInv
      <3>2. CASE pc # "destroy_tasks"
        BY <1>0, <1>5, <2>1, <2>2, <3>2 DEF DestroyUnmaps, ListsInv
      <3>. QED BY <3>1, <3>2
    <2>5. pc = "reap" => readyQueue = <<>> /\ rtState = "STOPPED"
      BY <1>0 DEF StateInv
    <2> HIDE DEF t
    <2> USE <1>0, <2>1, <2>2, <2>3, <2>4, <2>5 DEF Released
    <2>6. StacksInv'
      BY DEF StacksInv
    <2>7. TaskStatesInv'
      BY DEF TaskStatesInv
    <2>8. CpuInv'
      BY DEF CpuInv
    <2>9. ContextsInv'
      BY DEF ContextsInv
    <2>. QED BY <2>6, <2>7, <2>8, <2>9 DEF ExecutionInv
  <1>. QED BY <1>1, <1>2, <1>3, <1>4, <1>5 DEF DestroyTasks
=============================================================================
