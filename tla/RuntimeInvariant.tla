-------------------------- MODULE RuntimeInvariant --------------------------
(***************************************************************************)
(* The inductive invariant of Runtime.  The safety properties of Runtime   *)
(* speak of the moments when no runtime function is under way; here they   *)
(* are extended to every step of gt_create_task, of __gt_runtime_schedule  *)
(* and of the destruction loops, where one task is in flight: allocated    *)
(* but on neither list.                                                    *)
(***************************************************************************)
EXTENDS Runtime

Creating == pc \in {"create_id", "create_stack", "create_publish"}
Destroying == pc \in {"destroy_tasks", "destroy_zombies"}
Looping == Destroying \/ pc = "reap"

\* The tasks, and the identifiers, held by a function that is half way.
TasksInFlight == IF Creating \/ Looping THEN {arg} \ {NULL} ELSE {}
IdInFlight == pc \in {"create_stack", "create_publish"} \/ (Looping /\ arg # NULL)
IdsInFlight == IF IdInFlight THEN {argId} ELSE {}

\* The tasks that have a stack.
StackOwners == Owned \cup (IF pc = "create_publish" THEN {arg} ELSE {})

\* Where the task argument comes from.
ArgInv ==
    /\ Creating => arg \in Tasks
    /\ pc = "user" => arg = NULL
    /\ pc = "schedule" /\ arg # NULL => arg = current /\ tState[arg] = "READY"
    /\ pc = "schedule" /\ arg = NULL => current = NULL

\* A runtime that is not initialized owns nothing and is not half way; one that
\* has come to the end of a run has only zombies.
StateInv ==
    /\ rtState = "UNINITIALIZED" =>
          pc = "user" /\ rtTasks = <<>> /\ rtZombies = <<>> /\ current = NULL
    /\ rtState # "UNINITIALIZED" => pageReady
    /\ pc = "destroy_zombies" => rtTasks = <<>>
    /\ pc = "schedule" => rtState = "RUNNING"
    /\ pc = "reap" => rtState = "STOPPED" /\ current = NULL
                      /\ rtTasks = <<>> /\ readyQueue = <<>>

ListsInv ==
    /\ IsInjective(rtTasks) /\ IsInjective(rtZombies)
    /\ ToSet(rtTasks) \cap ToSet(rtZombies) = {}
    /\ heap = Owned \cup TasksInFlight
    /\ Owned \cap TasksInFlight = {}

CountInv ==
    taskCount = Len(rtTasks) + Len(rtZombies)
                + (IF Looping /\ arg # NULL THEN 1 ELSE 0)

IdsInv ==
    /\ taskIds = {tId[t] : t \in Owned} \cup IdsInFlight
    /\ \A t, u \in Owned : tId[t] = tId[u] => t = u
    /\ \A t \in Owned : tId[t] \notin IdsInFlight
    /\ pc = "create_publish" => tId[arg] = argId

\* gt_destroy leaves the ready queue alone while it frees what is in it.
ReadyInv ==
    ~Destroying =>
        /\ IsInjective(readyQueue)
        /\ ToSet(readyQueue) =
              {t \in ToSet(rtTasks) : tState[t] = "READY"}
              \ (IF pc = "schedule" THEN {arg} ELSE {})
        /\ current # NULL =>
              /\ current \in ToSet(rtTasks)
              /\ tState[current] = IF pc = "schedule" /\ arg # NULL
                                   THEN "READY" ELSE "RUNNING"

AccountInv == ArgInv /\ StateInv /\ ListsInv /\ CountInv /\ IdsInv /\ ReadyInv

\* A mapped region is the stack of one task or was released in vain.
StacksInv ==
    /\ mapped = {tStack[t] : t \in StackOwners} \cup lost
    /\ \A t \in StackOwners : tStack[t] \notin lost
    /\ \A t, u \in StackOwners : tStack[t] = tStack[u] => t = u

\* A live task waits or runs, and only rt_current runs; the dead are zombies;
\* all other memory is clear.
TaskStatesInv ==
    /\ \A t \in ToSet(rtTasks) :
          tState[t] = "READY" \/ (tState[t] = "RUNNING" /\ t = current)
    /\ \A t \in ToSet(rtZombies) : tState[t] = "ZOMBIE"
    /\ \A t \in Tasks \ Owned : tState[t] = "NEW"

\* Who executes on which stack.  While gt_destroy frees the tasks nothing is
\* said: it may have been called by one of them.
CpuInv ==
    /\ pc \in {"user", "create_id", "create_stack", "create_publish"} =>
          /\ rtState = "RUNNING" <=> current # NULL
          /\ IF current = NULL THEN cpu \in Foreign ELSE cpu = tStack[current]
    /\ pc = "reap" => cpu \in Foreign

\* What the scheduler may load.
Waiting == ToSet(readyQueue) \cup (IF pc = "schedule" THEN {arg} \ {NULL} ELSE {})
ContextsInv ==
    /\ ~Destroying => \A t \in Waiting :
          tCtx[t].at \in {"start", "yield"} /\ tCtx[t].stack = tStack[t]
    /\ pc = "create_publish" =>
          tCtx[arg].at = "start" /\ tCtx[arg].stack = tStack[arg]
    /\ rtState = "RUNNING" => mainCtx.at = "run" /\ mainCtx.stack \in Foreign

ExecutionInv == StacksInv /\ TaskStatesInv /\ CpuInv /\ ContextsInv

\* Accounts hold as long as the process lives.
Inv == TypeOK /\ NoInternalFailure /\ (outcome = "ok" => AccountInv /\ ExecutionInv)
=============================================================================
