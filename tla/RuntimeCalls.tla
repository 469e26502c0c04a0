---------------------------- MODULE RuntimeCalls ----------------------------
(***************************************************************************)
(* The runtime as its caller sees it: every step of Runtime together with  *)
(* the status that gt_init or gt_create_task returns in it, and a history  *)
(* variable with what the runtime held when gt_create_task was entered.    *)
(***************************************************************************)
EXTENDS RuntimeInvariant, Status

VARIABLES
    status, \* what the step returned to the caller, "none" when nothing
    before  \* the Holdings when gt_create_task was entered, {} outside of it

callVars == <<vars, status, before>>

\* What a creation may not change when it fails.
Holdings == [tasks |-> rtTasks, zombies |-> rtZombies, ready |-> readyQueue,
             ids |-> taskIds, count |-> taskCount, heap |-> heap,
             stacks |-> mapped \ lost,
             records |-> [t \in Owned |-> <<tState[t], tId[t], tStack[t], tCtx[t]>>]]

Enters == status' = "none" /\ before' = Holdings
GoesOn == status' = "none" /\ UNCHANGED before
Returns(s) == status' = s /\ before' = {}

-----------------------------------------------------------------------------
\* calloc fails before anything has changed.
CreateAllocFails ==
    /\ At("user") /\ rtState # "UNINITIALIZED"
    /\ UNCHANGED vars

\* gt_vm_mapping_reserve tells by errno why mmap failed.
ReserveStatus(errno) ==
    IF errno = "ENOMEM" THEN "OUT_OF_MEMORY" ELSE "VM_RESERVATION_FAILED"

InitReturns ==
    \/ InitFails /\ Returns("PAGE_SIZE_UNAVAILABLE")
    \/ RuntimeInit /\ Returns("SUCCESS")

CreateFails ==
    \/ CreateAllocFails /\ Returns("OUT_OF_MEMORY")
    \/ CreateFindsNoId /\ Returns("RESOURCE_EXHAUSTED")
    \/ CreateReserveFails /\ \E e \in {"ENOMEM", "EAGAIN"} : Returns(ReserveStatus(e))
    \/ (\E r \in Regions : CreateProtectFails(r)) /\ Returns("VM_PROTECTION_FAILED")

CreateGoesOn ==
    \/ \E i \in Ids : CreateTakesId(i)
    \/ \E r \in Regions : CreateMapsStack(r)

CallInit == Init /\ status = "none" /\ before = {}

CallNext ==
    \/ InitReturns
    \/ (\E t \in Tasks : CreateAllocates(t)) /\ Enters
    \/ CreateGoesOn /\ GoesOn
    \/ CreateFails
    \/ CreatePublishes /\ Returns("SUCCESS")
    \/ (Execute \/ DestroyCall \/ DestroyTasks) /\ GoesOn
    \/ MisusePanics /\ GoesOn
    \/ ExecutionFaults /\ GoesOn
    \/ ProcessEnded /\ GoesOn

CallSpec == CallInit /\ [][CallNext]_callVars

-----------------------------------------------------------------------------
(* Properties of the calls *)

CreateReturned == pc \in {"create_id", "create_stack", "create_publish"}
                  /\ pc' = "user" /\ outcome' = "ok"

\* One new task, queued behind all others, with an identifier and a stack that
\* nobody had; nothing else is different.
OneTaskMore ==
    \E t \in Tasks \ before.heap :
        Holdings' = [tasks |-> Append(before.tasks, t),
                     zombies |-> before.zombies,
                     ready |-> Append(before.ready, t),
                     ids |-> before.ids \cup {tId'[t]},
                     count |-> before.count + 1,
                     heap |-> before.heap \cup {t},
                     stacks |-> before.stacks \cup {tStack'[t]},
                     records |-> [u \in DOMAIN before.records \cup {t} |->
                                     IF u # t THEN before.records[u]
                                     ELSE <<"READY", tId'[t], tStack'[t], tCtx'[t]>>]]
        /\ tId'[t] \notin before.ids /\ tStack'[t] \notin before.stacks

\* gt_create_task adds exactly one task when it reports success, and when it
\* reports a failure, of whatever step, the runtime holds what it held before
\* (docs/task/contract.md: "Initialization failures shall roll back all
\* previously acquired resources before returning").
CreationAllOrNothing ==
    [][CreateReturned =>
          IF status' = "SUCCESS" THEN OneTaskMore ELSE Holdings' = before]_callVars

\* gt_create_task reports RESOURCE_EXHAUSTED only when Capacity tasks exist,
\* those that have ended in this run included, and never adds one to them: no
\* identifier is lost to a failed creation, a reaping or a gt_destroy.
ExhaustedExactlyWhenFull ==
    [][pc = "create_id" =>
          (status' = "RESOURCE_EXHAUSTED"
              <=> Len(rtTasks) + Len(rtZombies) = Capacity)]_callVars

\* The text for a status that an operation returned tells it from all others
\* (docs/error/contract.md: "Every public status code shall have a stable,
\* human-readable string representation").
StatusesNamed ==
    status # "none" =>
        /\ StatusString(status) # Unknown
        /\ \A s \in StatusCodes : StatusString(s) = StatusString(status)
                                  => Code[s] = Code[status]
=============================================================================
