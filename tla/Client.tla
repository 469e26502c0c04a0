------------------------------- MODULE Client -------------------------------
(***************************************************************************)
(* The main program of the examples, on the runtime as CoopSched promises  *)
(* it: initialize, create the tasks one after the other, run them, destroy *)
(* the runtime; leave early when the initialization or a creation fails.   *)
(* What the tasks do in their turns is added by the modules that extend    *)
(* this one.                                                               *)
(***************************************************************************)
EXTENDS CoopSched

VARIABLES
    program, \* the tasks main creates, in this order
    mainPc,  \* the call main is about to make, or is in ("running")
    created, \* how many tasks it has created
    exitCode \* what main returned, "none" before

clientVars == <<coopVars, program, mainPc, created, exitCode>>

ClientInit == CoopInit /\ mainPc = "init" /\ created = 0 /\ exitCode = "none"

InitSucceeds ==
    /\ mainPc = "init" /\ Start
    /\ mainPc' = "create"
    /\ UNCHANGED <<program, created, exitCode>>

InitFailed ==
    /\ mainPc = "init"
    /\ mainPc' = "returned" /\ exitCode' = "failure"
    /\ UNCHANGED <<coopVars, program, created>>

CreateSucceeds ==
    /\ mainPc = "create"
    /\ Spawn(program[created + 1])
    /\ created' = created + 1
    /\ mainPc' = IF created' = Len(program) THEN "run" ELSE "create"
    /\ UNCHANGED <<program, exitCode>>

CreateFailed ==
    /\ mainPc = "create"
    /\ mainPc' = "cleanup"
    /\ UNCHANGED <<coopVars, program, created, exitCode>>

Run ==
    /\ mainPc = "run" /\ BeginRun
    /\ mainPc' = "running"
    /\ UNCHANGED <<program, created, exitCode>>

\* The scheduler gives the turn to the first task that waits after a task ended.
Dispatch == GiveTurn /\ UNCHANGED <<program, mainPc, created, exitCode>>

RunReturns ==
    /\ mainPc = "running" /\ EndRun
    /\ mainPc' = "destroy"
    /\ UNCHANGED <<program, created, exitCode>>

Destroy ==
    /\ mainPc \in {"destroy", "cleanup"} /\ Stop
    /\ mainPc' = "returned"
    /\ exitCode' = IF mainPc = "destroy" THEN "success" ELSE "failure"
    /\ UNCHANGED <<program, created>>

ClientNext ==
    \/ InitSucceeds \/ InitFailed \/ CreateSucceeds \/ CreateFailed
    \/ Run \/ Dispatch \/ RunReturns \/ Destroy

\* In a turn of t: its code up to the next gt_yield, or up to its return.
InTurn(t) == phase = "running" /\ turn = t
Yields == PassTurn /\ UNCHANGED <<program, mainPc, created, exitCode>>
Returns == Finish /\ UNCHANGED <<program, mainPc, created, exitCode>>
=============================================================================
