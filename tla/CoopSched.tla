------------------------------ MODULE CoopSched ------------------------------
(***************************************************************************)
(* What the runtime promises to the programs that use it, with no task     *)
(* record, stack, identifier or saved context: tasks are run one at a      *)
(* time, in the order in which they became runnable; a task that yields    *)
(* goes behind every task that waits; a run ends when nothing is runnable. *)
(***************************************************************************)
EXTENDS Naturals, SequencesExt

CONSTANTS
    Tasks,
    NoTask   \* no element of Tasks

VARIABLES
    phase,   \* "down", "idle" (initialized, not running) or "running"
    waiting, \* the runnable tasks in the order in which they will run
    turn     \* the task whose turn it is, NoTask between two turns

coopVars == <<phase, waiting, turn>>

CoopInit == phase = "down" /\ waiting = <<>> /\ turn = NoTask

Start ==
    /\ phase = "down" /\ turn = NoTask
    /\ phase' = "idle" /\ waiting' = <<>> /\ UNCHANGED turn

\* A new task waits behind all others, whoever creates it.
Spawn(t) ==
    /\ phase # "down" /\ t # turn /\ ~Contains(waiting, t)
    /\ waiting' = Append(waiting, t)
    /\ UNCHANGED <<phase, turn>>

BeginRun == phase = "idle" /\ phase' = "running" /\ UNCHANGED <<waiting, turn>>

GiveTurn ==
    /\ phase = "running" /\ turn = NoTask /\ waiting # <<>>
    /\ turn' = Head(waiting) /\ waiting' = Tail(waiting)
    /\ UNCHANGED phase

EndRun ==
    /\ phase = "running" /\ turn = NoTask /\ waiting = <<>>
    /\ phase' = "idle" /\ UNCHANGED <<waiting, turn>>

\* A yield with nobody waiting gives the turn back to the same task.
PassTurn ==
    /\ turn # NoTask
    /\ turn' = Head(Append(waiting, turn))
    /\ waiting' = Tail(Append(waiting, turn))
    /\ UNCHANGED phase

Finish == turn # NoTask /\ turn' = NoTask /\ UNCHANGED <<phase, waiting>>

Stop ==
    /\ phase = "idle"
    /\ phase' = "down" /\ waiting' = <<>> /\ UNCHANGED turn

CoopNext ==
    \/ Start \/ (\E t \in Tasks : Spawn(t)) \/ BeginRun \/ GiveTurn \/ EndRun
    \/ PassTurn \/ Finish \/ Stop

CoopSafe == CoopInit /\ [][CoopNext]_coopVars
=============================================================================
