----------------------------- MODULE MCExamples -----------------------------
(* The two examples as instances for TLC: which one runs is fixed by the   *)
(* initial state, the variables of the other stay as they are.             *)
EXTENDS Pipeline, Fibonacci

CONSTANTS MaxItems, Indices

ASSUME ItemsAreCounted == MaxItems \in Nat
ASSUME NumbersAreInts == Indices \subseteq Int

vars == <<clientVars, pipeVars, fibVars>>

Init ==
    /\ ClientInit /\ program = PipelineProgram
    /\ \/ (\E n \in 1 .. MaxItems : PipelineInit(n)) /\ FibInit(<<>>)
       \/ PipelineInit(0) /\ \E f \in [1 .. 3 -> Indices] : FibInit(f)

Next ==
    \/ ClientNext /\ UNCHANGED <<pipeVars, fibVars>>
    \/ items > 0 /\ PipelineTurn /\ UNCHANGED fibVars
    \/ items = 0 /\ (\E k \in DOMAIN index : FibStep(k)) /\ UNCHANGED pipeVars
    \/ mainPc = "returned" /\ UNCHANGED vars

\* The program and the runtime under it never wait for anything.
Spec == Init /\ [][Next]_vars /\ WF_vars(Next)

\* Every example ends, whatever fails.
ExampleEnds == <>(mainPc = "returned")
=============================================================================
