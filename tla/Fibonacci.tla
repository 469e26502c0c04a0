----------------------------- MODULE Fibonacci -----------------------------
(***************************************************************************)
(* The tasks of examples/09_fibonacci.c: each computes one number with     *)
(* local variables that live on its stack across the yields.               *)
(***************************************************************************)
EXTENDS Client

CONSTANT Modulus \* uint64_t counts modulo this: 2^64

ASSUME WordsHoldOne == Modulus \in Nat /\ Modulus > 1

VARIABLES
    index,  \* tasks[].index
    result, \* tasks[].result
    locals  \* i, a and b of each task, i before it is compared with n

fibVars == <<index, result, locals>>

FibInit(indices) ==
    /\ index = indices
    /\ result = [k \in DOMAIN indices |-> 0]
    /\ locals = [k \in DOMAIN indices |-> [i |-> 2, a |-> 0, b |-> 1]]

\* Faulty: a is updated before b, which no longer sees its old value.
IteratedInPlace(v) == [i |-> v.i + 1, a |-> v.b, b |-> (v.b + v.b) % Modulus]

\* The body of the loop, up to the test for the yield.
Iterated(v) == [i |-> v.i + 1, a |-> v.b, b |-> (v.a + v.b) % Modulus]

\* One iteration of the loop. Unless it yields it leaves the task in its turn, in
\* which no other task can take a step.
FibIterate(k) ==
    /\ InTurn(program[k]) /\ locals[k].i <= index[k]
    /\ locals' = [locals EXCEPT ![k] = Iterated(locals[k])]
    /\ IF locals[k].i % 5 = 0 THEN Yields ELSE UNCHANGED clientVars
    /\ UNCHANGED <<index, result>>

\* Behind the loop, or past it for a number below two, which has no iteration.
FibFinish(k) ==
    /\ InTurn(program[k]) /\ locals[k].i > index[k]
    /\ result' = [result EXCEPT ![k] = CASE index[k] <= 0 -> 0
                                         [] index[k] = 1 -> 1
                                         [] OTHER -> locals[k].b]
    /\ Returns
    /\ UNCHANGED <<index, locals>>

FibStep(k) == FibIterate(k) \/ FibFinish(k)

-----------------------------------------------------------------------------
\* The Fibonacci numbers.
fib[n \in Nat] == IF n < 2 THEN n ELSE fib[n - 1] + fib[n - 2]

\* When gt_run comes back every task has left its number, wherever the other
\* tasks' turns fell between its own, and whatever overflows on the way
\* (examples/09_fibonacci.c).
ResultsRight ==
    mainPc = "destroy" =>
        \A k \in DOMAIN index :
            result[k] = (IF index[k] < 0 THEN 0 ELSE fib[index[k]]) % Modulus
=============================================================================
