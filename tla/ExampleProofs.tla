--------------------------- MODULE ExampleProofs ----------------------------
(***************************************************************************)
(* The pipeline of examples/10_pipeline.c loses no value and delivers all  *)
(* of them, for any number of items, and the tasks of                      *)
(* examples/09_fibonacci.c leave the right numbers, for any numbers; both  *)
(* wherever a call of main may fail.  The pipeline needs no lock because   *)
(* turns go round, so whose turn it is says which slot is full; the        *)
(* numbers are right because a task's locals are its own.                  *)
(***************************************************************************)
EXTENDS MCExamples, SeqFacts

USE StagesAreTasks, ItemsAreCounted, NumbersAreInts, WordsHoldOne

-----------------------------------------------------------------------------
(* The invariants *)

\* Where main is in its calls, and what it has handed to the scheduler by then.
ControlInv ==
    /\ mainPc \in {"init", "create", "cleanup", "run", "running", "destroy", "returned"}
    /\ phase \in {"down", "idle", "running"} /\ (phase = "running" <=> mainPc = "running")
    /\ turn \in Tasks \cup {NoTask} /\ (phase # "running" => turn = NoTask)
    /\ exitCode \in {"none", "success", "failure"}
    /\ exitCode # "none" => mainPc = "returned"
    /\ program = PipelineProgram /\ waiting \in Seq(Tasks)
    /\ mainPc = "init" => created = 0
    /\ mainPc = "create" =>
          \/ created = 0 /\ waiting = <<>>
          \/ created = 1 /\ waiting = <<Producer>>
          \/ created = 2 /\ waiting = <<Producer, Processor>>
    /\ mainPc = "run" => waiting = PipelineProgram

Slots(raw, processed, producerDone, processorDone) ==
    channel = [raw_value |-> raw, processed_value |-> processed,
               producer_done |-> producerDone, processor_done |-> processorDone]

\* The consumer has printed the first k squares.
Printed(k) ==
    /\ consumed \in Seq(Nat) /\ Len(consumed) = k
    /\ \A i \in 1 .. k : consumed[i] = i * i

AllEmpty(k) == produced = k /\ Slots(0, 0, FALSE, FALSE) /\ Printed(k)
AllDone == produced = items /\ Printed(items)

ProducersTurn == turn = Producer /\ waiting = <<Processor, Consumer>> /\ AllEmpty(produced)
ProcessorsTurn ==
    /\ turn = Processor /\ waiting = <<Consumer, Producer>>
    /\ produced > 0 /\ Slots(produced, 0, FALSE, FALSE) /\ Printed(produced - 1)
ConsumersTurn ==
    /\ turn = Consumer /\ waiting = <<Producer, Processor>>
    /\ produced > 0 /\ Slots(0, produced * produced, FALSE, FALSE) /\ Printed(produced - 1)

\* The rounds after the producer has returned, and after the processor has.
WithoutProducer ==
    /\ \/ turn = NoTask /\ waiting = <<Processor, Consumer>>
       \/ turn = Processor /\ waiting = <<Consumer>>
    /\ Slots(0, 0, TRUE, FALSE) /\ AllDone
WithoutProcessor ==
    /\ \/ turn = NoTask /\ waiting \in {<<Consumer>>, <<>>}
       \/ turn = Consumer /\ waiting = <<>>
    /\ Slots(0, 0, TRUE, TRUE) /\ AllDone

RunningInv ==
    \/ turn = NoTask /\ waiting = PipelineProgram /\ AllEmpty(0)
    \/ ProducersTurn \/ ProcessorsTurn \/ ConsumersTurn
    \/ WithoutProducer \/ WithoutProcessor

\* Before the run nothing has happened in the channel; after it, everything has.
ChannelInv ==
    /\ mainPc \in {"init", "create", "cleanup", "run"} => AllEmpty(0)
    /\ mainPc = "running" => RunningInv
    /\ mainPc = "destroy" \/ exitCode = "success" => Slots(0, 0, TRUE, TRUE) /\ AllDone
    /\ mainPc = "returned" /\ exitCode # "success" => AllEmpty(0)

PipelineInv ==
    /\ items \in Nat /\ produced \in 0 .. items
    /\ items = 0 => AllEmpty(0)
    /\ items > 0 => ChannelInv

\* A task holds two neighbouring Fibonacci numbers, of which the later one is
\* the number before the next iteration's.
LocalsRight(k) ==
    LET v == locals[k]
    IN  /\ v.i \in Nat /\ v.i > 1 /\ (v.i = 2 \/ v.i <= index[k] + 1)
        /\ v.a = fib[v.i - 2] % Modulus /\ v.b = fib[v.i - 1] % Modulus

ResultRight(k) == result[k] = (IF index[k] < 0 THEN 0 ELSE fib[index[k]]) % Modulus

\* In a run a task has its turn to come, or it has left its result.
FibInv ==
    /\ items # 0 => DOMAIN index = {}
    /\ items = 0 =>
        /\ index \in [1 .. 3 -> Int] /\ DOMAIN result = 1 .. 3
        /\ locals \in [1 .. 3 -> [i : Nat, a : Nat, b : Nat]]
        /\ \A k \in 1 .. 3 : LocalsRight(k)
        /\ mainPc = "running" =>
              \A k \in 1 .. 3 : program[k] \in ToSet(waiting) \cup {turn} \/ ResultRight(k)
        /\ mainPc = "destroy" => \A k \in 1 .. 3 : ResultRight(k)

-----------------------------------------------------------------------------
(* Sequences of up to three tasks *)

\* A round grows at its end: from none to one task, and from one to two.
LEMMA ShortRounds ==
    ASSUME NEW a, NEW b
    PROVE  Append(<<>>, a) = <<a>> /\ Append(<<a>>, b) = <<a, b>>
  <1>1. Append(<<>>, a) = <<a>>
    OBVIOUS
  <1>2. <<a>> \in Seq({a, b}) /\ <<a, b>> \in Seq({a, b})
    OBVIOUS
  <1>3. /\ Append(<<a>>, b) \in Seq({a, b}) /\ Len(Append(<<a>>, b)) = Len(<<a, b>>)
        /\ Append(<<a>>, b)[1] = a /\ Append(<<a>>, b)[2] = b
    <2>1. Len(<<a>>) = 1 /\ Len(<<a, b>>) = 2 /\ 1 \in 1 .. 1 /\ <<a>>[1] = a /\ 1 + 1 = 2
      OBVIOUS
    <2>. QED BY <1>2, <2>1, AppendProperties
  <1>4. \A i \in 1 .. 2 : Append(<<a>>, b)[i] = <<a, b>>[i]
    <2>1. \A i \in 1 .. 2 : i = 1 \/ i = 2
      OBVIOUS
    <2>. QED BY <1>3, <2>1
  <1>. QED BY <1>1, <1>2, <1>3, <1>4, SeqEqual

\* From two tasks to three.
LEMMA LastJoins ==
    ASSUME NEW a, NEW b, NEW c PROVE Append(<<a, b>>, c) = <<a, b, c>>
  <1>1. <<a, b>> \in Seq({a, b, c}) /\ <<a, b, c>> \in Seq({a, b, c})
    OBVIOUS
  <1>2. /\ Append(<<a, b>>, c) \in Seq({a, b, c})
        /\ Len(Append(<<a, b>>, c)) = Len(<<a, b, c>>)
        /\ Append(<<a, b>>, c)[1] = a /\ Append(<<a, b>>, c)[2] = b
        /\ Append(<<a, b>>, c)[3] = c
    <2>1. /\ Len(<<a, b>>) = 2 /\ Len(<<a, b, c>>) = 3 /\ 1 \in 1 .. 2 /\ 2 \in 1 .. 2
          /\ <<a, b>>[1] = a /\ <<a, b>>[2] = b /\ 2 + 1 = 3
      OBVIOUS
    <2>. QED BY <1>1, <2>1, AppendProperties
  <1>3. \A i \in 1 .. 3 : Append(<<a, b>>, c)[i] = <<a, b, c>>[i]
    <2>1. \A i \in 1 .. 3 : i = 1 \/ i = 2 \/ i = 3
      OBVIOUS
    <2>. QED BY <1>2, <2>1
  <1>. QED BY <1>1, <1>2, <1>3, SeqEqual

\* What main and the scheduler do with a round of all three tasks.
LEMMA FullRound ==
    ASSUME NEW a, NEW b, NEW c
    PROVE  /\ Append(<<a, b>>, c) = <<a, b, c>>
           /\ Head(<<a, b, c>>) = a /\ Tail(<<a, b, c>>) = <<b, c>>
           /\ Len(<<a, b, c>>) = 3
           /\ <<a, b, c>>[1] = a /\ <<a, b, c>>[2] = b /\ <<a, b, c>>[3] = c
  <1>1. Head(<<a, b, c>>) = a /\ Tail(<<a, b, c>>) = <<b, c>>
    OBVIOUS
  <1>2. Len(<<a, b, c>>) = 3 /\ <<a, b, c>>[1] = a /\ <<a, b, c>>[2] = b /\ <<a, b, c>>[3] = c
    OBVIOUS
  <1>. QED BY <1>1, <1>2, LastJoins

\* A yield with two tasks waiting.
LEMMA TurnsGoRound ==
    ASSUME NEW a, NEW b, NEW c, turn = a, waiting = <<b, c>>, PassTurn
    PROVE  turn' = b /\ waiting' = <<c, a>>
  <1>1. turn' = Head(Append(<<b, c>>, a)) /\ waiting' = Tail(Append(<<b, c>>, a))
    BY DEF PassTurn
  <1>2. Append(<<b, c>>, a) = <<b, c, a>>
    BY LastJoins
  <1>3. turn' = Head(<<b, c, a>>) /\ waiting' = Tail(<<b, c, a>>)
    BY <1>1, <1>2
  <1>. QED BY <1>3, FullRound

\* The consumer prints the next square.
LEMMA PrintNext ==
    ASSUME NEW k \in Nat, k > 0, Printed(k - 1), NEW v, v = k * k,
           consumed' = Append(consumed, v)
    PROVE  Printed(k)'
  <1>1. v \in Nat
    OBVIOUS
  <1>2. /\ consumed' \in Seq(Nat) /\ Len(consumed') = Len(consumed) + 1
        /\ \A i \in 1 .. Len(consumed) : consumed'[i] = consumed[i]
        /\ consumed'[Len(consumed) + 1] = v
    BY <1>1, AppendProperties DEF Printed
  <1>3. Len(consumed) = k - 1 /\ Len(consumed) + 1 = k
    BY DEF Printed
  <1>4. ASSUME NEW i \in 1 .. k PROVE consumed'[i] = i * i
    BY <1>2, <1>3 DEF Printed
  <1>. QED BY <1>2, <1>3, <1>4 DEF Printed

\* Both examples start before any call of main.
LEMMA ControlInit == Init => ControlInv
  <1> SUFFICES ASSUME Init PROVE ControlInv
    OBVIOUS
  <1>1. waiting = <<>> /\ waiting \in Seq(Tasks)
    BY EmptySeq DEF Init, ClientInit, CoopInit
  <1>. QED BY <1>1 DEF Init, ClientInit, CoopInit, ControlInv

\* The channel starts empty, in either example.
LEMMA PipelineStarts == Init => PipelineInv
  <1> SUFFICES ASSUME Init PROVE PipelineInv
    OBVIOUS
  <1>1. Printed(0)
    <2>1. consumed = <<>> /\ consumed \in Seq(Nat) /\ Len(consumed) = 0
      BY EmptySeq DEF Init, PipelineInit
    <2>. QED BY <2>1 DEF Printed
  <1>2. Slots(0, 0, FALSE, FALSE) /\ produced = 0
    BY DEF Init, PipelineInit, Slots
  <1>3. items \in Nat
    BY DEF Init, PipelineInit
  <1>4. AllEmpty(0)
    BY <1>1, <1>2 DEF AllEmpty
  <1>5. mainPc = "init" /\ exitCode = "none"
    BY DEF Init, ClientInit
  <1>6. ChannelInv
    BY <1>4, <1>5 DEF ChannelInv
  <1>. QED BY <1>2, <1>3, <1>4, <1>6 DEF PipelineInv

-----------------------------------------------------------------------------
(* The calls of main, and the round of the tasks *)

\* The next program main creates joins the round behind the ones before it.
LEMMA CreateAppends ==
    ASSUME ControlInv, CreateSucceeds
    PROVE  /\ UNCHANGED <<phase, turn, program, exitCode>>
           /\ \/ created' = 1 /\ waiting' = <<Producer>> /\ mainPc' = "create"
              \/ created' = 2 /\ waiting' = <<Producer, Processor>> /\ mainPc' = "create"
              \/ created' = 3 /\ waiting' = PipelineProgram /\ mainPc' = "run"
  <1>1. /\ mainPc = "create" /\ UNCHANGED <<phase, turn, program, exitCode>>
        /\ waiting' = Append(waiting, PipelineProgram[created + 1]) /\ created' = created + 1
        /\ PipelineProgram[1] = Producer /\ PipelineProgram[2] = Processor
        /\ PipelineProgram[3] = Consumer
        /\ mainPc' = IF created' = 3 THEN "run" ELSE "create"
    BY FullRound DEF CreateSucceeds, Spawn, PipelineProgram, ControlInv
  <1>2. CASE created = 0 /\ waiting = <<>>
    <2>1. created + 1 = 1 /\ created' = 1 /\ mainPc' = "create"
      BY <1>1, <1>2
    <2>. QED BY <1>1, <1>2, <2>1, ShortRounds
  <1>3. CASE created = 1 /\ waiting = <<Producer>>
    <2>1. created + 1 = 2 /\ created' = 2 /\ mainPc' = "create"
      BY <1>1, <1>3
    <2>2. waiting' = Append(<<Producer>>, Processor)
      BY <1>1, <1>3, <2>1
    <2>3. waiting' = <<Producer, Processor>>
      BY <2>2, ShortRounds
    <2>. QED BY <1>1, <2>1, <2>3
  <1>4. CASE created = 2 /\ waiting = <<Producer, Processor>>
    <2>1. created + 1 = 3 /\ created' = 3 /\ mainPc' = "run"
      BY <1>1, <1>4
    <2>2. waiting' = Append(<<Producer, Processor>>, Consumer)
      BY <1>1, <1>4, <2>1
    <2>3. Append(<<Producer, Processor>>, Consumer) = <<Producer, Processor, Consumer>>
      BY LastJoins, Zenon
    <2>. QED BY <1>1, <2>1, <2>2, <2>3 DEF PipelineProgram
  <1>. QED BY <1>1, <1>2, <1>3, <1>4 DEF ControlInv

\* A dispatch or a yield moves tasks between the round and the turn, and a
\* return ends one: nobody else leaves the round.
LEMMA RoundKept ==
    ASSUME ControlInv, GiveTurn \/ PassTurn
    PROVE  /\ waiting' \in Seq(Tasks) /\ turn' \in Tasks
           /\ (ToSet(waiting) \cup {turn}) \cap Tasks \subseteq ToSet(waiting') \cup {turn'}
  <1>1. waiting \in Seq(Tasks) /\ turn \in Tasks \cup {NoTask} /\ NoTask \notin Tasks
    BY DEF ControlInv
  <1>2. CASE GiveTurn
    <2>1. waiting # <<>> /\ turn' = Head(waiting) /\ waiting' = Tail(waiting) /\ turn = NoTask
      BY <1>2 DEF GiveTurn
    <2>. QED BY <1>1, <2>1, HeadTailFacts
  <1>3. CASE PassTurn
    <2> DEFINE w == Append(waiting, turn)
    <2>1. turn \in Tasks /\ turn' = Head(w) /\ waiting' = Tail(w)
      BY <1>1, <1>3 DEF PassTurn
    <2>2. w \in Seq(Tasks) /\ ToSet(w) = ToSet(waiting) \cup {turn} /\ w # <<>>
      BY <1>1, <2>1, AppendFacts, AppendProperties
    <2> HIDE DEF w
    <2>. QED BY <2>1, <2>2, HeadTailFacts
  <1>. QED BY <1>2, <1>3

\* What every step of either example does to main and to the scheduler: a call
\* of main, a dispatch, or a turn, or a part of one, that leaves main alone.
LEMMA StepKinds ==
    ASSUME [Next]_vars
    PROVE  \/ ClientNext /\ UNCHANGED <<pipeVars, fibVars>>
           \/ /\ UNCHANGED <<program, mainPc, created, exitCode>>
              /\ PassTurn \/ Finish \/ UNCHANGED coopVars
  <1>. QED BY DEF Next, vars, clientVars, PipelineTurn, ProducerTurn, ProcessorTurn,
          ConsumerTurn, FibStep, FibIterate, FibFinish, Yields, Returns

LEMMA ControlStep == ControlInv /\ [Next]_vars => ControlInv'
  <1> SUFFICES ASSUME ControlInv, [Next]_vars PROVE ControlInv'
    OBVIOUS
  <1>1. CASE InitSucceeds
    <2>1. waiting' = <<>> /\ waiting' \in Seq(Tasks)
      BY <1>1, EmptySeq DEF InitSucceeds, Start
    <2>. QED BY <1>1, <2>1 DEF ControlInv, InitSucceeds, Start
  <1>2. CASE InitFailed \/ CreateFailed
    BY <1>2 DEF ControlInv, InitFailed, CreateFailed, coopVars
  <1>3. CASE CreateSucceeds
    <2>1. waiting' \in Seq(Tasks)
      <3>1. /\ <<Producer>> \in Seq(Tasks) /\ <<Producer, Processor>> \in Seq(Tasks)
            /\ PipelineProgram \in Seq(Tasks)
        BY DEF PipelineProgram
      <3>. QED BY <1>3, <3>1, CreateAppends
    <2>2. mainPc = "create"
      BY <1>3 DEF CreateSucceeds
    <2>. QED BY <1>3, <2>1, <2>2, CreateAppends DEF ControlInv
  <1>4. CASE Run
    BY <1>4 DEF ControlInv, Run, BeginRun
  <1>5. CASE Dispatch
    <2>1. GiveTurn /\ phase = "running" /\ UNCHANGED <<phase, program, mainPc, created, exitCode>>
      BY <1>5 DEF Dispatch, GiveTurn
    <2>. QED BY <2>1, RoundKept DEF ControlInv
  <1>6. CASE RunReturns
    BY <1>6 DEF ControlInv, RunReturns, EndRun
  <1>7. CASE Destroy
    <2>1. waiting' = <<>> /\ waiting' \in Seq(Tasks)
      BY <1>7, EmptySeq DEF Destroy, Stop
    <2>. QED BY <1>7, <2>1 DEF ControlInv, Destroy, Stop
  <1>8. CASE UNCHANGED <<program, mainPc, created, exitCode>> /\ PassTurn
    <2>1. phase' = phase /\ phase = "running"
      BY <1>8 DEF ControlInv, PassTurn
    <2>. QED BY <1>8, <2>1, RoundKept DEF ControlInv
  <1>9. CASE UNCHANGED <<program, mainPc, created, exitCode>> /\ Finish
    <2>1. UNCHANGED <<phase, waiting>> /\ phase = "running" /\ turn' = NoTask
      BY <1>9 DEF ControlInv, Finish
    <2>. QED BY <1>9, <2>1 DEF ControlInv
  <1>10. CASE UNCHANGED <<program, mainPc, created, exitCode>> /\ UNCHANGED coopVars
    BY <1>10 DEF ControlInv, coopVars
  <1>. QED BY <1>1, <1>2, <1>3, <1>4, <1>5, <1>6, <1>7, <1>8, <1>9, <1>10, StepKinds
           DEF ClientNext

-----------------------------------------------------------------------------
(* The pipeline *)

\* The calls of main and the scheduler's dispatch leave the channel alone.
LEMMA MainStep ==
    ASSUME ControlInv, PipelineInv, items > 0, ClientNext, UNCHANGED pipeVars
    PROVE  PipelineInv'
  <1> USE DEF PipelineInv, ChannelInv, ControlInv, pipeVars
  <1>0. \A k : AllEmpty(k)' <=> AllEmpty(k)
    BY DEF AllEmpty, Slots, Printed
  <1>1. /\ AllDone' <=> AllDone
        /\ \A r, p, d, e : Slots(r, p, d, e)' <=> Slots(r, p, d, e)
    BY DEF AllDone, Printed, Slots
  <1>2. CASE InitSucceeds
    BY <1>0, <1>1, <1>2 DEF InitSucceeds, Start
  <1>3. CASE InitFailed
    BY <1>0, <1>1, <1>3 DEF InitFailed, coopVars
  <1>4. CASE CreateSucceeds
    <2>1. mainPc = "create" /\ exitCode' = exitCode /\ mainPc' \in {"create", "run"}
      BY <1>4, CreateAppends DEF CreateSucceeds
    <2>. QED BY <1>0, <1>1, <2>1
  <1>5. CASE CreateFailed
    BY <1>0, <1>1, <1>5 DEF CreateFailed, coopVars
  <1>6. CASE Run
    BY <1>0, <1>1, <1>6 DEF Run, BeginRun, RunningInv
  <1>7. CASE Dispatch
    <2>1. /\ phase = "running" /\ mainPc = "running" /\ turn = NoTask /\ waiting # <<>>
          /\ turn' = Head(waiting) /\ waiting' = Tail(waiting)
          /\ UNCHANGED <<phase, program, mainPc, created, exitCode>>
      BY <1>7 DEF Dispatch, GiveTurn
    <2>2. \/ waiting = PipelineProgram /\ AllEmpty(0)
          \/ waiting = <<Processor, Consumer>> /\ Slots(0, 0, TRUE, FALSE) /\ AllDone
          \/ waiting = <<Consumer>> /\ Slots(0, 0, TRUE, TRUE) /\ AllDone
      BY <2>1 DEF RunningInv, ProducersTurn, ProcessorsTurn, ConsumersTurn, WithoutProducer,
         WithoutProcessor
    <2>3. CASE waiting = PipelineProgram /\ AllEmpty(0)
      <3>1. turn' = Producer /\ waiting' = <<Processor, Consumer>>
        BY <2>1, <2>3, FullRound DEF PipelineProgram
      <3>2. AllEmpty(produced)'
        BY <1>0, <2>3 DEF AllEmpty
      <3>. QED BY <1>0, <2>1, <3>1, <3>2 DEF RunningInv, ProducersTurn
    <2>4. CASE waiting = <<Processor, Consumer>> /\ Slots(0, 0, TRUE, FALSE) /\ AllDone
      <3>1. turn' = Processor /\ waiting' = <<Consumer>>
        BY <2>1, <2>4
      <3>. QED BY <1>0, <1>1, <2>1, <2>4, <3>1 DEF RunningInv, WithoutProducer
    <2>5. CASE waiting = <<Consumer>> /\ Slots(0, 0, TRUE, TRUE) /\ AllDone
      <3>1. turn' = Consumer /\ waiting' = <<>>
        BY <2>1, <2>5
      <3>. QED BY <1>0, <1>1, <2>1, <2>5, <3>1 DEF RunningInv, WithoutProcessor
    <2>. QED BY <2>2, <2>3, <2>4, <2>5
  <1>8. CASE RunReturns
    BY <1>0, <1>1, <1>8 DEF RunReturns, EndRun, RunningInv, PipelineProgram,
       ProducersTurn, ProcessorsTurn, ConsumersTurn, WithoutProducer, WithoutProcessor
  <1>9. CASE Destroy
    BY <1>0, <1>1, <1>9 DEF Destroy, Stop
  <1>. QED BY <1>2, <1>3, <1>4, <1>5, <1>6, <1>7, <1>8, <1>9 DEF ClientNext

\* While a task has the turn the run is on, and the round is one of RunningInv.
LEMMA TurnFacts ==
    ASSUME ControlInv, PipelineInv, items > 0, phase = "running"
    PROVE  RunningInv /\ mainPc = "running" /\ exitCode = "none"
  <1>. QED BY DEF PipelineInv, ChannelInv, ControlInv

\* A turn leaves main where it is: only the round and the channel have to fit.
LEMMA TurnKeeps ==
    ASSUME ControlInv, PipelineInv, items > 0, phase = "running", phase' = phase,
           UNCHANGED <<program, mainPc, created, exitCode, items>>,
           produced' \in 0 .. items, RunningInv'
    PROVE  PipelineInv'
  <1>1. mainPc = "running" /\ exitCode = "none"
    BY TurnFacts
  <1>. QED BY <1>1 DEF PipelineInv, ChannelInv, ControlInv

\* The producer finds both slots empty, and fills the first or is done.
LEMMA ProducerStep ==
    ASSUME ControlInv, PipelineInv, items > 0, ProducerTurn PROVE PipelineInv'
  <1>1. /\ phase = "running" /\ phase' = phase /\ turn = Producer
        /\ UNCHANGED <<program, mainPc, created, exitCode, items, consumed>>
    BY DEF ProducerTurn, InTurn, Yields, Returns, PassTurn, Finish
  <1>2. items \in Nat /\ produced \in 0 .. items
    BY DEF PipelineInv
  <1>3. /\ waiting = <<Processor, Consumer>> /\ Slots(0, 0, FALSE, FALSE)
        /\ Printed(produced) /\ turn # NoTask
    BY <1>1, TurnFacts DEF RunningInv, ProducersTurn, ProcessorsTurn, ConsumersTurn,
       WithoutProducer, WithoutProcessor, AllEmpty
  <1>4. CASE produced + 1 <= items
    <2>1. /\ produced' = produced + 1 /\ produced' \in 0 .. items /\ produced' > 0
          /\ turn' = Processor /\ waiting' = <<Consumer, Producer>>
      BY <1>1, <1>2, <1>3, <1>4, TurnsGoRound DEF ProducerTurn, Yields
    <2>2. Slots(produced, 0, FALSE, FALSE)'
      BY <1>3, <1>4, <2>1 DEF ProducerTurn, Slots
    <2>3. Printed(produced - 1)'
      <3>1. produced' - 1 = produced /\ consumed' = consumed
        BY <1>1, <1>2, <2>1
      <3>. QED BY <1>3, <3>1 DEF Printed
    <2>. QED BY <1>1, <2>1, <2>2, <2>3, TurnKeeps DEF RunningInv, ProcessorsTurn
  <1>5. CASE ~(produced + 1 <= items)
    <2>1. produced' = produced /\ produced = items /\ turn' = NoTask /\ waiting' = waiting
      BY <1>2, <1>5 DEF ProducerTurn, Returns, Finish
    <2>2. Slots(0, 0, TRUE, FALSE)'
      BY <1>3, <1>5 DEF ProducerTurn, Slots
    <2>3. AllDone'
      BY <1>1, <1>3, <2>1 DEF AllDone, Printed
    <2>. QED BY <1>1, <1>2, <1>3, <2>1, <2>2, <2>3, TurnKeeps DEF RunningInv, WithoutProducer
  <1>. QED BY <1>4, <1>5

\* The processor finds the value of this round, or the producer done.
LEMMA ProcessorStep ==
    ASSUME ControlInv, PipelineInv, items > 0, ProcessorTurn PROVE PipelineInv'
  <1>1. /\ phase = "running" /\ phase' = phase /\ turn = Processor
        /\ UNCHANGED <<program, mainPc, created, exitCode, items, produced, consumed>>
    BY DEF ProcessorTurn, InTurn, Yields, Returns, PassTurn, Finish
  <1>2. items \in Nat /\ produced \in 0 .. items
    BY DEF PipelineInv
  <1>3. ProcessorsTurn \/ (WithoutProducer /\ waiting = <<Consumer>>)
    BY <1>1, TurnFacts DEF RunningInv, ProducersTurn, ProcessorsTurn, ConsumersTurn,
       WithoutProducer, WithoutProcessor
  <1>4. CASE ProcessorsTurn
    <2>1. /\ ~channel.producer_done /\ channel.raw_value = produced /\ produced # 0
          /\ waiting = <<Consumer, Producer>> /\ turn # NoTask
      BY <1>1, <1>2, <1>4 DEF ProcessorsTurn, Slots
    <2>2. turn' = Consumer /\ waiting' = <<Producer, Processor>>
      BY <1>1, <2>1, TurnsGoRound DEF ProcessorTurn, Yields
    <2>3. Slots(0, produced * produced, FALSE, FALSE)'
      BY <1>1, <1>4, <2>1 DEF ProcessorsTurn, ProcessorTurn, Processed, Slots
    <2>4. Printed(produced - 1)'
      BY <1>1, <1>4 DEF ProcessorsTurn, Printed
    <2>. QED BY <1>1, <1>2, <1>4, <2>2, <2>3, <2>4, TurnKeeps
             DEF RunningInv, ConsumersTurn, ProcessorsTurn
  <1>5. CASE WithoutProducer /\ waiting = <<Consumer>>
    <2>1. ~(~channel.producer_done \/ channel.raw_value # 0) /\ turn # NoTask
      BY <1>1, <1>5 DEF WithoutProducer, Slots
    <2>2. Slots(0, 0, TRUE, TRUE)' /\ turn' = NoTask /\ waiting' = <<Consumer>>
      BY <1>5, <2>1 DEF ProcessorTurn, Returns, Finish, WithoutProducer, Slots
    <2>3. AllDone'
      BY <1>1, <1>5 DEF WithoutProducer, AllDone, Printed
    <2>. QED BY <1>1, <1>2, <2>2, <2>3, TurnKeeps DEF RunningInv, WithoutProcessor
  <1>. QED BY <1>3, <1>4, <1>5

\* The consumer finds the square of this round, or the processor done.
LEMMA ConsumerStep ==
    ASSUME ControlInv, PipelineInv, items > 0, ConsumerTurn PROVE PipelineInv'
  <1>1. /\ phase = "running" /\ phase' = phase /\ turn = Consumer
        /\ UNCHANGED <<program, mainPc, created, exitCode, items, produced>>
    BY DEF ConsumerTurn, InTurn, Yields, Returns, PassTurn, Finish
  <1>2. items \in Nat /\ produced \in 0 .. items
    BY DEF PipelineInv
  <1>3. ConsumersTurn \/ (WithoutProcessor /\ waiting = <<>>)
    BY <1>1, TurnFacts DEF RunningInv, ProducersTurn, ProcessorsTurn, ConsumersTurn,
       WithoutProducer, WithoutProcessor
  <1>4. CASE ConsumersTurn
    <2>1. /\ ~channel.processor_done /\ channel.processed_value = produced * produced
          /\ produced * produced # 0
          /\ waiting = <<Producer, Processor>> /\ turn # NoTask
      BY <1>1, <1>2, <1>4 DEF ConsumersTurn, Slots
    <2>2. turn' = Producer /\ waiting' = <<Processor, Consumer>>
      BY <1>1, <2>1, TurnsGoRound DEF ConsumerTurn, Yields
    <2>3. Slots(0, 0, FALSE, FALSE)'
      BY <1>4, <2>1 DEF ConsumersTurn, ConsumerTurn, Slots
    <2>4. consumed' = Append(consumed, produced * produced)
      BY <2>1 DEF ConsumerTurn
    <2>5. Printed(produced)'
      BY <1>1, <1>2, <1>4, <2>4, PrintNext DEF ConsumersTurn
    <2>. QED BY <1>1, <1>2, <2>2, <2>3, <2>5, TurnKeeps DEF RunningInv, ProducersTurn, AllEmpty
  <1>5. CASE WithoutProcessor /\ waiting = <<>>
    <2>1. ~(~channel.processor_done \/ channel.processed_value # 0) /\ turn # NoTask
      BY <1>1, <1>5 DEF WithoutProcessor, Slots
    <2>2. UNCHANGED <<consumed, channel>> /\ turn' = NoTask /\ waiting' = <<>>
      BY <1>5, <2>1 DEF ConsumerTurn, Returns, Finish
    <2>3. Slots(0, 0, TRUE, TRUE)' /\ AllDone'
      BY <1>1, <1>5, <2>2 DEF WithoutProcessor, AllDone, Printed, Slots
    <2>. QED BY <1>1, <1>2, <2>2, <2>3, TurnKeeps DEF RunningInv, WithoutProcessor
  <1>. QED BY <1>3, <1>4, <1>5

\* While the Fibonacci program runs the pipeline stays as it was.
LEMMA PipelineStep == ControlInv /\ PipelineInv /\ [Next]_vars => PipelineInv'
  <1> SUFFICES ASSUME ControlInv, PipelineInv, [Next]_vars PROVE PipelineInv'
    OBVIOUS
  <1>1. CASE items = 0 /\ UNCHANGED pipeVars
    BY <1>1 DEF PipelineInv, pipeVars, AllEmpty, Slots, Printed
  <1>2. CASE UNCHANGED vars
    <2>1. (RunningInv' <=> RunningInv) /\ (AllDone' <=> AllDone) /\ (AllEmpty(0)' <=> AllEmpty(0))
          /\ (Slots(0, 0, TRUE, TRUE)' <=> Slots(0, 0, TRUE, TRUE))
      BY <1>2 DEF vars, clientVars, coopVars, pipeVars, RunningInv, ProducersTurn, ProcessorsTurn,
         ConsumersTurn, WithoutProducer, WithoutProcessor, AllDone, AllEmpty, Slots, Printed
    <2>. QED BY <1>2, <2>1 DEF vars, clientVars, coopVars, pipeVars, PipelineInv, ChannelInv
  <1>3. items \in Nat
    BY DEF PipelineInv
  <1>4. CASE items > 0 /\ ~UNCHANGED vars
    BY <1>4, MainStep, ProducerStep, ProcessorStep, ConsumerStep DEF Next, PipelineTurn
  <1>5. CASE items = 0 /\ ~UNCHANGED vars
    BY <1>1, <1>5 DEF Next
  <1>. QED BY <1>2, <1>3, <1>4, <1>5

LEMMA PipelineHolds == Spec => [](ControlInv /\ PipelineInv)
  <1>. QED BY ControlInit, PipelineStarts, ControlStep, PipelineStep, PTL DEF Spec

-----------------------------------------------------------------------------
(* The Fibonacci numbers *)

\* The functions that satisfy the recurrence up to m.
UpTo(m) ==
    {g \in [Nat -> Nat] :
        \A n \in Nat : n <= m => g[n] = IF n < 2 THEN n ELSE g[n - 1] + g[n - 2]}

LEMMA UpToExists ==
    ASSUME NEW m \in Nat PROVE UpTo(m) # {}
  <1> DEFINE Without == {n \in Nat : UpTo(n) = {}}
  <1> SUFFICES ASSUME Without # {} PROVE FALSE
    OBVIOUS
  <1>1. PICK x \in Without : \A y \in Without : x <= y
    <2>1. Without \subseteq Nat
      OBVIOUS
    <2> HIDE DEF Without
    <2>. QED BY <2>1, LeastExists
  <1>2. CASE x < 2
    <2>1. [n \in Nat |-> n] \in UpTo(x)
      BY <1>2 DEF UpTo
    <2>. QED BY <2>1
  <1>3. CASE x >= 2
    <2>1. x - 1 \in Nat /\ x - 1 \notin Without
      BY <1>1, <1>3
    <2>2. PICK g : g \in UpTo(x - 1)
      BY <2>1
    <2> DEFINE h == [g EXCEPT ![x] = g[x - 1] + g[x - 2]]
    <2>3. g \in [Nat -> Nat] /\ x - 2 \in Nat /\ x \in Nat
      BY <1>3, <2>2 DEF UpTo
    <2>4. h \in [Nat -> Nat]
      BY <2>1, <2>3
    <2>5. ASSUME NEW n \in Nat, n <= x PROVE h[n] = IF n < 2 THEN n ELSE h[n - 1] + h[n - 2]
      BY <1>3, <2>1, <2>2, <2>3, <2>5 DEF UpTo
    <2>6. h \in UpTo(x)
      BY <2>4, <2>5 DEF UpTo
    <2>. QED BY <2>6
  <1>. QED BY <1>2, <1>3

LEMMA UpToUnique ==
    ASSUME NEW k \in Nat, NEW m \in Nat, NEW n \in Nat, n <= k, n <= m,
           NEW g \in UpTo(k), NEW h \in UpTo(m)
    PROVE  g[n] = h[n]
  <1> DEFINE Differ == {j \in Nat : j <= n /\ g[j] # h[j]}
  <1> SUFFICES ASSUME Differ # {} PROVE FALSE
    OBVIOUS
  <1>1. PICK x \in Differ : \A y \in Differ : x <= y
    <2>1. Differ \subseteq Nat
      OBVIOUS
    <2> HIDE DEF Differ
    <2>. QED BY <2>1, LeastExists
  <1>2. x >= 2 => x - 1 \in Nat /\ x - 2 \in Nat /\ g[x - 1] = h[x - 1] /\ g[x - 2] = h[x - 2]
    BY <1>1
  <1>. QED BY <1>2 DEF UpTo

\* The recurrence has a solution, which is all that fib says of itself.
LEMMA FibEquation == fib = [n \in Nat |-> IF n < 2 THEN n ELSE fib[n - 1] + fib[n - 2]]
  <1> DEFINE F == [n \in Nat |-> (CHOOSE g \in UpTo(n) : TRUE)[n]]
  <1>1. \A m \in Nat : (CHOOSE g \in UpTo(m) : TRUE) \in UpTo(m)
    BY UpToExists
  <1>2. F \in [Nat -> Nat]
    BY <1>1 DEF UpTo
  <1>3. ASSUME NEW n \in Nat PROVE F[n] = IF n < 2 THEN n ELSE F[n - 1] + F[n - 2]
    <2> DEFINE g == CHOOSE f \in UpTo(n) : TRUE
    <2>1. g \in UpTo(n)
      BY <1>1
    <2>2. ASSUME NEW k \in Nat, k <= n PROVE F[k] = g[k]
      <3>1. (CHOOSE f \in UpTo(k) : TRUE) \in UpTo(k)
        BY <1>1
      <3>. QED BY <2>1, <2>2, <3>1, UpToUnique
    <2> HIDE DEF g, F
    <2>. QED BY <2>1, <2>2 DEF UpTo
  <1> HIDE DEF F
  <1>4. F = [n \in Nat |-> IF n < 2 THEN n ELSE F[n - 1] + F[n - 2]]
    BY <1>2, <1>3
  <1>. QED BY <1>4 DEF fib

LEMMA FibStarts == fib[0] = 0 /\ fib[1] = 1
  <1>. QED BY FibEquation

LEMMA FibNext == ASSUME NEW n \in Nat, n > 1 PROVE fib[n] = fib[n - 1] + fib[n - 2]
  <1>. QED BY FibEquation

LEMMA FibIsNat == ASSUME NEW n \in Nat PROVE fib[n] \in Nat
  <1> DEFINE Strange == {j \in Nat : fib[j] \notin Nat}
  <1> SUFFICES ASSUME Strange # {} PROVE FALSE
    OBVIOUS
  <1>1. PICK x \in Strange : \A y \in Strange : x <= y
    <2>1. Strange \subseteq Nat
      OBVIOUS
    <2> HIDE DEF Strange
    <2>. QED BY <2>1, LeastExists
  <1>2. x >= 2 => x - 1 \in Nat /\ x - 2 \in Nat /\ fib[x - 1] \in Nat /\ fib[x - 2] \in Nat
    BY <1>1
  <1>3. x > 1 => fib[x] = fib[x - 1] + fib[x - 2]
    BY FibNext
  <1>4. x = 0 \/ x = 1 \/ x > 1
    OBVIOUS
  <1>. QED BY <1>1, <1>2, <1>3, <1>4, FibStarts

\* A number is determined by what it is modulo m and how often m goes into it.
LEMMA RemainderIs ==
    ASSUME NEW m \in Nat, m > 0, NEW n \in Nat, NEW q \in Nat, NEW r \in 0 .. m - 1,
           n = m * q + r
    PROVE  n % m = r
  <1>. QED OBVIOUS

\* It does not matter whether the summands have wrapped before they are added.
LEMMA SumWraps ==
    ASSUME NEW m \in Nat, m > 0, NEW x \in Nat, NEW y \in Nat
    PROVE  ((x % m) + (y % m)) % m = (x + y) % m
  <1> DEFINE sum == (x % m) + (y % m)
             q == (x \div m) + (y \div m) + (sum \div m)
  <1>1. /\ x \div m \in Nat /\ x % m \in Nat /\ x = m * (x \div m) + (x % m)
        /\ y \div m \in Nat /\ y % m \in Nat /\ y = m * (y \div m) + (y % m)
    OBVIOUS
  <1>2. sum \in Nat
    BY <1>1
  <1>3. sum \div m \in Nat /\ sum % m \in 0 .. m - 1 /\ sum = m * (sum \div m) + (sum % m)
    <2> HIDE DEF sum
    <2>. QED BY <1>2
  <1>4. x + y = m * q + (sum % m)
    <2>1. x + y = m * (x \div m) + m * (y \div m) + sum
      BY <1>1
    <2>2. m * q = m * (x \div m) + m * (y \div m) + m * (sum \div m)
      <3> HIDE DEF sum
      <3>. QED BY <1>1, <1>3
    <2> HIDE DEF sum, q
    <2>. QED BY <1>1, <1>2, <1>3, <2>1, <2>2
  <1>5. q \in Nat /\ x + y \in Nat
    BY <1>1, <1>3
  <1> HIDE DEF sum, q
  <1>6. (x + y) % m = sum % m
    BY <1>3, <1>4, <1>5, RemainderIs
  <1>. QED BY <1>6 DEF sum

-----------------------------------------------------------------------------
(* The Fibonacci program *)

\* An iteration leaves the next two numbers, and a task with no iteration left
\* holds its own.
LEMMA IteratedRight ==
    ASSUME NEW n \in Nat, n > 1, NEW v, v.i = n,
           v.a = fib[n - 2] % Modulus, v.b = fib[n - 1] % Modulus
    PROVE  /\ Iterated(v) \in [i : Nat, a : Nat, b : Nat] /\ Iterated(v).i = n + 1
           /\ Iterated(v).a = fib[n - 1] % Modulus /\ Iterated(v).b = fib[n] % Modulus
  <1>1. fib[n - 2] \in Nat /\ fib[n - 1] \in Nat
    BY FibIsNat
  <1>2. fib[n] = fib[n - 2] + fib[n - 1]
    BY <1>1, FibNext
  <1>3. ((fib[n - 2] % Modulus) + (fib[n - 1] % Modulus)) % Modulus = fib[n] % Modulus
    <2>1. Modulus \in Nat /\ Modulus > 0
      OBVIOUS
    <2>2. ((fib[n - 2] % Modulus) + (fib[n - 1] % Modulus)) % Modulus
             = (fib[n - 2] + fib[n - 1]) % Modulus
      BY <1>1, <2>1, SumWraps, Zenon
    <2>. QED BY <1>2, <2>2, Zenon
  <1>4. \A x \in Nat : x % Modulus \in Nat
    OBVIOUS
  <1>5. fib[n - 1] % Modulus \in Nat /\ fib[n] % Modulus \in Nat
    BY <1>1, <1>4, FibIsNat
  <1>. QED BY <1>3, <1>5 DEF Iterated

LEMMA FinishedRight ==
    ASSUME NEW k, index[k] \in Int, LocalsRight(k), locals[k].i > index[k]
    PROVE  (CASE index[k] <= 0 -> 0 [] index[k] = 1 -> 1 [] OTHER -> locals[k].b)
              = (IF index[k] < 0 THEN 0 ELSE fib[index[k]]) % Modulus
  <1>1. 0 % Modulus = 0 /\ 1 % Modulus = 1
    OBVIOUS
  <1>2. CASE index[k] <= 1
    <2>1. index[k] < 0 \/ index[k] = 0 \/ index[k] = 1
      BY <1>2
    <2>. QED BY <1>1, <2>1, FibStarts
  <1>3. CASE index[k] > 1
    <2>1. locals[k].i - 1 = index[k]
      BY <1>3 DEF LocalsRight
    <2>2. locals[k].b = fib[index[k]] % Modulus
      BY <2>1 DEF LocalsRight
    <2>3. ~(index[k] <= 0) /\ index[k] # 1 /\ ~(index[k] < 0)
      BY <1>3
    <2>. QED BY <2>2, <2>3
  <1>. QED BY <1>2, <1>3

LEMMA FibStarted == Init => FibInv
  <1>0. Init /\ items # 0 => DOMAIN index = {}
    BY DEF Init, PipelineInit, FibInit
  <1> SUFFICES ASSUME Init, items = 0 PROVE FibInv
    BY <1>0 DEF FibInv
  <1>1. PICK f \in [1 .. 3 -> Indices] : FibInit(f)
    BY DEF Init, PipelineInit
  <1>2. /\ index \in [1 .. 3 -> Int] /\ DOMAIN result = 1 .. 3
        /\ locals = [k \in 1 .. 3 |-> [i |-> 2, a |-> 0, b |-> 1]]
    BY <1>1 DEF FibInit
  <1>3. 0 % Modulus = 0 /\ 1 % Modulus = 1
    OBVIOUS
  <1>4. ASSUME NEW k \in 1 .. 3 PROVE LocalsRight(k)
    <2>1. locals[k].i = 2 /\ locals[k].a = 0 /\ locals[k].b = 1 /\ 2 - 2 = 0 /\ 2 - 1 = 1
      BY <1>2
    <2>. QED BY <1>3, <2>1, FibStarts DEF LocalsRight
  <1>5. mainPc = "init"
    BY DEF Init, ClientInit
  <1>. QED BY <1>2, <1>4, <1>5 DEF FibInv

\* The calls of main and the dispatch: a run begins with every task in the round
\* and ends with none.
LEMMA FibMainStep ==
    ASSUME ControlInv, FibInv, items = 0, ClientNext, UNCHANGED <<pipeVars, fibVars>>
    PROVE  FibInv'
  <1>1. \A k : (LocalsRight(k)' <=> LocalsRight(k)) /\ (ResultRight(k)' <=> ResultRight(k))
    BY DEF fibVars, LocalsRight, ResultRight
  <1>2. /\ program = PipelineProgram /\ program' = program
        /\ \A k \in 1 .. 3 : program[k] \in Tasks
        /\ NoTask \notin Tasks
    BY DEF ControlInv, PipelineProgram, ClientNext, InitSucceeds, InitFailed, CreateSucceeds,
       CreateFailed, Run, Dispatch, RunReturns, Destroy
  <1>3. ASSUME mainPc' = "running", NEW k \in 1 .. 3
        PROVE  program[k] \in ToSet(waiting') \cup {turn'} \/ ResultRight(k)
    <2>1. CASE Run
      <3>1. waiting' = PipelineProgram
        BY <2>1 DEF Run, BeginRun, ControlInv
      <3>. QED BY <1>2, <3>1 DEF ToSet, PipelineProgram
    <2>2. CASE Dispatch
      <3>1. GiveTurn /\ mainPc = "running"
        BY <1>3, <2>2 DEF Dispatch
      <3>2. program[k] \in ToSet(waiting) \cup {turn} \/ ResultRight(k)
        BY <3>1 DEF FibInv
      <3>. QED BY <1>2, <3>1, <3>2, RoundKept
    <2>. QED BY <1>3, <2>1, <2>2 DEF ClientNext, InitSucceeds, InitFailed, CreateSucceeds,
             CreateFailed, RunReturns, Destroy
  <1>4. ASSUME mainPc' = "destroy", NEW k \in 1 .. 3 PROVE ResultRight(k)
    <2>1. RunReturns
      BY <1>4 DEF ClientNext, InitSucceeds, InitFailed, CreateSucceeds,
         CreateFailed, Run, Dispatch, GiveTurn, Destroy, ControlInv
    <2>2. mainPc = "running" /\ waiting = <<>> /\ turn = NoTask
      BY <2>1 DEF RunReturns, EndRun
    <2>3. ToSet(waiting) = {}
      BY <2>2 DEF ToSet
    <2>. QED BY <1>2, <2>2, <2>3 DEF FibInv
  <1>. QED BY <1>1, <1>2, <1>3, <1>4 DEF FibInv, fibVars, pipeVars

\* An iteration changes the locals of the task whose turn it is, and no result.
LEMMA FibIterateStep ==
    ASSUME ControlInv, FibInv, items = 0, UNCHANGED pipeVars, NEW k \in 1 .. 3, FibIterate(k)
    PROVE  FibInv'
  <1>1. /\ phase = "running" /\ locals[k].i <= index[k] /\ UNCHANGED <<index, result>>
        /\ locals' = [locals EXCEPT ![k] = Iterated(locals[k])]
        /\ PassTurn \/ UNCHANGED coopVars
        /\ UNCHANGED <<program, mainPc>>
    BY DEF FibIterate, InTurn, Yields, clientVars
  <1>2. /\ index \in [1 .. 3 -> Int] /\ DOMAIN result = 1 .. 3
        /\ locals \in [1 .. 3 -> [i : Nat, a : Nat, b : Nat]]
        /\ \A j \in 1 .. 3 : LocalsRight(j)
        /\ \A j \in 1 .. 3 : program[j] \in ToSet(waiting) \cup {turn} \/ ResultRight(j)
        /\ mainPc = "running"
    BY <1>1 DEF FibInv, ControlInv
  <1> DEFINE v == locals[k]
  <1>3. /\ Iterated(v) \in [i : Nat, a : Nat, b : Nat] /\ Iterated(v).i = v.i + 1
        /\ Iterated(v).a = fib[v.i - 1] % Modulus /\ Iterated(v).b = fib[v.i] % Modulus
        /\ v.i \in Nat /\ v.i > 1
    <2>1. /\ v.i \in Nat /\ v.i > 1
          /\ v.a = fib[v.i - 2] % Modulus /\ v.b = fib[v.i - 1] % Modulus
      BY <1>2 DEF LocalsRight
    <2> HIDE DEF v
    <2>. QED BY <2>1, IteratedRight
  <1>4. LocalsRight(k)'
    <2>1. locals'[k] = Iterated(v)
      BY <1>1, <1>2
    <2>2. /\ v.i + 1 \in Nat /\ v.i + 1 > 1 /\ v.i + 1 <= index[k] + 1
          /\ v.i + 1 - 2 = v.i - 1 /\ v.i + 1 - 1 = v.i
      BY <1>1, <1>2, <1>3
    <2> HIDE DEF v
    <2>. QED BY <1>1, <1>3, <2>1, <2>2 DEF LocalsRight
  <1>5. ASSUME NEW j \in 1 .. 3, j # k PROVE LocalsRight(j)'
    <2>1. locals'[j] = locals[j] /\ index' = index /\ LocalsRight(j)
      BY <1>1, <1>2, <1>5
    <2>. QED BY <2>1 DEF LocalsRight
  <1>6. \A j \in 1 .. 3 : ResultRight(j)' <=> ResultRight(j)
    BY <1>1 DEF ResultRight
  <1>7. ASSUME NEW j \in 1 .. 3
        PROVE  program[j] \in ToSet(waiting') \cup {turn'} \/ ResultRight(j)
    <2>1. CASE PassTurn
      <3>1. program[j] \in Tasks
        BY DEF ControlInv, PipelineProgram
      <3>. QED BY <1>2, <2>1, <3>1, RoundKept
    <2>. QED BY <1>1, <1>2, <2>1 DEF coopVars
  <1>8. locals' \in [1 .. 3 -> [i : Nat, a : Nat, b : Nat]]
    BY <1>1, <1>2, <1>3
  <1>. QED BY <1>1, <1>2, <1>4, <1>5, <1>6, <1>7, <1>8 DEF FibInv, pipeVars

\* A task that leaves the run leaves its number, and every other task its place.
LEMMA FibFinishStep ==
    ASSUME ControlInv, FibInv, items = 0, UNCHANGED pipeVars, NEW k \in 1 .. 3, FibFinish(k)
    PROVE  FibInv'
  <1>1. /\ phase = "running" /\ turn = program[k] /\ locals[k].i > index[k]
        /\ result' = [result EXCEPT ![k] = CASE index[k] <= 0 -> 0
                                             [] index[k] = 1 -> 1
                                             [] OTHER -> locals[k].b]
        /\ UNCHANGED <<index, locals, waiting, program, mainPc>>
    BY DEF FibFinish, InTurn, Returns, Finish
  <1>2. /\ index \in [1 .. 3 -> Int] /\ DOMAIN result = 1 .. 3
        /\ locals \in [1 .. 3 -> [i : Nat, a : Nat, b : Nat]]
        /\ \A j \in 1 .. 3 : LocalsRight(j)
        /\ \A j \in 1 .. 3 : program[j] \in ToSet(waiting) \cup {turn} \/ ResultRight(j)
        /\ mainPc = "running"
    BY <1>1 DEF FibInv, ControlInv
  <1>3. ResultRight(k)'
    <2> DEFINE left == CASE index[k] <= 0 -> 0 [] index[k] = 1 -> 1 [] OTHER -> locals[k].b
    <2>1. left = (IF index[k] < 0 THEN 0 ELSE fib[index[k]]) % Modulus
      BY <1>1, <1>2, FinishedRight
    <2>2. result'[k] = left /\ index' = index
      BY <1>1, <1>2
    <2> HIDE DEF left
    <2>. QED BY <2>1, <2>2 DEF ResultRight
  <1>4. ASSUME NEW j \in 1 .. 3, j # k
        PROVE  /\ ResultRight(j)' <=> ResultRight(j)
               /\ program[j] \in ToSet(waiting) \/ ResultRight(j)
    <2>1. result'[j] = result[j] /\ index' = index
      BY <1>1, <1>2, <1>4
    <2>2. program[j] # program[k]
      BY <1>4 DEF ControlInv, PipelineProgram
    <2>. QED BY <1>1, <1>2, <2>1, <2>2 DEF ResultRight
  <1>5. \A j \in 1 .. 3 : LocalsRight(j)'
    BY <1>1, <1>2 DEF LocalsRight
  <1>6. DOMAIN result' = 1 .. 3
    BY <1>1, <1>2
  <1>. QED BY <1>1, <1>2, <1>3, <1>4, <1>5, <1>6 DEF FibInv, pipeVars

LEMMA FibKeeps == ControlInv /\ FibInv /\ [Next]_vars => FibInv'
  <1> SUFFICES ASSUME ControlInv, FibInv, [Next]_vars PROVE FibInv'
    OBVIOUS
  <1>1. CASE UNCHANGED vars
    <2>1. \A k : (LocalsRight(k)' <=> LocalsRight(k)) /\ (ResultRight(k)' <=> ResultRight(k))
      BY <1>1 DEF vars, fibVars, LocalsRight, ResultRight
    <2>. QED BY <1>1, <2>1 DEF vars, clientVars, coopVars, pipeVars, fibVars, FibInv
  <1>2. CASE items # 0 /\ ~UNCHANGED vars
    <2>1. index' = index /\ items' = items
      BY <1>2 DEF Next, fibVars, pipeVars, PipelineTurn, ProducerTurn, ProcessorTurn, ConsumerTurn
    <2>. QED BY <1>2, <2>1 DEF FibInv
  <1>3. CASE items = 0 /\ ~UNCHANGED vars
    <2>1. \/ ClientNext /\ UNCHANGED <<pipeVars, fibVars>>
          \/ \E k \in DOMAIN index : (FibIterate(k) \/ FibFinish(k)) /\ UNCHANGED pipeVars
      BY <1>3 DEF Next, FibStep
    <2>2. DOMAIN index = 1 .. 3
      BY <1>3 DEF FibInv
    <2>. QED BY <1>3, <2>1, <2>2, FibMainStep, FibIterateStep, FibFinishStep
  <1>. QED BY <1>1, <1>2, <1>3

LEMMA FibHolds == Spec => [](ControlInv /\ FibInv)
  <1>. QED BY ControlInit, FibStarted, ControlStep, FibKeeps, PTL DEF Spec

-----------------------------------------------------------------------------
(* The properties *)

\* The first k squares as one sequence.
LEMMA PrintedSquares ==
    ASSUME NEW k \in Nat, Printed(k)
    PROVE  consumed = Squares(k) /\ consumed \in Seq(Nat)
  <1>1. DOMAIN consumed = 1 .. k
    BY LenProperties DEF Printed
  <1>2. consumed = [i \in 1 .. k |-> consumed[i]]
    BY <1>1, LenProperties DEF Printed
  <1>. QED BY <1>2 DEF Printed, Squares

\* The first k squares, one short, and the square to come.
LEMMA SquaresNext ==
    ASSUME NEW k \in Nat, k > 0, Printed(k - 1)
    PROVE  consumed \o <<k * k>> = Squares(k)
  <1>1. /\ consumed \in Seq(Nat) /\ Len(consumed) = k - 1 /\ k * k \in Nat
        /\ <<k * k>> \in Seq(Nat) /\ Len(<<k * k>>) = 1
        /\ \A i \in 1 .. k - 1 : consumed[i] = i * i
    BY DEF Printed
  <1> DEFINE s == consumed \o <<k * k>>
  <1>2. /\ s \in Seq(Nat) /\ Len(s) = k
        /\ \A i \in 1 .. k : s[i] = IF i <= k - 1 THEN consumed[i] ELSE <<k * k>>[i - (k - 1)]
    BY <1>1, ConcatProperties
  <1> HIDE DEF s
  <1>3. ASSUME NEW i \in 1 .. k PROVE s[i] = i * i
    <2>1. CASE i <= k - 1
      <3>1. i \in 1 .. k - 1 /\ s[i] = consumed[i]
        BY <1>2, <2>1
      <3>. QED BY <1>1, <3>1
    <2>2. CASE i = k
      <3>1. s[i] = <<k * k>>[1]
        BY <1>2, <2>2
      <3>. QED BY <2>2, <3>1
    <2>. QED BY <2>1, <2>2
  <1>4. s = [i \in 1 .. k |-> s[i]]
    BY <1>2, LenProperties
  <1>. QED BY <1>3, <1>4 DEF Squares, s

\* What the invariant says of the values on their way.
LEMMA Account == ControlInv /\ PipelineInv => NothingLost
  <1> SUFFICES ASSUME ControlInv, PipelineInv PROVE NothingLost
    OBVIOUS
  <1>1. items \in Nat /\ produced \in Nat
    BY DEF PipelineInv
  <1>2. ASSUME NEW d, NEW e, Slots(0, 0, d, e), Printed(produced)
        PROVE  NothingLost
    <2>1. Underway = (consumed \o <<>>) \o <<>>
      BY <1>2 DEF Underway, Slot, Slots
    <2>. QED BY <1>1, <1>2, <2>1, PrintedSquares, ConcatEmptySeq DEF NothingLost
  <1>3. CASE ProcessorsTurn
    <2>1. /\ channel.raw_value = produced /\ channel.processed_value = 0
          /\ produced > 0 /\ produced * produced # 0 /\ Printed(produced - 1)
      BY <1>1, <1>3 DEF ProcessorsTurn, Slots
    <2>2. Underway = (consumed \o <<>>) \o <<produced * produced>>
      BY <2>1 DEF Underway, Slot
    <2>3. consumed \o <<>> = consumed
      BY <2>1, ConcatEmptySeq DEF Printed
    <2>. QED BY <1>1, <2>1, <2>2, <2>3, SquaresNext DEF NothingLost
  <1>4. CASE ConsumersTurn
    <2>1. /\ channel.raw_value = 0 /\ channel.processed_value = produced * produced
          /\ produced > 0 /\ produced * produced # 0 /\ Printed(produced - 1)
      BY <1>1, <1>4 DEF ConsumersTurn, Slots
    <2>2. Underway = (consumed \o <<produced * produced>>) \o <<>>
      BY <2>1 DEF Underway, Slot
    <2>3. /\ Squares(produced) = consumed \o <<produced * produced>>
          /\ Squares(produced) \in Seq(Nat)
      <3>1. consumed \in Seq(Nat) /\ <<produced * produced>> \in Seq(Nat)
        BY <1>1, <2>1 DEF Printed
      <3>. QED BY <1>1, <2>1, <3>1, SquaresNext, ConcatProperties
    <2>. QED BY <2>2, <2>3, ConcatEmptySeq DEF NothingLost
  <1>5. CASE \E d, e : Slots(0, 0, d, e) /\ Printed(produced)
    BY <1>2, <1>5
  <1>6. \/ ProcessorsTurn \/ ConsumersTurn
        \/ Slots(0, 0, FALSE, FALSE) /\ Printed(produced)
        \/ Slots(0, 0, TRUE, FALSE) /\ Printed(produced)
        \/ Slots(0, 0, TRUE, TRUE) /\ Printed(produced)
    <2>1. CASE AllEmpty(0)
      BY <2>1 DEF AllEmpty
    <2>2. CASE mainPc = "running" /\ RunningInv
      BY <2>1, <2>2 DEF RunningInv, ProducersTurn, WithoutProducer, WithoutProcessor,
         AllEmpty, AllDone
    <2>3. CASE Slots(0, 0, TRUE, TRUE) /\ AllDone
      BY <2>3 DEF AllDone
    <2>4. AllEmpty(0) \/ ChannelInv
      BY <1>1 DEF PipelineInv
    <2>. QED BY <2>1, <2>2, <2>3, <2>4 DEF ChannelInv, ControlInv
  <1>. QED BY <1>2, <1>3, <1>4, <1>6

\* No task of the pipeline overwrites a full slot and none takes a value twice,
\* for any number of items (examples/10_pipeline.c).
THEOREM PipelineLosesNothing == Spec => []NothingLost
  <1>. QED BY PipelineHolds, Account, PTL

\* When gt_run comes back the consumer has had every value, for any number of
\* items (examples/10_pipeline.c).
THEOREM PipelineDeliversAll == Spec => []RunDeliversAll
  <1>1. PipelineInv => RunDeliversAll
    <2>1. ASSUME PipelineInv, items > 0, mainPc = "destroy" \/ exitCode = "success"
          PROVE  Printed(items) /\ items \in Nat
      BY <2>1 DEF PipelineInv, ChannelInv, AllDone
    <2>2. ASSUME PipelineInv, items = 0
          PROVE  Printed(items) /\ items \in Nat
      BY <2>2 DEF PipelineInv, AllEmpty
    <2>3. PipelineInv => items \in Nat
      BY DEF PipelineInv
    <2>. QED BY <2>1, <2>2, <2>3, PrintedSquares DEF RunDeliversAll
  <1>. QED BY PipelineHolds, <1>1, PTL

\* When gt_run comes back every task has left its number, for any numbers and any
\* width of the words, wherever the other tasks' turns fell between its own
\* (examples/09_fibonacci.c).
THEOREM FibonacciRight == Spec => []ResultsRight
  <1>1. FibInv => ResultsRight
    BY DEF FibInv, ResultsRight, ResultRight
  <1>. QED BY FibHolds, <1>1, PTL
=============================================================================
