------------------------------ MODULE Pipeline ------------------------------
(***************************************************************************)
(* The tasks of examples/10_pipeline.c: a producer, a processor and a      *)
(* consumer that hand values on in two slots, without any lock: a slot is  *)
(* safe because a task keeps the processor until it yields, and because    *)
(* turns go round.                                                         *)
(***************************************************************************)
EXTENDS Client

CONSTANTS Producer, Processor, Consumer

ASSUME StagesAreTasks ==
    /\ {Producer, Processor, Consumer} \subseteq Tasks /\ NoTask \notin Tasks
    /\ Producer # Processor /\ Processor # Consumer /\ Consumer # Producer

VARIABLES
    items,    \* PIPELINE_ITEMS
    channel,  \* the struct pipeline_channel
    produced, \* the producer's loop variable, 0 before its first turn
    consumed  \* what the consumer has printed

pipeVars == <<items, channel, produced, consumed>>

PipelineProgram == <<Producer, Processor, Consumer>>

PipelineInit(n) ==
    /\ items = n
    /\ channel = [raw_value |-> 0, processed_value |-> 0,
                  producer_done |-> FALSE, processor_done |-> FALSE]
    /\ produced = 0
    /\ consumed = <<>>

\* Faulty: the loop ends one value early.
ProducerTurnShort ==
    /\ InTurn(Producer)
    /\ IF produced + 1 < items
       THEN /\ channel' = [channel EXCEPT !.raw_value = produced + 1]
            /\ produced' = produced + 1
            /\ Yields
       ELSE /\ channel' = [channel EXCEPT !.producer_done = TRUE]
            /\ produced' = produced
            /\ Returns
    /\ UNCHANGED <<items, consumed>>

ProducerTurn ==
    /\ InTurn(Producer)
    /\ IF produced + 1 <= items
       THEN /\ channel' = [channel EXCEPT !.raw_value = produced + 1]
            /\ produced' = produced + 1
            /\ Yields
       ELSE /\ channel' = [channel EXCEPT !.producer_done = TRUE]
            /\ produced' = produced
            /\ Returns
    /\ UNCHANGED <<items, consumed>>

\* Faulty: the raw value stays in its slot.
ProcessedTwice(c) ==
    IF c.raw_value # 0
    THEN [c EXCEPT !.processed_value = c.raw_value * c.raw_value]
    ELSE c

\* What the processor leaves in the channel when it finds a raw value.
Processed(c) ==
    IF c.raw_value # 0
    THEN [c EXCEPT !.processed_value = c.raw_value * c.raw_value, !.raw_value = 0]
    ELSE c

\* Faulty: the processor does not say that it is done.
ProcessorTurnSilent ==
    /\ InTurn(Processor)
    /\ IF ~channel.producer_done \/ channel.raw_value # 0
       THEN channel' = Processed(channel) /\ Yields
       ELSE channel' = channel /\ Returns
    /\ UNCHANGED <<items, produced, consumed>>

ProcessorTurn ==
    /\ InTurn(Processor)
    /\ IF ~channel.producer_done \/ channel.raw_value # 0
       THEN channel' = Processed(channel) /\ Yields
       ELSE channel' = [channel EXCEPT !.processor_done = TRUE] /\ Returns
    /\ UNCHANGED <<items, produced, consumed>>

ConsumerTurn ==
    /\ InTurn(Consumer)
    /\ IF ~channel.processor_done \/ channel.processed_value # 0
       THEN /\ IF channel.processed_value # 0
               THEN /\ consumed' = Append(consumed, channel.processed_value)
                    /\ channel' = [channel EXCEPT !.processed_value = 0]
               ELSE UNCHANGED <<consumed, channel>>
            /\ Yields
       ELSE UNCHANGED <<consumed, channel>> /\ Returns
    /\ UNCHANGED <<items, produced>>

PipelineTurn == ProducerTurn \/ ProcessorTurn \/ ConsumerTurn

-----------------------------------------------------------------------------
(* Properties *)

\* What is on its way: consumed, then in the second slot, then in the first.
Slot(v) == IF v = 0 THEN <<>> ELSE <<v>>
Squares(n) == [i \in 1 .. n |-> i * i]
Underway == consumed \o Slot(channel.processed_value)
                     \o Slot(channel.raw_value * channel.raw_value)

\* Every value the producer has put into the channel is consumed, or in exactly
\* one slot, in order: no task overwrites a slot that is not empty and none takes
\* a value twice, though no slot is ever tested before it is written.
NothingLost == Underway = Squares(produced)

\* When gt_run comes back the consumer has had every value: no task ended with a
\* value still to come, and main reports success for that only.
RunDeliversAll ==
    mainPc = "destroy" \/ exitCode = "success" => consumed = Squares(items)
=============================================================================
