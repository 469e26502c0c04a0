\* Up to a dozen values through the pipeline; three Fibonacci tasks, of numbers
\* below two, that end between yields, on a yield and just behind one.
SPECIFICATION Spec
CONSTANTS
    Tasks = {producer, processor, consumer}
    Producer = producer
    Processor = processor
    Consumer = consumer
    NoTask = NoTask
    Modulus = 64
    MaxItems = 12
    Indices = {0, 1, 2, 4, 5, 6, 10, 12}
INVARIANTS
    NothingLost
    RunDeliversAll
    ResultsRight
PROPERTY
    ExampleEnds
