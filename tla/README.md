# green-threads: models and proofs

TLA+ models of the green-threads runtime, the TLC configurations that check
them on small instances, and TLAPS proofs of what holds on every instance.
Paths below are relative to the repository root; `src/...` is the C source
directory and `internal/...` the private headers.

## 1. The system

A user-level threading library for one kernel thread on x86_64 Linux. Tasks
are cooperative: one runs until it calls `gt_yield` or its entry function
returns. Nothing is preempted, nothing is shared between kernel threads, and
nothing survives the process. What makes the code hard is that control leaves a
function in one stack and comes back in another, and that the objects being
managed include the stack that is executing.

| Component | State | Operations | Must hold |
|---|---|---|---|
| Public API, runtime lifecycle (`src/runtime.c`, `src/runtime/runtime.c`) | `struct gt_runtime`: state, lists, ID pool, count, current task, main context | `gt_init`, `gt_create_task`, `gt_run`, `gt_yield`, `gt_destroy` | wrong calls panic; after `gt_destroy` a new `gt_init` starts clean |
| Task creation and destruction (`src/runtime/runtime_task.c`, `src/task/task.c`) | task records on `rt_tasks` / `rt_zombies` | create with rollback, destroy, reap | no record, identifier or stack leaks or is shared, however a creation fails |
| Execution and scheduling path (`runtime_execution.c`, `runtime_scheduler.c`) | `rt_current`, `t_state`, contexts | run, yield, exit, schedule | one RUNNING task, on its own stack; a run ends when and only when every task has ended |
| Scheduler (`src/scheduler/scheduler.c`) and queue (`ds/queue`) | ready queue | admit, next | exactly the READY tasks, each once, FIFO |
| Context switch (`src/platform/context/backend/x86_64`) | `struct gt_context`, words on stacks | save, load, configure, start | a load continues the function that saved, with its frame intact |
| Stacks, virtual memory, page size (`src/memory/stack`, `src/platform/vm`, `src/platform/page`) | mappings, page protections, cached page size | stack init with rollback, destroy | a guard page at both ends, at least the size asked for, no page left behind |
| ID pool and bitmap (`ds/id_pool`, `ds/bitmap`) | words of bits | allocate, release, searches, set_all | lowest free identifier, never one in use; the partial last word is right |
| Intrusive list (`ds/list`) | next / prev pointers | insert, remove, move | the pointers are those of the sequence the callers believe in |
| Status codes (`include/gt/error.h`, `src/runtime/error.c`) | none | the statuses of `gt_init` and `gt_create_task`, `gt_status_string` | a call that fails says so, and why, in words of its own |
| Examples (`examples/09_fibonacci.c`, `10_pipeline.c`) | their locals and shared structures | turns between two yields | results do not depend on where turns fall; unlocked slots lose nothing |
| Heap, assertions, panic | allocator, process | alloc, free, abort | (environment of the others) |
| Logging, version | none | formatting | not modelled |

They interact by calls only. The scheduler path is the exception: it is entered
by a call and left by `gt_context_load`, so `gt_run` and `gt_yield` return when
another call of the scheduler, made from another stack, loads their context.

Hard behaviours: tasks interleave at yields, exits and creations in any order;
a creation fails at any of four points; a task ends while standing on the stack
that is to be released; zombies keep identifier, count and stack until the run
is over; identifiers and addresses are reused; `gt_destroy` frees READY tasks
without unlinking them from the ready queue; a saved context is only a pointer
to a word that the code goes on overwriting. `PROJECT.json` lists each of these
as a hazard at its line, with the properties that would notice it going wrong.

## 2. Modules

| Module | Models |
|---|---|
| `CoopSched` | the abstract promise: a FIFO cooperative scheduler with three variables |
| `Runtime` | the five operations, and everything they do to tasks, lists, queue, identifiers, stacks and contexts |
| `Status` | the status codes and their texts |
| `RuntimeCalls` | `Runtime` with the status each call returns, and what was held when a creation began |
| `RuntimeInvariant` | the inductive invariant of `Runtime` |
| `MCRuntime`, `MCCalls` | the instances of `Runtime` and `RuntimeCalls` for TLC (symmetry) |
| `ContextSwitch` | save and load word by word under `gt_run`, `gt_yield` and the scheduler |
| `IdSet`, `IdPool` | what an ID pool promises; the pool over the bitmap, word by word |
| `StackMemory` | stacks over mappings and pages, with sizes that wrap |
| `IntrusiveList` | the lists pointer by pointer, and the safe iteration over them |
| `Client`, `Pipeline`, `Fibonacci`, `MCExamples` | the main program of the examples over `CoopSched`, the tasks of two of them, their instance |
| `SeqFacts` | lemmas on `Append`, `Head`/`Tail`, `RemoveAt` and `InsertAt`, and that a set of numbers has a least element |
| `RuntimeInduction`, `RuntimeProofs` | the induction about `Runtime`; the theorems that follow for `Runtime` and `RuntimeCalls`, and the proof that `Runtime` implements `CoopSched` |
| `ContextProofs`, `ListProofs`, `StackProofs`, `PoolProofs`, `ExampleProofs` | the proofs about `ContextSwitch`, `IntrusiveList`, `StackMemory`, `IdPool` and the examples of `MCExamples` |

`Runtime` takes for granted what the lower modules show: that the pool is a set
of identifiers from which the lowest free one is taken (`IdPool`, against
`IdSet`), that a stack is a region which is mapped or not (`StackMemory`), that
the lists are sequences (`IntrusiveList`), and that a load continues the
function that saved (`ContextSwitch`). In the other direction the examples take
for granted what `CoopSched` says, which `Runtime` is shown to implement.

### How `Runtime` corresponds to the code

The variables are the fields of `struct gt_runtime` and `struct gt_task`, the
allocated addresses (`heap`), the mapped regions (`mapped`), the page-size
cache, and the processor: `cpu` is the stack it executes on, `pc`, `arg`,
`argId` the place and the locals of the runtime function being executed. One
variable is no part of the program: `lost` remembers the regions that munmap
refused to release and that nobody has a record of any more. While
`pc = "user"` the program (its main function or a task) may make any call.

A function that can fail half way, that loops, or that switches stacks is a
sequence of steps. The creation of a task is `CreateAllocates`, then
`CreateTakesId` or `CreateFindsNoId`, then `CreateMapsStack` or one of its two
failures with their rollback, then `CreatePublishes`. A call of `gt_run`,
`gt_yield` or the end of a task is the step that saves, then `ResumeTask` or
`ResumeMain`. A destruction is `DestroyUnmaps` (up to `gt_task_destroy`) and
`DestroyFrees`, repeated until the list is empty. All steps of a call follow each
other without anything in between: one kernel thread executes them. They are
steps so that the failure points, and a stack that disappears under the
function executing on it (`ExecutionFaults`), can be told apart.

A context is the stack its `rsp` points into and the place where it continues.
`gt_context_load` leaves the registers as they are while the stack moves on, so
a context that has been loaded is marked `stale`; loading it again, or loading
one that was never written, is a fault.

`GT_ASSERT` is enabled in every build of the Makefile. A call that the caller
may not make ends in outcome `abort` (`MisusePanics`), an internal assertion
that does not hold in `assert`, a load of a dead context in `wild`, execution on
a stack that is gone in `fault`.

### `RuntimeCalls`

Every step of `Runtime` together with what the caller gets to see in it: `status`
is the value the call returns in this step, `before` what the runtime held when
`gt_create_task` was entered. The errno of a failed mmap is a choice between
ENOMEM and another, which is all `gt_vm_mapping_reserve` looks at.

Each operator whose name tells of a fault and whose comment begins with
"Faulty:" is a wrong variant of the operator after it. The specification does
not use them: they document which mistake each property would notice.

### `ContextSwitch`

`gt_context_save` stores the stack pointer as it is inside the function, that is,
the place of its own return address. By the time the context is loaded that word
has long been popped, and what it holds is decided by the calls the function
made since. The model keeps the words of every stack, pushes what the prologues
and calls push, and lets a load return to whatever word it finds. `TailCall`
says whether the build compiles the last call of `gt_runtime_yield` as a jump.
The compiler output behind it is gcc's: `-O0` emits a call; `-O2` emits
`leave; jmp __gt_runtime_schedule`, with prologues of equal size in both
functions. The `Makefile` builds with clang (line 5), its release with
`-O2 -flto` (lines 58 to 63), which allows the same jump, and to inline the
scheduler, where no return address is left in the word either; its output
has not been inspected. In `gt_runtime_run` the call is followed by the reaping
and never becomes a jump.

The calls that never come back, from the trampoline through
`__gt_runtime_task_exit` to the scheduler, leave their frames and return addresses
on the stack of the task that ended; what returned to one of them would be lost.

The registers that a prologue pushes are one word of the stack. The others stay
in the processor while a function runs; `callee` says whose values they hold,
`kept` whose values the context of each flow has, NULL for a context that
`gt_context_configure` has cleared.

### `IdPool` and `IntrusiveList`

A word of the bitmap is the set of the offsets of its set bits. `PoolInit` may
come at any time, for any capacity, on the storage as the last pool left it;
bits of words it does not use stay what they were. (The runtime clears the
storage first, `src/runtime/runtime.c:54`, and has one capacity: this is the
pool's own contract.) A caller may release any identifier: one that is out of
range or free ends the process in an assertion, outcome `assert`
(`ReleasePanics`). `gt_id_pool_init` for no identifiers at all is not modelled. In `IntrusiveList` the
variable `order` keeps, beside the pointers, the sequences that callers believe
in; `walk`, `pos`, `nxt` and `toVisit` are an iteration by
`GT_LIST_FOR_EACH_SAFE` under way, whose body takes the current node out, or to
another list, or leaves it.

### Examples

`Client` is the `main` that the examples share: it leaves early when the
initialisation or a creation fails. In `Pipeline` a turn, from one `gt_yield` to
the next or to the return, is one step, because nothing else runs meanwhile; the
number of items is a variable, fixed by the initial state. In `Fibonacci` a step is
one iteration of the loop, with or without a yield (`FibIterate`), or what comes
behind the loop (`FibFinish`): while an iteration does not yield, the turn stays
with its task. The indices are a variable as well; `Modulus`, 2^64 in the code, is
where the integers wrap.

## 3. Runs

All runs check deadlock as well.

| Run | Instance | Shows |
|---|---|---|
| `runtime_safety` | 5 addresses, 5 regions, 4 identifiers, munmap may fail, tasks may call `gt_destroy` | types; tasks, identifiers, stacks and the ready queue are accounted for; `rt_current` is who executes; loadable contexts are fresh; no internal failure; a run drains; the life cycle drawn in `design/invariants.md` and `docs/task/contract.md`; a task keeps its identifier and its stack; nobody in the ready queue is overtaken; a creation is all or nothing and is refused exactly when the pool is full; the invariant of the proofs |
| `runtime_fair` | 4 addresses, 3 regions, 3 identifiers, tasks may call `gt_destroy`, munmap works | every READY task runs; release loops end; a run whose tasks finish ends; only `gt_destroy` takes away the executing stack, and it leaves none mapped; `Runtime` implements `CoopSched` |
| `self_destroy` | as safety, munmap works | violation of `StackAlive` |
| `release_fails` | as safety, tasks do not call `gt_destroy` | violation of `NothingLeftMapped` |
| `status_unnamed` | 4 addresses, 4 regions, 3 identifiers | violation of `StatusesNamed` |
| `context_calls` | 3 tasks, user code two calls deep, no tail calls | waiting flows are intact, user code gets stack and registers back, loads never return |
| `context_tail_call` | 3 tasks, the tail-calling build | violation of `LoadNeverReturns` |
| `id_pool` | words of 4 bits, capacities 1 to 10, set up again at any time | searches, masks, what a release clears and what its assertions let through, refinement of `IdSet` |
| `stack_memory` | 3 stacks, 9 pages of 2, all sizes modulo 32 | guards, room, no leaked pages |
| `intrusive_list` | 2 lists, 5 nodes | list invariant, traversals, safe iteration |
| `admitted_twice` | the same, callers may push a linked node | violation of `ListInvariant` |
| `examples` | pipelines of 1 to 12 items; three Fibonacci tasks, each with any of 8 indices, integers modulo 64 | nothing lost or doubled, all delivered, right results, every example ends |

Why the bounds are enough. `Runtime` has no counter to cap: every reachable state
of an instance is explored. With one address and one region more than
identifiers, exhaustion of the pool happens while records and regions remain;
with five addresses a queue of four waiting tasks, a running one that creates,
zombies and reuse of identifiers and addresses all occur together. Tasks differ
only in identity, hence symmetry in the safety runs (never in the liveness
runs). Four-bit words make capacities of one to three words, partial and whole,
small enough for every subset of bits to be reached. Nine pages hold two or
three stacks side by side at every offset, and sizes modulo 32 include all that
wrap. Two calls of user code below a task's first function give frames of
different depth on each stack; `Depth` is large enough for them (an assumption
states by how much) and the type invariant shows the stack pointer stays inside.
The Fibonacci indices end a computation before its first yield, at a yield and
between two, and the largest sums wrap at 64; twelve items let the pipeline
run full for several rounds. The example starts five Fibonacci tasks with fixed indices;
three with any of eight indices end in every order.
`ResultsRight` checks the iteration and its modulus. That the locals of a computation
survive the turns of others is not its subject, each task having its own in the
model, but that of `StackBalanced`, `WaitingIntact` and `RegistersKept`.

### Fairness

`RuntimeProceeds` is weak fairness of the steps of a runtime function: one kernel
thread, no function waits for anything; a function whose stack is gone faults.
`TasksCooperate` is strong fairness of
`gt_yield` or return: the cooperative contract, a task that gets back to its own
code again and again (between creations) does not keep the processor for ever.
`TasksFinish` asks more, and only `RunEnds` has it as its hypothesis: a task that
keeps getting turns returns in the end. Nothing forces the main program to call
anything. The examples are closed programs: `MCExamples` has weak fairness of
its next-state relation, since neither they nor the runtime below ever wait.

### Findings

* `context_tail_call`: a resumed task comes out of `gt_context_load` inside the
  scheduler, in code marked unreachable. Observed with gcc: the tests for
  yielding and scheduling order fail when the library is compiled with `-O2`,
  and pass with `-O0`. The release build of the `Makefile` is clang's
  `-O2 -flto`, which is free to make the same jump or to inline the scheduler.
* `self_destroy`: `gt_destroy` is accepted from a running task and unmaps the
  stack it runs on (`design/invariants.md:204`).
* `release_fails`: the status of a failed `munmap` is dropped in
  `src/memory/stack/stack.c` (`design/invariants.md:199` and `:269`), so the
  mapping outlives `gt_destroy`.
* `status_unnamed`: `gt_status_string` has no case for
  `GT_STATUS_RESOURCE_EXHAUSTED`, which `gt_create_task` returns
  (`docs/error/contract.md:119`).
* `admitted_twice`: duplicate admission is not detected, although
  `docs/scheduler/contract.md:283` lists it among what assertions detect. No
  caller in the library does it (`ReadyQueueExact`).

Two sentences of `design/invariants.md` (lines 92 and 94) the code does not mean to
follow: a runtime that has stopped may run again, and tasks are created before the
run, as every example does. The models follow the code, and the properties of
`Runtime` cover any number of runs with creations before, in and between them.

## 4. Proofs

The assumptions on the constants are named in the modules that declare them:

* the runtime: any sets `Tasks` and `Regions` and any `Capacity > 0`; the addresses
  are distinct from NULL and from the main stack, the flags are Boolean. Where
  nothing else is said, munmap may fail or not and tasks may call `gt_destroy` or
  not;
* context switches: any set of tasks, any depth of user code, and stacks of any
  depth that leave eight words for the runtime;
* lists: any sets of heads and of nodes;
* stacks: any number of stacks and pages, any page size that divides the range of
  `size_t`, whole pages as the default size (`DefaultIsWholePages`: 64 KiB
  in the code, over pages of 4 KiB), and an address space that ends before that range does;
* the pool: words of any width, any `MaxIds > 0`, NULL is not an identifier;
* the examples: three distinct tasks, any number of items, any integers as indices,
  and any `Modulus > 1`.

| Module | Proved |
|---|---|
| `RuntimeProofs` | `Spec => []Inv`, and from it `TypeOK`, `TasksAccounted`, `IdsAccounted`, `StacksAccounted`, `ReadyQueueExact`, `CurrentOwnsCpu`, `ContextsLoadable`, `NoInternalFailure`, `RunDrains`, `StackHeld`, `TaskLifeCycle`, `ConfigurationKept`, `NobodyOvertakes`; if munmap works, `NothingLeftMapped`; if no task calls `gt_destroy`, `StackAlive`; if one or the other is so, that `Runtime` implements `CoopSched`; for the calls, `CallSpec => Spec`, `ExhaustedExactlyWhenFull`, `CreationAllOrNothing` |
| `ContextProofs` | if the build makes no tail calls, `TypeOK`, `StackBalanced`, `WaitingIntact`, `RegistersKept`, `LoadNeverReturns` of `ContextSwitch` |
| `ListProofs` | if no caller inserts a linked node, `ListInvariant`, `TraversalsAgree`, `WalkVisitsAll` |
| `StackProofs` | `GuardsHold`, `RoomAsked`; if munmap works, `PagesAccounted` |
| `PoolProofs` | `TrailingBitsClear`, `OwnedAreAllocated`, `SearchesExact`, and that `IdPool` implements `IdSet` |
| `ExampleProofs` | `NothingLost`, `RunDeliversAll`, `ResultsRight` |

The conditions of `StackAlive`, of `ContextProofs`, of `ListProofs`, of
`NothingLeftMapped` and of `PagesAccounted` are needed: `self_destroy`,
`context_tail_call`, `admitted_twice` and `release_fails` show what happens without
them. So is that of the refinement: when a task calls `gt_destroy` and munmap leaves
it its stack, it takes the runtime down in the middle of a run. When munmap takes the
stack away the process ends before `rt_state` changes.

The safety properties of `Runtime` speak of moments at which no runtime function
is under way, so they are not inductive. `Inv` says what holds at every step
while the process lives. Its first half, `AccountInv`: at each `pc`, which task
and identifier belong to the function executing (`ArgInv`), which states are
possible there (`StateInv`), that the two lists are disjoint, without repetition
and together with the function's own task are the heap (`ListsInv`), that the
count fits (`CountInv`), that identifiers are unique and are those of the owned
tasks plus the one in hand (`IdsInv`), and that outside `gt_destroy` the queue
holds the READY tasks (`ReadyInv`). Its second half, `ExecutionInv`: who owns
which region (`StacksInv`), which states the tasks on each list have
(`TaskStatesInv`), on whose stack the thread is (`CpuInv`), and what may be loaded
(`ContextsInv`). Only during `gt_destroy` the queue may name freed tasks, and it is
cleared before anyone looks. Once the process has ended nothing is claimed but
types and that it did not end in an internal failure, which is part of `Inv`
because the accounts are what makes the internal assertions hold.

`RuntimeInduction` proves that steps keep the first half, one lemma per group of
operations, and then the second, which needs the first. `StackHeld` is
inductive relative to `Inv`, and `ConfigurationKept` follows from it step by step:
a record that is written belongs to nobody yet, or leaves its list in the same
step. `StackAlive` and the refinement each need one more fact: that a destruction
which is under way was called from the main stack; that it was called outside a
run, or works on the stack of a task that is still to be destroyed, or is gone
(`DestroyedSafely`). `NobodyOvertakes` says of one waiting task what the
refinement says of the queue, and holds under every `gt_destroy`; it rests on two
lemmas about who is in front of whom after `Append` and after `Tail`.

A creation that fails must give back exactly what it took. The last part of
`RuntimeProofs` strengthens `Inv` with what the runtime holds at each step of a creation in terms
of what it held before, and counts: while an identifier is sought the number of
identifiers taken is the length of the two lists, by the cardinality of a
bijection's range. So the pool is found empty exactly when `Capacity` tasks
exist.

The properties of `ContextSwitch` speak of flows that wait and of user code.
`FlowInv` follows the executing flow through the places between: behind each
return address, where `rsp` is and which frames lie above it (`ExecutingInv`). Of
the others it says that each is suspended, with the frame of its call and a word
that leads back into it, or freshly configured (`WaitingInv`). A flow's frames
are untouched by what is pushed below them, which is all the runtime does on a
stack; a lone task that yields is the delicate case, since the scheduler runs on
the very stack whose context it then loads.

That neighbours point at each other is not inductive either: nothing in it
excludes two nodes that point at each other with no head between. `Chained` relates
the pointers to the sequences the callers believe in: round each list they go from
the head through the sequence and back, no node is listed twice, and a node that is
not listed has no pointers. This is inductive, every operation being one insertion
or removal in a sequence (the lemmas of `SeqFacts` say what that does to each
position), and the traversals can be read off it. A safe iteration needs one fact
more (`WalkInv`, `Ahead`): the node it has in hand is where the nodes still to be
visited begin, as a contiguous end of the list. Its body may take away the node
before, never one of these.

For stacks the proof counts pages. Every address and size that reaches mmap is a
multiple of the page size, so a live stack is a first page and at least three
pages (`Occupies`), its usable part is all but the two outer ones, and `StackInv`
says that the pages of different stacks are disjoint and, unless munmap may fail,
that every mapped page belongs to one. The delicate case is a size that wraps when
the guards are added: the mapping is then smaller than its guards, the size of its
usable part wraps in turn, and mprotect refuses a range that ends behind the
address space.

For the pool, `PoolInv` says that the bits past the capacity are clear and that
the owned identifiers are the bits that are set. An identifier is the address of a
bit, word and offset; division and remainder by the width relate the two, and the
mask of the last word lets through exactly the addresses below the capacity. What
a search answers follows from the order of addresses: the first word that has such
a bit, and the first offset in it, are the least address. The refinement of `IdSet`
follows from the answers.

The pipeline needs no lock because turns go round, so `PipelineInv` says for every
round the scheduler can be in (all three tasks, without the producer, without the
processor, the consumer having gone as well) what each slot holds and how many
squares have been printed. That no other round occurs is the larger part of it.

A Fibonacci task computes in integers that wrap, while `fib` is a recursive
function over all numbers, and the library offers no usable induction. That `fib`
exists and obeys its equation is proved by a least counterexample (`FibEquation`,
with `LeastExists`), the existence of its approximations below every bound first.
`FibInv` then says that the locals of each task are two neighbouring numbers modulo
`Modulus`, one iteration on in every step and untouched by the steps of others,
since sums of remainders and remainders of sums agree (`SumWraps`). `ControlInv` is
what `main` and the scheduler contribute, and serves both examples: when `gt_run`
comes back every task has returned.

Model-checked only: the liveness properties `ReadyTasksRun`, `ReleaseLoopsEnd`,
`RunEnds` and `ExampleEnds` (fairness and ENABLED are out of the provers' reach).
Every invariant and every action property that a passing run checks, and every
refinement, is proved.

## 5. Plan

Done: `CoopSched`, `Runtime` with its statuses, the layers below it, the examples
above it, their runs, and the proofs. Between the layers no refinement is
stated. Each model makes the calls that the one above it makes: `CreateTakesId` and
`Take` of `IdSet` choose the lowest free identifier, `NoInternalFailure` shows that
`Runtime` returns only identifiers that are taken, `ReadyQueueExact` that it admits
no task twice, which is the condition of `ListProofs`. What could be added: the
examples over `RuntimeCalls` instead of `CoopSched`, and the alignment of stacks
at the entry of a task.

## 6. Not modelled

Logging, version and the wording of panic messages: output only. The entry function and
the argument of a task, which the runtime stores and passes on: what
`ConfigurationKept` says is about identifier and stack. What user code
does on its stack, overflow of it included, beyond calls and returns; stack
alignment. The values of single registers: they are saved and loaded together.
Signals and several kernel threads: the library has no support for either.
Rollbacks behind `gt_context_init`, `gt_context_configure` and
`gt_scheduler_admit` in `runtime_task.c` and `task.c`: these functions return
success always. The examples other than the two named, whose tasks share nothing
and print. Crashes: nothing survives the process.
