# A TLA+ verification project for the ARCH compiler

ARCH (`src/`) is a Rust compiler for a hardware description language.  A
program is parsed, resolved, type-checked and elaborated, and then emitted as
SystemVerilog (`src/src/codegen/`) and as C++ simulation models
(`src/src/sim_codegen/`).  What makes it more than a translator is that the
language has first-class constructs with behaviour of their own — FIFOs,
LIFOs, arbiters, locks between threads, synchronizers, pipelines, transaction
ports — for which the compiler writes complete circuits.  The circuits and
models it writes are concurrent, have state, and cross clock domains.  This
project models those circuits, and the one part of the compiler that is itself
concurrent, the on-disk learning store that all `arch` processes of a user
share.

Paths below are relative to the repository root directory `src/`, so the
implementation is `src/src/…`.

## 1. Inventory

| Component | State it keeps | Operations | What is hard |
|---|---|---|---|
| Single-clock FIFO, latency 0 (`codegen/fifo.rs`) | payload array, two pointers over twice the depth | clock edge with push and/or pop, reset | two emitted bodies, wrap, full/empty at equal indices, drop-oldest together with a pop |
| Single-clock FIFO, latency 1 (same file) | + RAM output register, bypass register and its valid bit | same, plus reset-free RAM processes | the head is fetched a cycle before it is shown and may be in either register |
| Dual-clock FIFO (same file) | write side and read side, each with a two-flop copy of the other's Gray pointer | edge of either clock or both, asynchronous reset | unrelated clocks, bits sampled while they change, stale full/empty |
| LIFO (same file, `construct_formal_ir.rs`) | array, stack pointer | clock edge, reset | push and pop on one edge |
| C++ FIFO/LIFO models (`sim_codegen/fifo.rs`) | the same storage, plus output fields and previous clock levels | `eval()` | a testbench calls `eval()` any number of times per edge; the edge is decided on fields of the previous call |
| Thread locks (`elaborate/threads.rs`, `codegen/arbiter.rs`) | thread FSM states, release events, semaphore slots, the arbiter's hold latch and policy state | clock edge, `default when`, reset | a release event is one cycle late; requesters of any priority come and go during a critical section; fairness |
| Learning store (`learn.rs`, called from `main.rs`) | event log, index, counters, pending records, lock file | record failure/success, harvest, index, prune, advise, clear | several processes, killed at any step, read-modify-write of shared files |
| User arbiter (`codegen/arbiter.rs`, `sim_codegen/arbiter.rs`) | policy state, a grant pipeline of `latency - 1` stages; the C++ class the same in plain fields | clock edge, reset, `eval()` | a grant comes out edges after its request; shift order in the class |
| Synchronizers (`codegen/synchronizer.rs`, `sim_codegen/synchronizer.rs`) | flip-flop chains in one or both domains, request/acknowledge toggles | edge of either clock or both, reset, asynchronous input | bits sampled while they change, a word sampled without a chain, pulses, coincident edges in a sequential class |
| Credit channels (`codegen/mod.rs`, `sim_credit_channel.rs`) | credit counter, optional `can_send` flop, receiver buffer | clock edge with send, arrival, pop, returned credit; reset | everything on one edge, any wire delay, a flop decided one edge early |
| Linked lists (`codegen/linklist.rs`, `sim_codegen/linklist.rs`) | node memories, free list, head/tail/length registers, one controller per operation | 11 operations over one or two edges, reset | slots shared by several heads, links patched an edge after the request, statement order in the class |
| Thread lowering (`elaborate/threads.rs`) | state table while compiling; state, wait and loop counters in the circuit | statements of a thread body; clock edge | merged, folded, fused and multiplied states must still execute the source text |
| TLM methods (`elaborate/tlm.rs`) | per call a state, an issue-order FIFO or a request pointer; per target a state and latched arguments; route, error and response-hold registers of connects and lanes | clock edge with request, acceptance, response; reset | several calls outstanding, answers in any order, targets that stall, one response channel for many lanes |
| Pipelines (`codegen/pipeline.rs`, `sim_codegen/pipeline.rs`) | per stage its registers, a valid bit and, if its body waits, a state | clock edge with stalls, waits and flushes; reset | a stalled stage and the one after it must not both keep an item; a stage that waits stalls those above; statement and stage order in the class |
| Thread simulator (`sim_codegen/thread_sim.rs`, `runtime/arch_thread_rt.h`) | coroutines with their wait slots, lock masks and policy state; with `--threads N` two barriers, batch count, shutdown flag | `eval()` with or without an edge, `run_cycles`, reset, `default when`, destructor | hand-over inside one tick in any declaration order; barriers reused by fast workers while slow ones still spin |
| Lexer, parser, resolver, type checker, elaboration, text emission, driver | syntax trees | sequential passes | no concurrent or long-lived state |

How they interact: a `lock` in the source becomes request/release wires
between thread FSMs and an arbiter instance made by the same emitter as user
arbiters; every construct exists twice, as SystemVerilog and as C++, and the
two are meant to behave alike, which is why both are compared with one abstract
specification or run in lock step; the compiler driver calls the learning store after every check
or build, from processes that do not know of each other.

Correctness, per component: a FIFO delivers every word once and in order and
refuses or drops exactly as its `OVERFLOW` mode says; a LIFO is a stack whose
simultaneous push and pop replaces the top; a lock admits no more threads than
it has slots, does not take a grant away and, under round robin, serves
everyone; the store loses no event and no count; a synchronizer delivers what
it is given once the clocks have ticked, and only values that were there; a
credit channel neither loses nor invents credits and never overruns its
buffer; a linked list is the list its operations describe; a lowered thread
executes its source text; a TLM call returns once, with the answer to its own
request, and what is offered on its wires stays until it is accepted; an item
that enters a pipeline leaves it once and in order unless it is flushed; the
thread simulator hands locks over as the circuit would, in the same cycle, and
its workers tick every clocked edge exactly once.

`PROJECT.json` lists every component with its status, and every hazard at its
line with the properties aimed at it or the reason there is none.

## 2. Modules

| Module | Models |
|---|---|
| `FifoSpec`, `ElasticFifoSpec`, `StackSpec` | abstract: a bounded queue with valid/ready, blocking or drop-oldest; a queue whose readiness and validity may come late; a bounded stack |
| `FifoPointers` | choice of body by the declared depth; pointer, index and memory operators of both single-clock FIFO bodies |
| `SyncFifo`, `FwftFifo`, `Lifo` | latency-0 FIFO, latency-1 FIFO, stack; they implement `FifoSpec`, `FifoSpec`, `StackSpec` |
| `AsyncFifo` | dual-clock FIFO of both latencies, implements `ElasticFifoSpec` |
| `SimFifo`, `SimAsyncFifo` | the C++ single-clock FIFO and LIFO, and dual-clock FIFO |
| `Fifos` | composes the bodies as `emit_fifo` chooses among them, and the two C++ classes |
| `ThreadLock`, `ThreadLockWait` | lock FSMs, wiring and lock arbiter of one resource; a history variable that counts releases watched by a waiter; hooks for the custom policy |
| `Arbiter` | a user-declared arbiter with its latency pipeline, and its C++ class |
| `SimLocks`, `MCSimLocks` | locks in the thread simulator: coroutines, schedulers and lock policies; the mutex of the violation |
| `SimThread` | thread bodies in the simulator: segments, coroutines of branches, the scheduler's tick |
| `SimWorkers` | the OS threads of the thread simulator and their barriers |
| `Locks` | composes a mutex, a semaphore, a user arbiter, and the locks and the workers of the thread simulator |
| `Synchronizer`, `SimSynchronizer` | the five kinds of crossing; the C++ class in lock step, with and without `--cdc-random` |
| `CreditChannel`, `SimCreditChannel` | sender, wires and receiver, implements `ElasticFifoSpec`; the C++ fields in lock step |
| `Channels` | composes the last two and `Tlm`; the links checked |
| `ListSpec` | abstract: ordered lists over a shared pool of nodes |
| `LinkList`, `SimLinkList` | the controllers, implements `ListSpec`; the C++ class |
| `Storage` | composes `Fifos` and the linked lists, of any declarations (`ListDecls`); those checked (`CheckedLists`) |
| `ThreadLowering`, `ThreadFsm`, `MCThreads` | how a body becomes states; the emitted machine beside the source text; the bodies checked |
| `Tlm`, `MCTlm` | one `tlm_method`: initiator drivers, connect and targets; the link of the violation |
| `Pipeline`, `SimPipeline` | stages, stalls, waits, flushes and reset; the C++ class in lock step |
| `PipelineDecls` | the pipelines checked |
| `Lowering` | composes thread FSMs, coroutines and pipelines |
| `LearnStore` | the learning store |
| `StorageBodiesProofs` | theorems: the ring of pointers; every single-clock body and every C++ class of a FIFO or LIFO; what an edge does to the registers of a linked list |
| `StorageProofs` | theorems: the pool, the refinement and the class of the linked lists; `Storage` as a whole |
| `AsyncFifoProofs` | theorems: the dual-clock FIFO |
| `ThreadLockProofs`, `LocksProofs`, `ChannelsProofs`, `SynchronizerProofs`, `LearnStoreProofs` | theorems: one mutex or semaphore; everything in `Locks`: both, the user arbiter, the simulated locks, the workers; credit channels, TLM methods and `Channels`; the crossings; the store |

A composing module lets the declaration choose one member at the start and
leaves the variables of the others alone; prefixes (`f_`, `l_`, `c_`, `a_`,
`s_`, `u_`, `w_`, `y_`, `n_`, `t_`, `p_`) tell them apart.

### How state and steps correspond to the code

**Circuits.**  A variable is a register or memory of the emitted module, under
its emitted name; a combinational wire is an operator of the state; a step is
one event of the `always_ff` blocks, in which all non-blocking assignments
happen at once.  Inputs are chosen freely at every edge.  `pushed` and `popped`
are observers: the word that crossed each side at the last edge.  `NoData`
stands both for "no word" and for the unknown value of an unwritten memory
cell, so a property that asks for a word in `Data` also says that no
uninitialised cell is shown.  An array access out of range reads X and writes
nothing, as in SystemVerilog.

`FifoPointers` treats the two emitted bodies as one circuit over a ring of
`2*Half` pointers: `Half` is `2^$clog2(DEPTH)` in the body for powers of two,
which lets pointers overflow, and `DEPTH` in the general body, which wraps
explicitly.  The compiler chooses by the literal in the declaration
(`DECL_DEPTH`), the circuit is elaborated with the `DEPTH` of the instance.

In `AsyncFifo` a step is an edge of one clock or of both.  When both edges
coincide, a first synchronizer flip-flop samples a vector that is changing:
each changing bit is captured old or new independently.  Later flip-flops see
settled values.  A pulse of the asynchronous reset is one step; the write port
has no reset, so slot 0 may be written during it.

**C++ models.**  A variable is a field of the generated class.  A step is one
call of `eval()` with the clock levels and inputs the testbench has set:
`eval_posedge`, which reads the output *fields* the previous call left, and
then `eval_comb`.  In C++ statements run one after another, which the models
keep (push before pop).

**Locks.**  `pc[t] = 0` stands for all states of thread `t` outside the lock,
`k` for the `k`-th state of the body.  A step is a clock edge, with three
inputs: `cond`, the threads whose own exit condition holds; `loopback`, those
that go from `end lock` straight to a lock state (only if `TIGHT`); `abort`,
those whose `default when` fires (only if `PREEMPT`).  `release` is the
registered release event, high in the cycle after the exit.

**User arbiter.**  `comb` is the `always_comb` block, `output` the ports: the
last pipeline register, or `comb` itself for latency 1.  `Drive` is the clock
low phase, in which requesters may raise but not withdraw a request that was
not readied (the `valid_stable` assertion the compiler emits).  Each step is
also one `eval()` of the class.

**Thread simulator, locks.**  A coroutine waits for an input, locks the
resource, waits for an input inside and starts again (`tight`: locks again at
once).  `at` says where it is suspended, `ready` whose slot is `Ready`;
`resumed` and `lock_refired` are the scheduler's fields.  A step is one
resumption, one look at a predicate, or one call of a lock helper.  With one OS
thread the schedulers run in turn until a whole round resumes nothing
(`NextTurn`), so the order is fixed and only inputs, `default when` and reset are
chosen; with `WORKERS` they interleave and each runs once.  Calls of the helpers
are taken as atomic although the masks are plain integers: the race that
`sim_lock_race` shows is the one that remains even then.  The class is generated
per module; bodies with held outputs and branches are in `SimThread`.

**Thread simulator, bodies.**  `SimThread` gives the bodies of `ThreadFsm` to
`partition` of the simulator.  `code` is the segments of the thread (0) and of
each branch, `slot` the `ThreadSlot` of each coroutine with its place in the
segments and, for a fork or an if, the coroutines it waits for.  A tick is
`Begin` (held outputs and inputs of the edge, `tick_begin`), then one `Resume`
per ready coroutine, lowest slot first, `Wake` when none is ready, and
`Settled`, where what the tick assigned and drove is matched with the source
text by the same `Explained` that judges the circuit.  The constructor's tick is
the first.  `Supported` is what `partition` does not reject.

**Thread simulator, workers.**  A step is one access to an atomic variable.
`at[p]` is the barrier a thread is at, or what it does between them, and `step`
its position in `Barrier::wait()`.  `generation` wraps (`GEN_RANGE`, 2^32 in the
code; 2 in the run, the least that can tell two rounds apart).  `owed` counts
the edges the testbench has clocked and the worker has not ticked.  After the
destructor the testbench may construct another model.

**Synchronizers.**  Bits are members of a set.  `Edges(src, dst)` is an edge
of one clock or both; with `metastable`, what one clock samples while the
other changes it is, bit by bit, old or new; without, old, as in a simulator,
and only then is the class compared.  Resets are synchronous or asynchronous
and held until both clocks have ticked.  Input pulses are spaced by a
destination edge: the circuit needs that and does not enforce it.  The gray
input is a counter.

**Credit channels.**  `link` and `returning` are the wires with any number of
pipeline registers on them; zero delay is a word that arrives on the edge that
sends it.  Sends are gated on `can_send` and pops on `valid`, as the emitted
assertions `send_requires_credit` and `credit_return_requires_buffered` demand.

**Linked lists.**  `reg` is the record of all registers; `Clocked` runs the
controllers of the declaration in order, each reading the registers before the
edge (`old`) and writing `new`, so that of two writes the later stays, as with
non-blocking assignments.  The class runs the same order with each statement
seeing the ones before.  `Chain` reads the lists out of the memories, with the
accepted operations done.

**Thread lowering.**  `partition_thread_body` is the compiler: it folds over
the statements with the cursor `partition_thread_body_impl` keeps.  Its output
goes through folding and counter loads (`ThreadFsm!Lowered`), which TLC evaluates
once per body, and runs edge by edge for all inputs.  An assignment is a
label.  Beside it, `source` holds every position of the source text that
explains the labels seen so far: a small interpreter (`Moves`) written from the
meaning of the statements.  If no position is left the circuit did something the
text does not say.  The interpreter leaves open how many edges a step takes
at most; that a counted wait does not last too long is `WaitsTakeTheirCycles`.

**TLM methods.**  A `link` is a pair of what `tlm.rs` can generate on either
side of the wires of one method: as initiator a cohort of workers (also a
`fork`/`and`/`join` of direct calls), an RHS-`fork` group with `join all`,
threads whose calls are in a lock, or a handwritten port; as target a thread,
indexed lanes behind their response arbiter, two targets behind a decoded
connect, or an external target that may hold many calls and answers in order
unless the method is tagged.  `Edge` is one clock edge: request, ready and
response are operators of the registers, and every register moves at once.
A request carries `who` made it, which stands for its arguments; a response is
the request it answers.  What a target computes and how long it takes is free
(`finished`), and so is the arbiter's `release` input, which the instance
leaves unconnected.  A thread of a locked group computes or calls in any order
(`go`).  `stalled` and `joined` are observers.

**Pipelines.**  A declaration is a record: per stage the statements of its
body, split at the waits as `emit_pipeline_wait_stage_ff` splits them, its stall
condition and which registers have a reset.  A statement copies a register, a
port or a literal.  `Steps` lists the assignments a stage makes at an edge;
`Clocked` makes them as non-blocking, `Assigned` of the class as blocking ones,
so the two differ exactly in when right-hand sides are read and in the order of
stages.  `x` is the item's identity and `y` what a wait-stage computed for it;
the memory a wait-stage waits for answers what it was asked (`Served`).  The
class is compared on the pipelines it can run (`Simulable`).

**Learning store.**  A step is a system call that another process can tell
from the next one: opening the pending record, `flock`, reading a file, the
rename that replaces a file, and the *two* writes `writeln!` makes of the text
and the newline.  A process may be killed between any two steps; the kernel
drops its lock.  Events are identified by the call that writes them; the index
is the set of events it was built from.  A glued line (text appended to an
unterminated line) keeps its events in `rest`; `json_to_event` only sees the
first.  A source file has one documented construct, so one feature event.
A refusal by the size cap and the hourly limit of the sweep are
nondeterministic.

## 3. Runs

| Run | Checks | Bounds |
|---|---|---|
| `storage` | FIFOs: types, occupancy, the shown head is the stored head, stack pointer, refinement of queue and stack by every single-clock body; no C++ edge is decided on stale fields, every class refines its specification (LIFO unless push and pop coincide; the latency-0 drop-oldest class is left out, see the observations).  Lists: every slot is in one place, tail and back links match, refinement of the lists, the class agrees | `DEPTH` 3, drop-oldest and blocking, pointers pass the wrap several times; pool of 4, three declarations, 6 requests |
| `async_fifo` | each side's view is late but never wrong; `ElasticFifoSpec`; words are offered, room is seen | `DEPTH` 4, 3-bit Gray pointers, both latencies, every clock order and sampling outcome |
| `sim_lock_race` | **violated**: mutual exclusion in the thread simulator with a worker per thread | 3 threads, round-robin mutex |
| `locks` | mutex: types, exclusion, stable grants, no starvation, fewer than N-1 releases watched by a waiter; semaphore: exclusion, stability, no starvation; arbiter: a grant answers the request of `latency - 1` edges ago, round robin serves in time, the class agrees; thread simulator: exclusion, locks are handed over within the tick, bounded waits, every worker ticks the edges clocked, calls return | 3 threads or requesters, 3 body states, 2 slots with tight loops, preemption, latency 1 to 3, all policies; 13 simulated resources, credit 2; 3 workers, batches up to 2 |
| `lock_tight` | **violated**: mutual exclusion when a thread locks again at once | 3 threads, priority |
| `learn_store` | no event lost, features replaced, exact counts, fresh index, every call ends | 2 processes, 1 file, 3 calls of any kind, kills and expiry anywhere |
| `channels` | credits: types, conservation, exact `can_send`, refinement, credit returns, the class agrees; synchronizers: gray coherence, pulses conserved in circuit and class, synchronous release, the handshake is a one-place channel whose word is stable when sampled, a steady input arrives, the class agrees.  Methods: every waiting call is in exactly one place; it returns with its own answer; responses, and requests of fork groups and single calls, are stable until accepted; a join is a barrier; accepted calls return, and calls of fork groups and round-robin locks are accepted | `DEPTH` 3, two words, wire and flop `can_send`; 2 stages, 2 bits, both reset kinds; 14 links, up to 3 calls, delays up to 3 cycles, a missing method, reset at any time |
| `lowering` | threads: every assignment once, in order, at an edge the text allows; counted waits last their cycles; a thread never stops.  Pipelines: items leave once and in order, with the registers of a stage belonging to one item; items keep leaving; the class agrees | 26 bodies as circuits and 14 as coroutines, three inputs free at every edge; 6 pipelines of 2 or 3 stages, every port free at every edge |
| `thread_fold` | **violated**: counted waits last their cycles, behind a folded assignment | one body |
| `thread_short_branch` | **violated**: the circuit executes the source text | one body |
| `pipeline_wait` | **violated**: items leave once and in order | a wait-stage before a stage that stalls |
| `tlm_decoded_route` | **violated**: a call returns with its own answer | 2 threads that lock, 2 decoded targets |

Why the bounds are enough: three FIFO words is the least depth at which head,
middle and tail differ, and two payload values tell any two neighbours apart;
three threads are the fewest for which a waiter can be passed by one thread and
then by another; two processes with three calls contain every pair of
concurrent calls on a non-empty store, and a torn line followed by two more
appends.  Two stages are the least `typecheck` allows (`typecheck.rs:9724`) and
two bits the least that can be sampled inconsistently; a channel of depth 3 has
buffer, link, return path and counter non-empty at once in every combination;
six requests fill the pool of four, free a slot and use it again.  The thread
bodies contain every construct, every pair whose states the compiler merges,
and every kind of edge into a counted wait: falling through, dispatch and fused
dispatch, an overlapped exit, the loop-back of a `for`, the wrap-around of the
body from a wait and from a loop exit, the rejoin after an `if` and a join.  Two
ways in fail: over a folded assignment (the run `thread_fold`) and directly from
another counted wait, which is among the observations below, as are two places in
which a counted wait is short.  Three calls are the fewest for which
issue order, answer order and program order can all differ, and the links
contain every driver with every target it differs on.  Three stages are the
fewest with one that has neighbours on both sides.  With three workers one can be
two steps ahead of another at a barrier, and the barrier's protocol looks at no
more than whether everybody has come.  What is proved (section 4) does not
depend on the bounds: it holds for every value of the constants, which the
configurations set (`STAGES`, `WIDTH`, `NUM_REQ`, `Latencies`, `SimResources`,
`GEN_RANGE`, `MaxBatch`, `Links`, `NODES`, `NODE_RANGE`, `ListDecls`, `REQUESTS`
among them).

`learn_store` disables the deadlock check because the number of calls is
bounded, after which nothing is left to do.

### Fairness

* `async_fifo`: both clocks keep ticking.  Nothing is assumed of
  `push_valid`, `pop_ready` or the reset.
* Locks: `Progress(t)`: the exit condition of the state a thread is in becomes
  true again and again, that is, lock bodies terminate.  A source program whose
  body waits for ever is outside this assumption, and so is any claim about
  who gets the lock after it.
* Workers of the thread simulator: every OS thread that has a step to take
  takes it (`yield()` in the spin loop), and workers' ticks end.  Nothing is
  assumed of the testbench.
* `learn_store`: a process that can take its next step takes it or is killed.
  The operating system schedules running processes; `flock` queues waiters.
  Weak fairness is enough because the number of calls is finite, so a waiter's
  step is in the end continuously enabled.

* `channels`: for a credit channel, words and credits on the wires arrive and
  the consumer consumes; nothing is assumed of the sender.  For a synchronizer,
  both clocks rise and fall again and again and a reset is released.  For a
  method, the clock runs, an external target or port is ready again and again,
  target bodies end, an external target answers what it holds unless an answer
  is being refused, and reset is not pulsed for ever.
* `lowering`: the clock runs.  For a thread, each input is raised again and
  again, not necessarily together with another (`due` names the one whose turn
  it is).  `ItemsLeave` is stated for pipelines whose stalls, flushes and resets
  end and whose waits come true again and again.  Nothing is assumed of the
  generated circuits.

### What the violations show

* `sim_lock_race`: a coroutine looks again before it claims
  (`sim_codegen/thread_sim.rs:1031`), but between its look and its claim another
  worker may look too.  Under round robin both can be selected, because the
  selection moves when a request comes in.
* `lock_tight`: a thread that leaves the body and locks again at once, and
  wins, does so in the cycle in which its own release event is high.  The latch
  is cleared (`hold_valid_r <= grant_valid && !release[grant_requester]`), the
  thread goes on to its second body state, and the next cycle is arbitrated as
  if nobody held the lock.

* `thread_fold`: for `wait until a; x <= ..; wait 3 cycle;` the assignment is
  folded onto the exit of the wait, which now leads to the counting state; the
  counter load stays in the folded state that is no longer entered
  (`elaborate/threads.rs:1758`).
* `thread_short_branch`: a fused `wait until`/`if` whose branches need no state
  of their own ends in a state with two exits, which is taken for the end of a
  `for` loop (`elaborate/threads.rs:5747`): the assignment after the `if`
  happens on one of the two exits only.

* `pipeline_wait`: a wait-stage in its idle state looks only at the valid bit of
  the stage before it (`codegen/pipeline.rs:1190`).  While the stage after it
  stalls, the stage before is held, but the wait-stage takes the held item,
  overwriting its own, and takes it again at the next edge.
* `tlm_decoded_route`: the lock around TLM calls orders requests only, so a
  second thread issues while the first waits.  Behind a decoded connect that
  moves `route` (`elaborate/tlm.rs:883`), and since every waiting thread of a
  group takes the next response, an answer reaches a thread that did not ask
  for it.

### Other observations

Each can be reproduced by changing constants of an existing run.

* `FifoPointers` with `DECL_DEPTH = 4`, `DEPTH = 3`: the power-of-two body
  (chosen at `codegen/fifo.rs:44`) is elaborated with a depth it does not
  support and `OccupancyInv` fails.  The theorems assume `DepthFitsBody`.
* `AsyncFifo` with `OVERFLOW = TRUE`: push is never refused
  (`codegen/fifo.rs:790`) and the writer passes the reader; the emitted
  assertion `_auto_no_overflow` (`codegen/fifo.rs:140`) forbids it.
* `SimFifo` with `Designs` a lifo: the class executes push and then pop
  (`sim_codegen/fifo.rs:336`), so the pop removes the pushed word and the old top
  stays; `doc/ARCH_HDL_Specification.md:2988` and the emitted SystemVerilog
  replace the top.  `ImplementsStack` fails, so the run asks `StackUnlessBoth`.
* `SimFifo` with `Designs` a latency-0 `OVERFLOW` fifo: the class accepts every push
  but never moves its read pointer for one (`sim_codegen/fifo.rs:379`), so with
  `DEPTH = 3` the fourth word is offered before the second and the count passes
  `DEPTH`; `doc/Arch_AI_Reference_Card.md:832` and the emitted SystemVerilog drop
  the oldest word.  `ImplementsQueue` fails, so `CheckedDesigns` leaves the
  declaration out.  The latency-1 class drops the oldest word and is checked.
* `SimLocks` with `preempt`: `default when` destroys the coroutine without
  clearing its bits in the masks (`sim_codegen/thread_sim.rs:571`).  A thread
  thrown out of the body keeps the slot, and one thrown out while it waits may
  be selected although it is gone, so that nobody gets a free mutex until it
  comes back; in the lowered FSM it drops its request.
* `sim_codegen/thread_sim.rs`, where it differs from the lowered FSM although
  `doc/ARCH_HDL_Specification.md:2797` calls `--thread-sim both` an exact
  cross-check: `lru` and `weighted` are policies of their own (the emitted lock
  arbiter runs round robin and priority); conditional assignments of a segment
  run after its unconditional ones, whatever their order (`:1237`); one before a
  `for` runs after the loop; an assignment directly after a `for` is put with
  the wait of the loop body, inside the C++ loop, and made in every turn
  (`:1453` with `:1047`); `<=` assigns at once; `do..until` makes the
  assignments of its body on exit only.  The bodies in `FsmOnly` violate
  `FollowsProgram` as coroutines for these reasons.
* `ThreadLock` with `FIRST_WAITS`: a body that starts with a cycle wait or a
  dispatch is entered without a grant (`elaborate/threads.rs:6554`).
* `ThreadLock` with `POLICY = "custom"`, `grant_select <- RequestMask`
  (`ThreadLockWait`): a hook that returns more than one bit grants several threads
  (`codegen/arbiter.rs:661`).
* `ThreadLock` with `POLICY = "priority"`: low-priority threads can starve, as
  `doc/thread_lowering_algorithm.md:573` says.
* `LinkList`: `delete` returns the slot without unlinking the node
  (`codegen/linklist.rs:804`); `insert_after` behind the last node leaves the
  tail register (`:755`); `insert_tail` without a tail register links behind
  the head (`:617`); `insert_head` into an empty head of a doubly linked list
  with several heads writes `prev` of slot 0 (`:537`); with `OVERLAP` two
  controllers that finish on one edge miscount the free slots; a depth that is
  not a power of two indexes past the pool.  The declarations and users of the
  run keep to what works.
* `ThreadFsm` with `Programs <- CountAfterCount` (`MCThreads`): the load of a
  counted wait goes, guarded by `cnt == 0`, to the end of the assignments of the
  state before it (`elaborate/threads.rs:1793`).  If that state counts itself, its
  decrement comes later still (`:1947`) and is the last non-blocking assignment:
  after `wait 2 cycle;` the counter of `wait 3 cycle;` starts at 2^32 - 1, and
  `WaitsTakeTheirCycles` fails, although the comment at `:1751` wants a load on
  every edge into the state and `doc/ARCH_HDL_Specification.md:2742` exactly N
  cycles.  The same holds of a counted wait that ends a branch of an `if` in
  front of another.
* `ThreadFsm`: a counted wait last in a `for` body lasts one cycle
  (`elaborate/threads.rs:6352`); as the first statement it runs on the counter's
  reset value, so the bodies of the run that start with one wait for one cycle;
  `fork` keeps only `wait until` of its branches (`:5954`); `do
  .. until` behind `if not X; wait until X` needs both conditions in one cycle
  (`:5623`).  Bodies of these shapes, added to `Bodies`, violate
  `FollowsProgram`.  That property looks for an execution of the text that
  explains the assignments, so it does not notice that a counted wait lasts too
  long; `WaitsTakeTheirCycles` does.
* `SimSynchronizer` with `CDC_RANDOM`, kind pulse: a skipped destination edge
  keeps the last stage and its previous value, whose XOR is the output
  (`sim_codegen/synchronizer.rs:221`), so a pulse on the output stays for a
  second cycle and `SimPulsesNotDoubled` fails, although
  `doc/ARCH_HDL_Specification.md:3176` says the flag adds latency only.
* `Tlm`: the request of a cohort, and of a locked group, is combinational over
  the states of all workers.  While worker 1 offers a request to a busy target,
  worker 0 gets its answer, is back in its issue state and takes the grant
  (`elaborate/tlm.rs:2773`): arguments and tag change under back-pressure, and
  the assertion the compiler emits for the port (`codegen/mod.rs:6116`) fails.
  `HandshakesStable` asks it of the other initiators; `ReqStable` fails on a
  cohort of two workers and one target thread.
* `Pipeline`: a wait-stage does not lower its valid bit when the stage before it
  has nothing for it, so the stage after it takes the last item again; the
  `do..until` body of a first wait that is already over is skipped; `forward`
  directives come out as a comment.  The C++ class does not reset the FSM of a
  flushed wait-stage, ignores `clear`, and reads a flush condition after the
  stages have moved (`sim_codegen/pipeline.rs:740`); it assigns at once, so a
  statement that reads a register of its own stage written before it sees the
  new value.  The pipelines of the run have none of these, and `Simulable` says
  which the class is compared on.
* `Tlm`: `fork`/`and`/`join` of direct calls is lowered as a cohort, whose
  workers start again as soon as they are answered: with `joins = TRUE` such a
  link violates `JoinIsBarrier`.  In initiator bodies the loop-back of an outer
  runtime `for` whose last statement is another `for` overwrites the
  inner one's (`elaborate/tlm.rs:3498`); loops are not in the model.
* Credit channels: the C++ fields see an asynchronous reset on the next rising
  edge only (`sim_codegen/mod.rs:3278`).
* `LearnStore`: after a kill between text and newline the next event appended
  shares its line and cannot be read; two processes can pair one pending
  failure twice.  Neither contradicts a document, so no property forbids it.

## 4. Theorems

All proofs are checked by TLAPS with no assumption beyond the `ASSUME`s of the
modules and the hypotheses stated in the theorems.

* **`SyncFifoOccupancy`, `SyncFifoImplementsQueue`, `BodiesImplementSpecs`** —
  for every payload set and every depth that fits its body (`DepthFitsBody`:
  the general body, or a power of two), the latency-0 and the latency-1 FIFO,
  blocking or dropping the oldest word, are the bounded queue, and the stack
  circuit is the bounded stack.  For latency 0 the inductive invariant is
  `TypeOK /\ OccupancyInv`: the type of a popped word needs that its slot was
  written.  For latency 1 (`FwftInv`) the register that `pop_data` selects must
  also hold the word of the head's slot, which is what `load_bypass` and
  `rd_mem_en` are for.  The refinements rest on the ring of pointers:
  advancing the read pointer takes the tail of the stored words, and writing at the write
  pointer appends, because the slot written is none of the stored ones while
  fewer than `DEPTH` are stored, or becomes free on that edge (`WordsStep`);
  `HeadRegisterStep` is the same step for whatever register shows the head.
* **`FifosHeadsAreFresh`, `FifoClassesImplement`** — same assumption, every
  output of a declaration: a word offered is the stored head, and any sequence
  of `eval()` calls steps the abstract queue, stack or elastic queue on rising
  edges only.  An edge is decided on fields of the previous call, so the
  invariant has two parts: what the class stores (`ClassStorage`,
  `DualStorage`), and that the fields are those of what it stores
  (`ClassFields`, `DualFields`).  Single-clock declarations are those of
  `CheckedDesigns` (latency 0 with `OVERFLOW` does not drop, section 3).
* **`ListPoolIsExact`, `StorageImplementsLists`** — the linked lists of
  `Storage`, any number of nodes, any words, any number of requests, heads and
  operations, reset included, for declarations that `Supports` admits and users
  that keep to `Requests`.  `CheckedListsAreSupported` says that the declarations
  TLC runs are among them.  Each clause of `Supports` leaves out what the code
  gets wrong or cannot do: an operation declared twice has two controllers for
  one request; a single list is called empty when all its slots are free
  (`codegen/linklist.rs:525`), which `alloc` falsifies, so `alloc` needs heads that
  count their nodes; `insert_tail` finds its place, and `insert_after` of a doubly
  linked list knows whether there is a successor, by the tail register;
  `insert_head` of a doubly linked list patches `prev` of the old first node, which
  is slot 0 when another head has the nodes; and `prev` needs back links.

  The inductive invariant `ListInv` (`Shape`) names what the registers stand for:
  the free list `F`, the user's hands `H`, the list `C[h]` of each head and the
  operation `b` under way.  `F` is read off the ring (`RingOK`); `F`, `H`, the
  slot of a pending insertion and the lists share out the pool without repetition
  (`ShareOK`); pointers, tails and back links are those of the lists (`Linked`);
  the counters are their lengths (`CountOK`); and the busy controller still holds
  what it needs of its request (`Kept`): while it is busy only words are read and
  written, so what it latched is not stale.

  A step of the circuit runs all controllers of the declaration one after the
  other.  `ClockedIs` shows that only the one that ends an operation and the one
  that accepts a request do anything, which makes an edge `Finished` after `Ended`
  or `Accepted`, whole functions of the registers; the rest of the proof is about
  them: eleven operations, two halves each.  The recursive functions of the
  model (`Chain`, `Linked`, the run over the controllers) are reached through
  their equations, with a least counterexample where an induction is needed
  (`RunIsUnique`, `LinkedIs`).

  For the refinement, the user sees `ListsDone`, the lists that the operation under
  way leaves (`ListsAreSeen`).  So the edge that accepts an operation is the
  abstract step and the edge that ends it is a stutter (`BusyServed`); words are
  read and written at either edge.  That a handle has one position in its list
  (`PositionIs`) is `ShareOK` again.
* **`StorageClassesAgree`** — the classes of FIFOs, LIFOs and linked lists.  The
  class of a list assigns in sequence what the circuit assigns at once; the invariant
  is that both hold the same registers (`Mirrors`; where no tail is declared the class
  keeps one of its own), and every operation is accepted and ended alike because
  the controllers that run in one call touch different entries (`WordsCommute`).
  For FIFOs and LIFOs it is `FifoClassesImplement`: the classes of a blocking FIFO
  of either latency, of a latency-1 drop-oldest FIFO and of a dual-clock FIFO step
  their specifications exactly on rising edges, and that of a LIFO does on edges
  that do not push and pop at once.  The two exceptions, that LIFO edge and the
  latency-0 drop-oldest class, are outside the statement because the classes differ
  from the circuit there (section 3, `SimFifo`).
* **`StorageHasFifos`** and with it `StorageOccupancy`, `StorageImplementsQueue`,
  `StorageBodiesImplement`, `StorageHeadsAreFresh` — a design with any storage
  steps or leaves alone each of its FIFOs, so the theorems about them hold of
  `StorageSpec`, under the same assumption on the depth.
* **`AsyncFifoViews`, `AsyncFifoImplementsQueue`** — the dual-clock FIFO of both
  latencies, for every depth that is a power of two and blocking pushes
  (`Fits`).  Other depths and `OVERFLOW` are outside what the emitted body
  supports.  The invariant `AsyncInv` says that every synchronizer flip-flop
  holds the code of some pointer, that the views lag and never lead, and that
  a prefetched head is the oldest word.  It needs that a Gray code decodes to
  what was encoded (`GrayInverse`), that successive codes differ in one bit
  (`GrayStep`), and therefore that a vector sampled while it changes, bit by
  bit old or new, is the old or the new pointer (`SampledPointer`).  These are
  inductions over the bits of a pointer: `LeastNatural` derives them from the
  well-foundedness of the subsets of a finite set.
* **`MutexMutualExclusion`, `MutexHoldStable`** — any number of threads, any
  body length, every policy, preemption and reset, for programs that are not
  tight, do not start the body with a cycle wait, and whose custom hook is
  one-hot.  The violations and observations above show that each of these
  hypotheses is needed.  The inductive invariant `MutexInv` adds to the types
  that a release event is only high for a thread outside the lock
  (`ReleasedAreOutside`) and that a thread past the first body state is the
  latched owner (`OwnerIsLatched`).
* **`SemaphoreMutualExclusion`** — a semaphore never admits more threads than
  it has slots, tight loops included: every thread past the first body state
  holds a slot, and admissions are at most one per cycle and only while a slot
  is free.  **`SemaphoreHoldStable`**: a granted thread keeps its slot.
* **`MutexBoundedWait`** — a waiter of a round-robin mutex watches fewer than
  `N - 1` releases of others, under the hypotheses of mutual exclusion.  `WaitInv`
  counts together the releases watched and the threads the scan would still
  try first: a release moves the scan pointer past the thread that had the lock.
* **`ArbiterServesRequests`** — the user arbiter of `Locks`, any number of
  requesters, any latencies from 1 on, every policy, and any custom hook that
  grants requesters only (`UserHookGrants`).  `ArbiterInv` says of every stage of
  the grant pipeline that its grant answers the mask it was made for
  (`PipeAnswers`); of round robin that a waiting requester is in a stage as far
  on as it has waited, or that what it has waited and the requesters the scan
  would still try first are `NUM_REQ - 1` at most (`IsDue`); and of the C++
  object that its fields are the registers (`ObjectMirrors`), its
  `last_grant` one behind the scan pointer.  The scan always finds the nearest
  requester because distances are naturals and have a least one
  (`LeastNatural`).
* **`MutexIsSafe`, `SemaphoreKeepsSlots`** — the same about the mutex and the
  semaphore of `Locks`.  The mutex steps as `ThreadLockWait` does
  (`MutexSteps`).  The semaphore is `ThreadLock` with two slots and tight loops;
  `Slots` is `ThreadLockProofs` for it, and `SameGrant` and `SameClock` show that
  the two agree, wire by wire.
* **`CoroutinesHandOver`** — the locks of the thread simulator under one OS
  thread: any number of threads, slots and credits, every policy, any order of
  declaration, `default when` and reset at any time, and any custom hook that
  grants somebody who asks (`CoroutineHookGrants`; with one that refuses everybody
  a free slot stays free).  `SimInv` has two parts.
  `StatesOK`, which a thrown coroutine does not disturb: the masks contain
  everyone inside and everyone who asks, and a coroutine between its second look
  and its claim runs alone and can still acquire (`ClaimsOK`); this is what the
  workers of `sim_lock_race` break, and what makes claims fit the slots.
  `OrderlyOK`, where nothing is thrown: a coroutine the round has passed since
  the last resumption cannot lock (`SimRoundOK`), so the round that ends the tick
  leaves nobody in front of a free slot; for that, a request made later must not
  change who is selected to somebody passed already (`AskingKeeps`), and a
  second look must always have a resumption before it (`LooksOK`).  `PassesOK`
  bounds the waits: every claim moves a waiting thread up in the order of the
  policy, and under `weighted` uses up one of the credits of the others, which
  are counted as pairs of a thread and a credit (`Credits`).  The bound for
  `weighted` is `credit * (N - 1) + (N - 2)`: all others spend their credit, and
  until the scan comes around, all but one of them go once more.
* **`BarriersCount`, `WorkersDoEdges`** — the workers of `Locks`, any number of
  them and any batch length, a generation that wraps at any `GEN_RANGE` from 2 on
  (`WellFormed`).
  The counter of each barrier is the number of threads that wait at it, although
  fast threads reuse it while slow ones still spin; whoever is last finds all
  others at the same barrier (`LastIsAlone`); all threads are in the same half
  of a round (`InStep`); and what a worker still owes follows from where it is.
* **`StoreNoEventLost`, `StoreCountsExact`, `StoreIndexFresh`,
  `StoreFeaturesReplaced`** — any number of processes, files
  and calls, killed anywhere.  The inductive invariant `StoreInv` says that
  whoever is in the locked part of a call holds the lock (`LockHeld`), that
  what it has read is therefore still what is on disk (`ViewCurrent`), and that
  every stored event is alone on a terminated line (`StoredAlone`), so that
  the textual filters of purge and prune judge it by its own fields.  `IndexInv`
  adds that an event pruned cannot come back: it carries the number of its call,
  which is past the append.  `FeatureInv` adds that a harvest about to append
  has purged every feature of its file.
* **`ChannelCreditsConserved`, `ChannelCanSendExact`,
  `ChannelImplementsElasticQueue`, `ChannelClassAgrees`** — every depth, payload and counter width
  that holds the depth, any delay on the wires, wire or flop `can_send`, reset
  included.  The inductive invariant `ChannelInv` is the types, conservation,
  that the flop equals `credit # 0` when there is one, and that `tail` is `occ`
  slots after `head` with every slot between them written.  Conservation gives
  room in the buffer for a word that arrives (so `occ` does not wrap), and the
  ring lemmas turn the moves of `head` and `tail` into `Tail` and `Append` of
  the words held.

* **`SynchronizerHandshake`, `SynchronizerStable`, `ChannelsHandshake`** — any number of stages from
  2 on and any width: the handshake is a one-place channel and its word does not
  move on the edge that samples it, reset included.  The invariant is a single
  wave (`OneWave`): a toggle travels down one chain and its acknowledgement down
  the other, and nobody starts a second wave before the first is back.
* **`SynchronizerClean`, `SynchronizerClassAgrees`, `ChannelsCrossClean`,
  `ChannelsClassesAgree`** — same sizes, all five
  kinds, circuit and class in lock step without `--cdc-random`.  A gray output is
  a value of the counter's window, since one bit of the code changes per step; the
  pulses owed are the level changes on the line (`Turns`), so none is doubled or
  lost; a reset stage is low only after as many quiet edges; the class holds
  the circuit's registers (`FollowsOK`; out of reset, and not for kind pulse,
  whose class has a timing of its own) and its doubling shifts undo the code.
  The theorems named after `Channels` are about the composition, credit channels
  and their C++ fields included: `SameCrossings` shows that its crossings start
  and move like those of `SynchronizerProofs`.
* **`ChannelsCallsConserved`, `ChannelsOffersStable`, `ChannelsAnswersMatch`** —
  the methods of `Channels`: any number of calls, any delays of a fork group, blocking and tagged, both policies,
  every kind of initiator and target, reset at any time; of a link only what
  `tlm.rs` can generate is assumed (`LinksWellFormed`: one delay per call, which
  do not decrease, lanes tagged, no tags through a decoded connect).  The hypothesis
  `LinksPaired` leaves out the links that lose answers: several calls behind a
  decoded connect, which `tlm_decoded_route` refutes, several threads of a
  locked group at anything but one target thread, since each of them takes the next
  response, and a handwritten initiator with several untagged calls or at an
  external target, whose requests nothing identifies.  The links of the run are
  among the others (`CheckedArePaired`).  The inductive invariant `MethodInv`
  says what is where: a target, lane or queue holds only requests of calls that
  wait, unchanged and at the place their address or tag selects (`UnitsOK`,
  `PoolOK`); every waiting call is held (`HeldOK`); the ring of cohorts and fork
  groups has the waiting calls in the order in which a target that answers in order
  will (`OrderOK`); a response that was refused is still held by the lane that
  offered it (`HoldOK`, `RspHeld`); and a request that was refused is still the
  next one due (`ReqHeld`), which for a fork group needs that delays do not
  decrease; and `joined` has the calls answered since the last join (`JoinOK`).
  The step is proved per initiator and target: a call that is accepted
  is new at its target, and the call a response returns to is the one that
  was held (`addressee` is its `who`).

Only model-checked:

* All liveness properties (`PointersArrive`, `NobodyStarves`, `CallsEnd`,
  `CreditReturns`, `InputArrives`, `ThreadsRecur`, `CallsReturn`, `ItemsLeave`):
  fairness is out of the prover's reach.
* Thread lowering and the coroutines (`FollowsProgram`, `WaitsTakeTheirCycles`): the
  compiler is a recursive operator over programs, and no theorem may rest on
  one.
* Pipelines (`ItemsInOrder` and the agreement of the class): no proof has been
  written yet.
* Linked lists outside `ListsSupported`, among them the ones the observations of
  section 3 are about.

## 5. Not modelled

* `learn-clear` deletes the store's directory, lock file included, without
  taking the lock.  Ranking and text formats of the store.
* In `ThreadLock` the wait-fused first lock state and the state-folding pass
  are abstracted into the exit conditions; `ThreadLowering` models folding but
  has no locks.  Values of assignments, `return`, `once` threads, `default
  when` outside locks, `shared(or)` reduction.
* Arbiters with several port arrays or requests that may be withdrawn; linked
  lists with a latency-1 `insert_head` (which the C++ class runs in two edges)
  or several requests on one edge.
* TLM: the partition of initiator bodies into states and their loops, several
  methods in one thread, custom policies of the response arbiter, and the plain
  connect, which only joins wires.
* Pipelines: combinational outputs and `let` bindings, `if` in stage bodies,
  expressions, two wait-stages in one pipeline.
* Of the thread simulator: bodies that combine locks with branches, `once`
  threads, `shared(or)`, module-level blocks; an unsupported body is rejected by
  the code and not compiled in the model (`Supported`).
* Memories (RAM, CAM, register file),
  counters, clock gates and FSM emitters, the combinational-loop check: see
  the plan.
* Tracing, coverage and debug output of the C++ models; the dual-clock
  `OVERFLOW` parameter there.
* Lexer, parser, resolver, type checker, text emission, driver: sequential
  passes over trees, better served by the repository's tests.
* Floating-point and pipelined arithmetic: bit-exact data out of TLC's reach.
* Formal back ends and certificates: emit obligations for other tools.

## 6. Plan

Done, in this order: the FIFO family with its abstract queue, the C++ models
against the same specification, thread locks, the learning store; then user
arbiters, synchronizers, credit channels, linked lists, the thread lowering,
TLM methods, pipelines and the thread simulator;
theorems about the FIFO family and its C++ classes, the linked lists, the locks, the user arbiter,
the locks and the workers of the thread simulator, the store, the synchronizers, the credit channel and
the TLM methods.

Next, most important first:

1. The combinational-loop check as an operator against a reference; pipelines
   with two wait-stages.
2. `learn-clear`.
3. Theorems: `ItemsInOrder` of the pipelines.
