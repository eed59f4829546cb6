----------------------------- MODULE SimWorkers -----------------------------
(***************************************************************************)
(* `arch sim --thread-sim parallel --threads N`: the class that            *)
(* gen_module_thread writes runs the coroutine of each user thread in an   *)
(* OS thread of its own (a worker).  The testbench's thread (Main) and the *)
(* workers meet at two spinning barriers (runtime/arch_thread_rt.h), one   *)
(* before and one after every clock edge or batch of edges.  A step is one *)
(* access to shared memory; all of these are atomic variables.             *)
(***************************************************************************)
EXTENDS Integers, FiniteSets

CONSTANTS
    Workers,        \* one per user thread
    Main,           \* the thread that calls eval()
    GEN_RANGE,      \* 2^32 in the class: values of Barrier::generation
    MaxBatch        \* bound: longest batch of run_cycles

Participants == Workers \cup {Main}
target == Cardinality(Workers) + 1
Barriers == {"start", "end"}

(* What the declarations guarantee.                                        *)
WellFormed ==
    /\ IsFiniteSet(Workers) /\ Main \notin Workers
    /\ GEN_RANGE \in Nat /\ GEN_RANGE >= 2
    /\ MaxBatch \in Nat

VARIABLES
    at,             \* where a participant is: at a barrier or between the two
    step,           \* how far it is in Barrier::wait()
    gen,            \* its local copy of generation
    count, generation,          \* of the two barriers
    batch_count, shutdown,      \* _batch_count, _shutdown
    left,           \* worker: ticks of this round not done
    owed            \* worker: edges the testbench has clocked, less those ticked

barrier == <<count, generation>>
calls == <<batch_count, shutdown, left, owed>>
vars == <<at, step, gen, barrier, calls>>

Enter(p, b) == /\ at' = [at EXCEPT ![p] = b]
               /\ step' = [step EXCEPT ![p] = "load"]

(* The constructor runs the first tick itself, then starts the workers.    *)
Init ==
    /\ at = [p \in Participants |-> IF p = Main THEN "out" ELSE "start"]
    /\ step = [p \in Participants |-> "load"] /\ gen = [p \in Participants |-> 0]
    /\ count = [b \in Barriers |-> 0] /\ generation = [b \in Barriers |-> 0]
    /\ batch_count = 0 /\ shutdown = FALSE
    /\ left = [w \in Workers |-> 0] /\ owed = [w \in Workers |-> 0]
-----------------------------------------------------------------------------
(* Barrier::wait().  Past a barrier a worker looks at _shutdown or waits   *)
(* for the next round; the testbench waits for the workers.                *)
BeyondUnawaited(p) ==
    IF p = Main THEN IF shutdown THEN "join" ELSE "back"
    ELSE IF at[p] = "end" THEN "start" ELSE "check"
Beyond(p) ==
    IF p = Main
    THEN IF at[p] = "end" THEN "back" ELSE IF shutdown THEN "join" ELSE "end"
    ELSE IF at[p] = "end" THEN "start" ELSE "check"
Leave(p) == Enter(p, Beyond(p))

LoadGeneration(p) ==
    /\ at[p] \in Barriers /\ step[p] = "load"
    /\ gen' = [gen EXCEPT ![p] = generation[at[p]]]
    /\ step' = [step EXCEPT ![p] = "arrive"]
    /\ UNCHANGED <<at, barrier, calls>>

Arrive(p) ==
    /\ at[p] \in Barriers /\ step[p] = "arrive"
    /\ count' = [count EXCEPT ![at[p]] = @ + 1]
    /\ step' = [step EXCEPT ![p] = IF count[at[p]] + 1 = target THEN "last" ELSE "spin"]
    /\ UNCHANGED <<at, gen, generation, calls>>

(* The last one opens the barrier, after it has made it ready for reuse.   *)
ResetCount(p) ==
    /\ at[p] \in Barriers /\ step[p] = "last"
    /\ count' = [count EXCEPT ![at[p]] = 0]
    /\ step' = [step EXCEPT ![p] = "open"]
    /\ UNCHANGED <<at, gen, generation, calls>>

Open(p) ==
    /\ at[p] \in Barriers /\ step[p] = "open"
    /\ generation' = [generation EXCEPT ![at[p]] = (@ + 1) % GEN_RANGE]
    /\ Leave(p)
    /\ UNCHANGED <<gen, count, calls>>

Spin(p) ==
    /\ at[p] \in Barriers /\ step[p] = "spin"
    /\ generation[at[p]] # gen[p]
    /\ Leave(p)
    /\ UNCHANGED <<gen, barrier, calls>>
-----------------------------------------------------------------------------
(* The testbench: eval() on a rising edge, run_cycles(k), the destructor.  *)
Clocked(k) == owed' = [w \in Workers |-> owed[w] + k]

Eval ==
    /\ at[Main] = "out" /\ Enter(Main, "start") /\ Clocked(1)
    /\ UNCHANGED <<gen, barrier, batch_count, shutdown, left>>

RunCycles(k) ==
    /\ at[Main] = "out" /\ Enter(Main, "start") /\ Clocked(k)
    /\ batch_count' = k
    /\ UNCHANGED <<gen, barrier, shutdown, left>>

Destroy ==
    /\ at[Main] = "out" /\ Enter(Main, "start")
    /\ shutdown' = TRUE
    /\ UNCHANGED <<gen, barrier, batch_count, left, owed>>

Return ==
    /\ at[Main] = "back" /\ Enter(Main, "out")
    /\ batch_count' = 0
    /\ UNCHANGED <<gen, barrier, shutdown, left, owed>>

Join ==
    /\ at[Main] = "join" /\ \A w \in Workers : at[w] = "gone"
    /\ Enter(Main, "gone")
    /\ UNCHANGED <<gen, barrier, calls>>

(* A testbench may construct another model.                                *)
Construct ==
    /\ at[Main] = "gone"
    /\ at' = [p \in Participants |-> IF p = Main THEN "out" ELSE "start"]
    /\ step' = [p \in Participants |-> "load"] /\ gen' = [p \in Participants |-> 0]
    /\ count' = [b \in Barriers |-> 0] /\ generation' = [b \in Barriers |-> 0]
    /\ batch_count' = 0 /\ shutdown' = FALSE
    /\ left' = [w \in Workers |-> 0] /\ owed' = [w \in Workers |-> 0]

(* _worker_loop.                                                           *)
BatchUnchecked == batch_count
Round == IF batch_count = 0 THEN 1 ELSE batch_count
Check(w) ==
    /\ at[w] = "check"
    /\ Enter(w, IF shutdown THEN "gone" ELSE "tick")
    /\ left' = [left EXCEPT ![w] = IF shutdown THEN @ ELSE Round]
    /\ UNCHANGED <<gen, barrier, batch_count, shutdown, owed>>

Tick(w) ==
    /\ at[w] = "tick" /\ left[w] > 0
    /\ left' = [left EXCEPT ![w] = @ - 1]
    /\ owed' = [owed EXCEPT ![w] = @ - 1]
    /\ UNCHANGED <<at, step, gen, barrier, batch_count, shutdown>>

Finish(w) ==
    /\ at[w] = "tick" /\ left[w] = 0
    /\ Enter(w, "end")
    /\ UNCHANGED <<gen, barrier, calls>>

Wait(p) == LoadGeneration(p) \/ Arrive(p) \/ ResetCount(p) \/ Open(p) \/ Spin(p)
Testbench == Eval \/ (\E k \in 1..MaxBatch : RunCycles(k)) \/ Destroy \/ Construct
Worker(w) == Check(w) \/ Tick(w) \/ Finish(w)

Next == (\E p \in Participants : Wait(p)) \/ Testbench \/ Return \/ Join \/ \E w \in Workers : Worker(w)
Spec == Init /\ [][Next]_vars

(* The operating system runs every thread; spinning ones yield.            *)
Scheduled == /\ \A p \in Participants : WF_vars(Wait(p))
             /\ \A w \in Workers : WF_vars(Worker(w))
             /\ WF_vars(Return \/ Join)
-----------------------------------------------------------------------------
(* Variables keep their ranges.                                            *)
TypeOK ==
    /\ at \in [Participants -> Barriers \cup {"out", "back", "join", "gone", "check", "tick"}]
    /\ step \in [Participants -> {"load", "arrive", "last", "open", "spin"}]
    /\ gen \in [Participants -> 0..(GEN_RANGE - 1)]
    /\ count \in [Barriers -> Nat] /\ generation \in [Barriers -> 0..(GEN_RANGE - 1)]
    /\ batch_count \in Nat /\ shutdown \in BOOLEAN
    /\ left \in [Workers -> Nat] /\ owed \in [Workers -> Int]

(* Every worker ticks exactly the edges the testbench clocks: no worker is *)
(* ever ahead, and when a call has returned all have ticked all edges and  *)
(* none touches the design's state, which the caller may now read, reset   *)
(* or destroy.                                                             *)
EdgesDone ==
    /\ \A w \in Workers : owed[w] >= 0
    /\ at[Main] \in {"out", "back", "gone"} =>
          \A w \in Workers : owed[w] = 0 /\ at[w] \notin {"check", "tick"}

(* eval(), run_cycles() and the destructor return.                         *)
CallsReturn == (at[Main] = "start") ~> (at[Main] \in {"out", "gone"})
=============================================================================
