------------------------------- MODULE Locks -------------------------------
(***************************************************************************)
(* The shared things a module may declare: a mutex, with the wait counts   *)
(* of ThreadLockWait, a semaphore of two slots (variables s_) whose        *)
(* threads may lock again at once, or an arbiter (u_) between requesters   *)
(* of its own; the locks of the thread simulator (c_), and the workers     *)
(* that run its threads (w_).                                              *)
(***************************************************************************)
EXTENDS ThreadLockWait

CONSTANTS
    NUM_REQ, Latencies, user_hook(_, _),    \* of the declared arbiter
    SimResources,                           \* that the simulated threads may lock
    GEN_RANGE, MaxBatch                     \* of the workers' barriers and calls

VARIABLES
    resource,
    s_pc, s_release, s_held, s_hold_valid_r, s_hold_owner_r, s_rr_ptr_r, s_last_grant_r,
    u_policy, u_latency, u_clk, u_request_valid, u_rr_ptr_r, u_last_grant_r, u_pipe,
    u_sim, u_served, u_asked, u_waited,
    c_resource, c_at, c_ready, c_resumed, c_lock_refired, c_req_mask, c_holder_mask,
    c_last_grant, c_lru_order, c_credits, c_last_grant_onehot, c_beginning, c_running, c_turns,
    c_progressed, c_inputs, c_passed,
    w_at, w_step, w_gen, w_count, w_generation, w_batch_count, w_shutdown, w_left, w_owed

Sem == INSTANCE ThreadLock WITH
    SLOTS <- 2, BODY <- 2, TIGHT <- TRUE,
    pc <- s_pc, release <- s_release, held <- s_held, hold_valid_r <- s_hold_valid_r,
    hold_owner_r <- s_hold_owner_r, rr_ptr_r <- s_rr_ptr_r, last_grant_r <- s_last_grant_r

(* A hook that grants every other requester than the last: its masks need  *)
(* not be one-hot.                                                         *)
AllButLast(mask, last) == IF mask \ last = {} THEN mask ELSE mask \ last

(* Mutexes of every policy, locked again at once or not, semaphores locked *)
(* again at once, and threads with a `default when` clause.                *)
CheckedResources ==
    {r \in [policy : {"priority", "round_robin", "lru", "weighted", "custom"}, slots : {1, 2},
            credit : {2}, tight : BOOLEAN, preempt : BOOLEAN] :
        /\ r.slots = 2 => r.tight /\ r.policy \in {"round_robin", "weighted"}
        /\ r.preempt => ~r.tight /\ r.policy = "round_robin"}

User == INSTANCE Arbiter WITH
    Policies <- {"round_robin", "priority", "custom"},
    grant_select <- user_hook, policy <- u_policy, latency <- u_latency, clk <- u_clk,
    request_valid <- u_request_valid, rr_ptr_r <- u_rr_ptr_r, last_grant_r <- u_last_grant_r,
    pipe <- u_pipe, sim <- u_sim, served <- u_served, asked <- u_asked, waited <- u_waited

Sim == INSTANCE SimLocks WITH
    WORKERS <- FALSE, Resources <- SimResources, resource <- c_resource, at <- c_at,
    ready <- c_ready, resumed <- c_resumed, lock_refired <- c_lock_refired,
    req_mask <- c_req_mask, holder_mask <- c_holder_mask, last_grant <- c_last_grant,
    lru_order <- c_lru_order, credits <- c_credits, last_grant_onehot <- c_last_grant_onehot,
    beginning <- c_beginning, running <- c_running, turns <- c_turns,
    progressed <- c_progressed, inputs <- c_inputs, passed <- c_passed

Parallel == INSTANCE SimWorkers WITH
    Workers <- Threads, Main <- N,
    at <- w_at, step <- w_step, gen <- w_gen, count <- w_count, generation <- w_generation,
    batch_count <- w_batch_count, shutdown <- w_shutdown, left <- w_left, owed <- w_owed

ASSUME WorkersWellFormed == Parallel!WellFormed
ASSUME SimWellFormed == Sim!WellFormed
ASSUME ArbiterWellFormed == NUM_REQ \in Nat \ {0} /\ Latencies \subseteq Nat \ {0}

mutex_vars == <<vars, watched>>
sem_vars == <<s_pc, s_release, s_held, s_hold_valid_r, s_hold_owner_r, s_rr_ptr_r,
              s_last_grant_r>>
user_vars == <<u_policy, u_latency, u_clk, u_request_valid, u_rr_ptr_r, u_last_grant_r, u_pipe,
               u_sim, u_served, u_asked, u_waited>>

sim_vars == <<c_resource, c_at, c_ready, c_resumed, c_lock_refired, c_req_mask, c_holder_mask,
              c_last_grant, c_lru_order, c_credits, c_last_grant_onehot, c_beginning, c_running,
              c_turns, c_progressed, c_inputs, c_passed>>
worker_vars == <<w_at, w_step, w_gen, w_count, w_generation, w_batch_count, w_shutdown, w_left,
                 w_owed>>
LocksInit ==
    /\ resource \in {"mutex", "semaphore", "arbiter", "coroutines", "workers"}
    /\ WaitInit /\ Sem!Init
    /\ User!Init /\ (resource # "arbiter" => u_policy = "priority" /\ u_latency = 1)
    /\ Sim!Init
    /\ resource # "coroutines" => c_resource = CHOOSE r \in SimResources : r.policy = "priority"
    /\ Parallel!Init
Mutex == /\ resource = "mutex" /\ WaitNext
         /\ UNCHANGED <<sem_vars, user_vars, sim_vars, worker_vars>>
Semaphore == /\ resource = "semaphore" /\ Sem!Next
             /\ UNCHANGED <<mutex_vars, user_vars, sim_vars, worker_vars>>
UserArbiter == /\ resource = "arbiter" /\ User!Next
               /\ UNCHANGED <<mutex_vars, sem_vars, sim_vars, worker_vars>>
SimulatedLock == /\ resource = "coroutines" /\ Sim!Next
                 /\ UNCHANGED <<mutex_vars, sem_vars, user_vars, worker_vars>>
SimulatedEdges == /\ resource = "workers" /\ Parallel!Next
                  /\ UNCHANGED <<mutex_vars, sem_vars, user_vars, sim_vars>>
LocksNext == /\ Mutex \/ Semaphore \/ UserArbiter \/ SimulatedLock \/ SimulatedEdges
             /\ UNCHANGED resource

(* The fairness of ThreadLock and SimWorkers, for the resource there is.   *)
LocksSpec ==
    /\ LocksInit
    /\ [][LocksNext]_<<resource, mutex_vars, sem_vars, user_vars, sim_vars, worker_vars>>
    /\ \A t \in Threads : /\ WF_vars(resource = "mutex" /\ Progress(t))
                          /\ WF_sem_vars(resource = "semaphore" /\ Sem!Progress(t))
    /\ \A p \in Parallel!Participants :
          WF_worker_vars(resource = "workers" /\ Parallel!Wait(p))
    /\ \A t \in Threads : WF_worker_vars(resource = "workers" /\ Parallel!Worker(t))
    /\ WF_worker_vars(resource = "workers" /\ (Parallel!Return \/ Parallel!Join))
-----------------------------------------------------------------------------
(* Never more threads inside than the semaphore has slots, even if they    *)
(* lock again in the cycle after `end lock`, and an admitted thread keeps  *)
(* its slot until it leaves the body.                                      *)
SemaphoreIsSafe == []Sem!MutualExclusion /\ Sem!HoldStable

(* A thread that waits for the mutex or for a slot gets it, though others  *)
(* lock the semaphore again and never drop their request; and a call of    *)
(* eval(), run_cycles() or the destructor of the thread simulator returns. *)
NobodyStarves == NoStarvation /\ Sem!NoStarvation /\ Parallel!CallsReturn

(* A grant of the declared arbiter answers a request made latency - 1      *)
(* edges earlier, and no request is passed over for nothing.  round_robin: *)
(* however the others behave, a request is readied after at most           *)
(* NUM_REQ - 1 other grants and the pipeline's latency - 1 edges.  After   *)
(* every call of eval() the C++ object shows the circuit's outputs.        *)
RequestsServed == User!GrantsAnswerRequests /\ User!ServedInTime /\ User!SimAgrees

(* In the thread simulator, too, no more threads are inside than there are *)
(* slots.  Unless a `default when` throws threads out, between edges       *)
(* nobody waits for a slot that is free, and under round_robin, lru and    *)
(* weighted a waiting thread sees a bounded number of others go first.     *)
LocksHandedOver ==
    Sim!MutualExclusion /\ Sim!LocksHandedOver /\ Sim!BoundedWait

(* Every worker of the thread simulator ticks exactly the edges that the   *)
(* testbench clocks, and none touches the design between the calls.        *)
EdgesDone == Parallel!EdgesDone
=============================================================================
