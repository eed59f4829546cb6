------------------------------ MODULE SimLocks ------------------------------
(***************************************************************************)
(* `lock r ... end lock r` in the thread simulator: coroutines             *)
(* (sim_codegen/thread_sim.rs) that wait for an input, lock the resource,  *)
(* wait for an input inside, and start again, each under a scheduler of    *)
(* its own (runtime/arch_thread_rt.h).  A step of a scheduler is one       *)
(* resumption of its coroutine or one look at its predicate.  With one OS  *)
(* thread the schedulers take turns until none resumes anything; with a    *)
(* worker for each (see SimWorkers) they run at the same time, each once.  *)
(* Masks are sets of threads.                                              *)
(***************************************************************************)
EXTENDS Integers, FiniteSets

CONSTANTS
    N,              \* number of threads
    Resources,      \* declared policy, slots, credit; whether threads lock again at once
                    \* (tight) and have a `default when` clause (preempt)
    WORKERS,        \* --threads above 1
    grant_select(_, _)  \* the hook of a custom policy

WellFormed ==
    /\ N \in Nat \ {0}
    /\ Resources \subseteq [policy : {"priority", "round_robin", "lru", "weighted", "custom"},
                           slots : Nat, credit : Nat \ {0}, tight : BOOLEAN, preempt : BOOLEAN]

Threads == 0..(N - 1)
NoThread == N
Declared == [i \in 1..N |-> i - 1]

VARIABLES
    resource,
    at,             \* where each coroutine is suspended
    ready, resumed, lock_refired,   \* threads whose slot is Ready; the tick's bookkeeping
    req_mask, holder_mask, last_grant, lru_order, credits, last_grant_onehot,
    beginning,      \* schedulers whose tick_begin is still to come
    running,        \* schedulers in this tick's tick_run, none between edges
    turns,          \* one OS thread runs the schedulers of this tick in turn
    progressed,     \* it has resumed something in this round
    inputs,         \* threads whose input is high at this edge; none between edges
    passed          \* other claims each thread has watched since it began to wait

slots == <<at, ready, resumed, lock_refired>>
masks == <<req_mask, holder_mask>>
order == <<last_grant, lru_order, last_grant_onehot>>
edge == <<resource, turns, inputs>>
vars == <<edge, slots, masks, order, credits, beginning, running, progressed, passed>>
-----------------------------------------------------------------------------
(* _resource_select: the first requester in the policy's order.  weighted  *)
(* refills all credits when no requester has one left.                     *)
FirstIn(ids, S) ==
    LET found == {i \in 1..N : ids[i] \in S}
    IN  IF found = {} THEN NoThread ELSE ids[CHOOSE i \in found : \A j \in found : i <= j]
Descending == [i \in 1..N |-> N - i]
AfterLast == [i \in 1..N |-> (last_grant + i) % N]
Weighted == resource.policy = "weighted"
Refill == Weighted /\ \A t \in req_mask : credits[t] = 0
InCredit == IF Refill THEN req_mask ELSE {t \in req_mask : credits[t] # 0}
Select ==
    CASE resource.policy = "priority"    -> FirstIn(Declared, req_mask)
      [] resource.policy = "round_robin" -> FirstIn(AfterLast, req_mask)
      [] resource.policy = "lru"         -> FirstIn(lru_order, req_mask)
      [] resource.policy = "weighted"    -> FirstIn(AfterLast, InCredit)
      [] resource.policy = "custom"      ->
            FirstIn(Descending, grant_select(req_mask, last_grant_onehot) \cap req_mask)

(* _resource_can_acquire, and what asking leaves in the credits.           *)
SlotFreeOffByOne == Cardinality(holder_mask) <= resource.slots
SlotFree == Cardinality(holder_mask) < resource.slots
can_acquire(t) == t \in holder_mask \/ (SlotFree /\ Select = t)
Asks(t) == at[t] = "lock" /\ t \notin holder_mask /\ SlotFree
CreditsAsked(asking) ==
    IF Refill /\ req_mask # {} /\ \E t \in asking : Asks(t)
    THEN [t \in Threads |-> resource.credit] ELSE credits

(* The predicate of a suspended slot: an input, or can_acquire.            *)
Pred(t) == IF at[t] = "lock" THEN can_acquire(t) ELSE t \in inputs
Suspended(t) == t \notin ready /\ at[t] \in {"outside", "lock", "body"}
-----------------------------------------------------------------------------
(* The coroutine.  GoTo suspends it at its next wait; at a lock it first   *)
(* notes its request.  Once its request was granted it looks again, then   *)
(* claims the resource and goes on to the wait in the body.                *)
GoTo(t, where) ==
    /\ at' = [at EXCEPT ![t] = where]
    /\ ready' = ready \ {t}
    /\ req_mask' = IF where = "lock" THEN req_mask \cup {t} ELSE req_mask
Top == IF resource.tight THEN "lock" ELSE "outside"

Start(t) ==
    /\ at[t] = "created" /\ GoTo(t, Top)
    /\ UNCHANGED <<holder_mask, order, credits, passed>>

Arrive(t) ==
    /\ at[t] = "outside" /\ GoTo(t, "lock")
    /\ UNCHANGED <<holder_mask, order, credits, passed>>

LookAgain(t) ==
    /\ at[t] = "lock"
    /\ credits' = CreditsAsked({t})
    /\ at' = [at EXCEPT ![t] = IF can_acquire(t) THEN "claiming" ELSE "lock"]
    /\ ready' = ready \ {t}
    /\ UNCHANGED <<masks, order, passed>>

(* emit_resource_release.                                                  *)
Release(t) ==
    /\ at[t] = "body" /\ GoTo(t, Top)
    /\ holder_mask' = holder_mask \ {t}
    /\ UNCHANGED <<order, credits, passed>>

Resume(t) ==
    /\ t \in ready \ resumed /\ resumed' = resumed \cup {t}
    /\ Start(t) \/ Arrive(t) \/ LookAgain(t) \/ Release(t)
    /\ progressed' = TRUE
    /\ UNCHANGED <<edge, lock_refired, beginning, running>>

(* The wait counts end one above what is allowed: round_robin and lru let  *)
(* every other thread pass once, weighted lets it use up its credit and    *)
(* then, until the scan comes around, all but one of them pass once more.  *)
AllowedPasses ==
    IF Weighted /\ N > 1 THEN resource.credit * (N - 1) + (N - 2) ELSE N - 1

(* _resource_claim, after which the coroutine is suspended in the body.  A *)
(* thread that still holds the resource changes nothing of the policy.     *)
LruUnchanged(t) == lru_order
LruClaimed(t) ==
    [i \in 1..N |-> IF i = N THEN t
                   ELSE lru_order[IF \E j \in 1..i : lru_order[j] = t THEN i + 1 ELSE i]]
Claim(t) ==
    /\ at[t] = "claiming" /\ at' = [at EXCEPT ![t] = "body"]
    /\ req_mask' = req_mask \ {t} /\ holder_mask' = holder_mask \cup {t}
    /\ LET new(policies) == resource.policy \in policies /\ t \notin holder_mask IN
       /\ last_grant' = IF new({"round_robin", "weighted"}) THEN t ELSE last_grant
       /\ lru_order' = IF new({"lru"}) THEN LruClaimed(t) ELSE lru_order
       /\ credits' = IF new({"weighted"}) /\ credits[t] > 0
                     THEN [credits EXCEPT ![t] = @ - 1] ELSE credits
       /\ last_grant_onehot' = IF new({"custom"}) THEN {t} ELSE last_grant_onehot
    /\ passed' = [u \in Threads |->
                     IF u # t /\ at[u] = "lock" /\ passed[u] <= AllowedPasses THEN passed[u] + 1
                     ELSE IF at[u] = "lock" THEN passed[u] ELSE 0]
    /\ UNCHANGED <<edge, ready, resumed, lock_refired, beginning, running, progressed>>
-----------------------------------------------------------------------------
(* tick_run: when there is nothing to resume, look at a wait that was      *)
(* there when the tick began, and once at a lock reached in this tick.     *)
NeverAgain(t) == t \notin resumed
Eligible(t) == t \notin resumed \/ (at[t] = "lock" /\ t \notin lock_refired)
Idle(t) == at[t] # "claiming" /\ t \notin ready \ resumed
Look(t) == Idle(t) /\ Suspended(t) /\ Eligible(t)

Wake(t) ==
    /\ Look(t) /\ Pred(t)
    /\ lock_refired' = lock_refired \cup ({t} \cap resumed)
    /\ resumed' = resumed \ {t} /\ ready' = ready \cup {t}
    /\ credits' = CreditsAsked({t})
    /\ UNCHANGED <<edge, at, masks, order, beginning, running, progressed, passed>>

(* Nothing left to do: the turn passes to the next scheduler, after the    *)
(* last one to the first if anything was resumed; a worker is done.        *)
OneRoundOnly(t) == IF t < N - 1 THEN {t + 1} ELSE {}
NextTurn(t) == IF t < N - 1 THEN {t + 1} ELSE IF progressed THEN {0} ELSE {}
Quiet(t) ==
    /\ Idle(t) /\ ~(Look(t) /\ Pred(t))
    /\ credits' = IF Look(t) THEN CreditsAsked({t}) ELSE credits
    /\ running' = IF turns THEN NextTurn(t) ELSE running \ {t}
    /\ progressed' = (progressed /\ t < N - 1)
    /\ inputs' = IF running' = {} THEN {} ELSE inputs
    /\ UNCHANGED <<resource, turns, slots, masks, order, beginning, passed>>

(* tick_begin: waits that are over by now.                                 *)
Begin(t) ==
    /\ beginning' = beginning \ {t}
    /\ resumed' = resumed \ {t} /\ lock_refired' = lock_refired \ {t}
    /\ ready' = IF Suspended(t) /\ Pred(t) THEN ready \cup {t} ELSE ready
    /\ credits' = IF Suspended(t) THEN CreditsAsked({t}) ELSE credits
    /\ UNCHANGED <<edge, at, masks, order, running, progressed, passed>>

(* One OS thread begins all ticks, in order, before it runs any.           *)
MayBegin(t) == t \in beginning /\ (turns => \A u \in beginning : t <= u)
MayRun(t) == t \in running \ beginning /\ (turns => beginning = {})
Step(t) ==
    \/ MayBegin(t) /\ Begin(t)
    \/ MayRun(t) /\ (Resume(t) \/ Claim(t) \/ Wake(t) \/ Quiet(t))

(* A rising edge.  A `default when` clause that holds starts its thread    *)
(* again, with a new coroutine, and leaves the masks alone.                *)
Posedge(high, thrown) ==
    /\ running = {} /\ running' = (IF WORKERS THEN Threads ELSE {0}) /\ turns' = ~WORKERS
    /\ beginning' = Threads /\ progressed' = FALSE /\ inputs' = high
    /\ thrown # {} => resource.preempt
    /\ at' = [t \in Threads |-> IF t \in thrown THEN "created" ELSE at[t]]
    /\ ready' = ready \cup thrown
    /\ passed' = [t \in Threads |-> IF t \in thrown THEN 0 ELSE passed[t]]
    /\ UNCHANGED <<resource, resumed, lock_refired, masks, order, credits>>

(* The reset and the constructor: new coroutines, and a tick that takes    *)
(* each to its first wait, run by one OS thread: tick_begin finds nothing  *)
(* to do and no coroutine comes to look at an input.                       *)
Created == [t \in Threads |-> "created"]
Full == [t \in Threads |-> resource.credit]

Init ==
    /\ resource \in Resources
    /\ at = Created /\ ready = Threads /\ resumed = {} /\ lock_refired = {}
    /\ req_mask = {} /\ holder_mask = {}
    /\ last_grant = N - 1 /\ lru_order = Declared /\ credits = Full /\ last_grant_onehot = {}
    /\ beginning = {} /\ running = {0} /\ turns = TRUE /\ progressed = FALSE /\ inputs = {}
    /\ passed = [t \in Threads |-> 0]

Reset ==
    /\ running = {} /\ running' = {0} /\ beginning' = {} /\ turns' = TRUE
    /\ progressed' = FALSE /\ inputs' = {}
    /\ at' = Created /\ ready' = Threads /\ resumed' = {} /\ lock_refired' = {}
    /\ req_mask' = {} /\ holder_mask' = {}
    /\ last_grant' = N - 1 /\ lru_order' = Declared /\ credits' = Full
    /\ last_grant_onehot' = {}
    /\ passed' = [t \in Threads |-> 0]
    /\ UNCHANGED resource

Next == \/ \E t \in Threads : Step(t)
        \/ \E high, thrown \in SUBSET Threads : Posedge(high, thrown)
        \/ Reset
Spec == Init /\ [][Next]_vars
-----------------------------------------------------------------------------
Inside == {t \in Threads : at[t] = "body"}
AtLock == {t \in Threads : at[t] = "lock"}

(* There are never more threads inside than the resource has slots.        *)
MutualExclusion == Cardinality(Inside) <= resource.slots

(* Between edges everyone inside is among the holders and everyone at the  *)
(* lock among the requesters.  Unless threads are thrown out of the lock,  *)
(* the masks hold nobody else and nobody waits for a slot that is free: a  *)
(* lock is taken in the cycle in which it is reached, and handed over in   *)
(* the cycle in which it is released, whatever the order of declaration.   *)
LocksHandedOver ==
    running = {} =>
        /\ Inside \subseteq holder_mask /\ AtLock \subseteq req_mask
        /\ ~resource.preempt =>
              /\ holder_mask \subseteq Inside /\ req_mask \subseteq AtLock
              /\ AtLock # {} => Cardinality(Inside) = resource.slots

(* Under round_robin, lru and weighted a waiting thread sees a bounded     *)
(* number of others go first, unless threads are thrown out.               *)
BoundedWait ==
    resource.policy \in {"round_robin", "lru", "weighted"} /\ ~resource.preempt =>
        \A t \in AtLock : passed[t] <= AllowedPasses
=============================================================================
