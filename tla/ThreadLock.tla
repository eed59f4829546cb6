----------------------------- MODULE ThreadLock -----------------------------
(***************************************************************************)
(* `lock r ... end lock r` between the threads of one module: the FSMs     *)
(* lower_thread_lock builds (elaborate/threads.rs), the request, release   *)
(* and semaphore wiring of the merged module, and the lock arbiter         *)
(* (codegen/arbiter.rs) with its hold latch.                               *)
(*                                                                         *)
(* pc[t] = 0 stands for all of t's states outside the lock and pc[t] = k   *)
(* for the k-th state of the lock body.  A step is one clock edge; the     *)
(* requests, grants and admissions of a cycle are operators of its state.  *)
(***************************************************************************)
EXTENDS Integers, FiniteSets

CONSTANTS
    N,              \* number of threads
    SLOTS,          \* 1: mutex, more: semaphore<SLOTS>
    POLICY,         \* "round_robin" (also lru), "priority" (also weighted), "custom"
    BODY,           \* states of the lock body
    TIGHT,          \* control may go from `end lock` straight to a lock again
    PREEMPT,        \* threads have a `default when` clause
    FIRST_WAITS,    \* the body starts with `wait N cycle` or a dispatch on waits
    grant_select(_, _)  \* the hook of a custom policy: request mask, last grant

Threads == 0..(N - 1)

ASSUME ThreadLockAssumption ==
    /\ N \in Nat \ {0} /\ SLOTS \in Nat \ {0} /\ BODY \in Nat \ {0}
    /\ POLICY \in {"round_robin", "priority", "custom"}
    /\ {TIGHT, PREEMPT, FIRST_WAITS} \subseteq BOOLEAN
    /\ \A mask, last \in SUBSET Threads : grant_select(mask, last) \subseteq Threads

VARIABLES
    pc,                          \* _t<i>_state
    release,                     \* set of i with _r_release_<i> = 1
    held,                        \* set of i with _r_held_<i> = 1; semaphores only
    hold_valid_r, hold_owner_r,  \* the arbiter's hold latch
    rr_ptr_r, last_grant_r       \* its policy state: round robin, custom

arbiter == <<hold_valid_r, hold_owner_r, rr_ptr_r, last_grant_r>>
vars == <<pc, release, held, arbiter>>

(* What the arbiter sees: every state of the body raises req; a semaphore  *)
(* shows it only the requesters that hold no slot yet.                     *)
req == {t \in Threads : pc[t] > 0}
waiting == req \ held
request_valid == IF SLOTS > 1 THEN waiting ELSE req

(* The policies.  The scan of round robin starts at rr_ptr_r.              *)
ScanDistance(t) == (t - rr_ptr_r) % N
RoundRobin == {t \in request_valid :
                  \A u \in request_valid : ScanDistance(t) <= ScanDistance(u)}
Priority == {t \in request_valid : \A u \in request_valid : t <= u}
PolicyGrant == IF POLICY = "round_robin" THEN RoundRobin
               ELSE IF POLICY = "priority" THEN Priority
               ELSE grant_select(request_valid, last_grant_r)

(* The latched owner keeps the grant while it requests and does not        *)
(* release; otherwise the policy decides.                                  *)
NoHoldLatch == FALSE
OwnerKeeps == /\ hold_valid_r
              /\ hold_owner_r \in request_valid
              /\ hold_owner_r \notin release
request_ready == IF OwnerKeeps THEN {hold_owner_r} ELSE PolicyGrant
grant_valid == request_ready # {}
grant_requester == IF grant_valid
                   THEN CHOOSE t \in request_ready : \A u \in request_ready : u <= t
                   ELSE 0

(* A semaphore admits the arbiter's choice while a slot is free.           *)
admitWithoutCount == IF SLOTS > 1 THEN request_ready \cap waiting ELSE {}
admit == IF SLOTS > 1 /\ Cardinality(held) < SLOTS
         THEN request_ready \cap waiting ELSE {}
grant == IF SLOTS > 1 THEN held \cup admit ELSE request_ready

Init ==
    /\ pc = [t \in Threads |-> 0]
    /\ release = {} /\ held = {}
    /\ hold_valid_r = FALSE /\ hold_owner_r = 0
    /\ rr_ptr_r = 0 /\ last_grant_r = {}

(* The first body state leaves on grant and its own condition, unless it   *)
(* is a counter or dispatch state, whose transitions are left alone; later *)
(* body states do not look at grant.                                       *)
NeverGated(t) == FALSE
GatedByGrant(t) == pc[t] = 1 /\ ~FIRST_WAITS
Advancing(cond) == {t \in cond : GatedByGrant(t) => t \in grant}
Exiting(cond) == {t \in Advancing(cond) : pc[t] = BODY}

(* The scan moves past the requester that was granted.                     *)
RrPtrStuck == rr_ptr_r
RrPtrFromScanStart == IF grant_valid THEN (rr_ptr_r + 1) % N ELSE rr_ptr_r
RrPtrNext == IF grant_valid THEN (grant_requester + 1) % N ELSE rr_ptr_r

(* The latch: set by a grant, not kept past the grantee's release.         *)
ArbiterEdge ==
    /\ hold_valid_r' = (grant_valid /\ grant_requester \notin release)
    /\ hold_owner_r' = IF grant_valid THEN grant_requester ELSE hold_owner_r
    /\ rr_ptr_r' = IF POLICY = "round_robin" THEN RrPtrNext ELSE rr_ptr_r
    /\ last_grant_r' = IF POLICY = "custom" /\ grant_valid
                       THEN request_ready ELSE last_grant_r

(* A slot is freed when its holder leaves the body or stops requesting; an *)
(* admission in the same cycle takes precedence.                           *)
HeldUntilAnyRelease(cond) ==
    IF SLOTS > 1 THEN admit \cup (IF Exiting(cond) = {} THEN held \cap req ELSE {}) ELSE held
HeldUntilRequestDrops(cond) == IF SLOTS > 1 THEN admit \cup (held \cap req) ELSE held
HeldNext(cond) == IF SLOTS > 1 THEN admit \cup ((held \cap req) \ Exiting(cond)) ELSE held

(* A clock edge.  cond: threads whose state's own exit condition is true;  *)
(* loopback: those whose next state after the body is again a lock state;  *)
(* abort: those whose `default when` fires.                                *)
Edge(cond, loopback, abort) ==
    /\ pc' = [t \in Threads |->
                CASE t \in abort -> 0
                  [] t \in Advancing(cond) \ abort ->
                       IF pc[t] < BODY THEN pc[t] + 1 ELSE IF t \in loopback THEN 1 ELSE 0
                  [] OTHER -> pc[t]]
    /\ release' = Exiting(cond) \ abort
    /\ held' = HeldNext(cond)
    /\ ArbiterEdge

Reset ==
    /\ pc' = [t \in Threads |-> 0]
    /\ release' = {} /\ held' = {}
    /\ hold_valid_r' = FALSE /\ hold_owner_r' = 0
    /\ rr_ptr_r' = 0 /\ last_grant_r' = {}

(* Threads whose state is the last of the body, if the program may go from *)
(* there to a lock again.                                                  *)
MayLoopBack == IF TIGHT THEN {t \in Threads : pc[t] = BODY} ELSE {}

Next ==
    \/ \E cond \in SUBSET Threads, loopback \in SUBSET MayLoopBack,
          abort \in IF PREEMPT THEN SUBSET Threads ELSE {{}} :
              Edge(cond, loopback, abort)
    \/ Reset

Spec == Init /\ [][Next]_vars

(* Lock bodies terminate: the exit condition of the state a thread is in   *)
(* is true again and again.                                                *)
Progress(t) == \E cond \in SUBSET Threads, loopback \in SUBSET MayLoopBack :
                   t \in cond /\ Edge(cond, loopback, {})
FairSpec == Spec /\ \A t \in Threads : WF_vars(Progress(t))
-----------------------------------------------------------------------------
(* Registers keep their ranges.                                            *)
TypeOK ==
    /\ pc \in [Threads -> 0..BODY]
    /\ release \subseteq Threads /\ held \subseteq Threads
    /\ hold_valid_r \in BOOLEAN /\ hold_owner_r \in Threads
    /\ rr_ptr_r \in Threads /\ last_grant_r \subseteq Threads

(* The threads whose lock-body outputs are live: granted in the first body *)
(* state, or past it.                                                      *)
Inside == {t \in Threads : pc[t] > 1 \/ (pc[t] = 1 /\ t \in grant)}

(* Never more threads inside the critical section than the resource has    *)
(* slots.                                                                  *)
MutualExclusion == Cardinality(Inside) <= SLOTS

(* A granted thread keeps the grant until it leaves the body, whatever the *)
(* policy would rather do and whoever arrives.                             *)
HoldStable ==
    [][\A t \in grant : pc[t] > 0 /\ pc'[t] > 0 /\ t \notin release' => t \in grant']_vars

(* A thread that waits at the lock is granted or stops waiting.            *)
NoStarvation == \A t \in Threads : (pc[t] = 1) ~> (t \in grant \/ pc[t] # 1)

=============================================================================
