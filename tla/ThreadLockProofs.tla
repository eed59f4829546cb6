-------------------------- MODULE ThreadLockProofs --------------------------
(***************************************************************************)
(* `lock` in the circuit, for any number of threads.  The mutex excludes   *)
(* under every policy whose hook returns at most one of the requesters, in *)
(* programs that never go from `end lock` straight to a lock state; the    *)
(* semaphore excludes in all programs.  Under round robin a thread waiting *)
(* for the mutex watches at most N - 2 releases.                           *)
(***************************************************************************)
EXTENDS ThreadLockWait, FiniteSetTheorems, TLAPS

(* What a custom hook must return: at most one thread, and a requester.    *)
HookIsOneHot ==
    \A mask, last \in SUBSET Threads :
        /\ grant_select(mask, last) \subseteq mask
        /\ \A t, u \in grant_select(mask, last) : t = u

(* The lock body starts with an action, a `wait until` or a do..until.     *)
Programs == ~FIRST_WAITS /\ HookIsOneHot
-----------------------------------------------------------------------------
(* A release event is seen with its thread outside the lock.               *)
ReleasedAreOutside == \A t \in release : pc[t] = 0

(* A thread past the first body state is the latched owner.                *)
OwnerIsLatched ==
    \A t \in Threads : pc[t] > 1 => hold_valid_r /\ hold_owner_r = t

(* The inductive invariant of the mutex.                                   *)
MutexInv == TypeOK /\ ReleasedAreOutside /\ OwnerIsLatched

(* Two threads at the same distance from the scan pointer are the same.    *)
LEMMA ModuloDistance ==
    ASSUME NEW n \in Nat \ {0}, NEW t \in 0..(n - 1), NEW u \in 0..(n - 1),
           NEW p \in 0..(n - 1), (t - p) % n = (u - p) % n
    PROVE  t = u
<1> DEFINE Dist(x) == IF x >= p THEN x - p ELSE x - p + n
<1>1. ASSUME NEW x \in 0..(n - 1) PROVE (x - p) % n = Dist(x)
  <2>1. CASE x >= p
    BY <2>1
  <2>2. CASE x < p
    BY <2>2
  <2> QED BY <2>1, <2>2
<1>2. Dist(t) = Dist(u)
  BY <1>1
<1> QED BY <1>2

(* The thread after w, where the scan starts once w was granted.           *)
LEMMA AfterIs ==
    ASSUME NEW n \in Nat \ {0}, NEW w \in 0..(n - 1)
    PROVE  /\ (w + 1) % n = IF w + 1 = n THEN 0 ELSE w + 1
           /\ (w + 1) % n \in 0..(n - 1)
<1>1. CASE w + 1 = n
  <2>1. n % n = 0
    OBVIOUS
  <2> QED BY <1>1, <2>1
<1>2. CASE w + 1 # n
  BY <1>2
<1> QED BY <1>1, <1>2

(* The policies grant at most one thread, and only a requester.            *)
LEMMA PolicyIsOneHot ==
    ASSUME TypeOK, Programs
    PROVE  /\ request_ready \subseteq request_valid
           /\ \A t, u \in request_ready : t = u
<1> USE ThreadLockAssumption DEF Threads, TypeOK, Programs
<1>1. request_valid \in SUBSET Threads
  BY DEF request_valid, waiting, req
<1>2. /\ RoundRobin \subseteq request_valid
      /\ \A t, u \in RoundRobin : t = u
  <2> SUFFICES ASSUME NEW t \in RoundRobin, NEW u \in RoundRobin PROVE t = u
    BY DEF RoundRobin
  <2>1. t \in Threads /\ u \in Threads
    BY <1>1 DEF RoundRobin
  <2>2. (t - rr_ptr_r) % N = (u - rr_ptr_r) % N
    <3>1. ScanDistance(t) \in Int /\ ScanDistance(u) \in Int
      BY <2>1 DEF ScanDistance
    <3>2. ScanDistance(t) <= ScanDistance(u) /\ ScanDistance(u) <= ScanDistance(t)
      BY DEF RoundRobin
    <3> QED BY <3>1, <3>2 DEF ScanDistance
  <2> QED BY <2>1, <2>2, ModuloDistance
<1>3. /\ Priority \subseteq request_valid
      /\ \A t, u \in Priority : t = u
  BY <1>1 DEF Priority
<1>4. /\ PolicyGrant \subseteq request_valid
      /\ \A t, u \in PolicyGrant : t = u
  BY <1>1, <1>2, <1>3 DEF PolicyGrant, HookIsOneHot
<1> QED BY <1>4 DEF request_ready, OwnerKeeps


(* The thread the arbiter names is the one it grants.                      *)
LEMMA RequesterIsGranted ==
    ASSUME TypeOK, Programs
    PROVE  /\ \A t \in request_ready : grant_requester = t
           /\ grant_requester \in Threads
<1>1. /\ request_ready \subseteq request_valid
      /\ \A t, u \in request_ready : t = u
  BY PolicyIsOneHot
<1>2. request_valid \subseteq Threads
  BY DEF request_valid, waiting, req
<1>3. \A t \in request_ready : t <= t
  BY <1>1, <1>2, ThreadLockAssumption DEF Threads
<1>4. ASSUME NEW t \in request_ready PROVE grant_requester = t
  <2>1. \A u \in request_ready : u <= t
    BY <1>1, <1>3
  <2>2. grant_requester \in request_ready
    BY <2>1 DEF grant_requester, grant_valid
  <2> QED BY <2>2, <1>1
<1>5. grant_requester \in Threads
  <2>1. CASE request_ready = {}
    BY <2>1, ThreadLockAssumption DEF grant_requester, grant_valid, Threads
  <2>2. CASE request_ready # {}
    BY <2>2, <1>1, <1>2, <1>4
  <2> QED BY <2>1, <2>2
<1> QED BY <1>4, <1>5

(* The registers after power-up have their types.                          *)
LEMMA InitTypeOK == Init => TypeOK
<1> SUFFICES ASSUME Init PROVE TypeOK
  OBVIOUS
<1>1. 0 \in Threads /\ 0 \in 0..BODY
  BY ThreadLockAssumption DEF Threads
<1>2. pc \in [Threads -> 0..BODY]
  BY <1>1 DEF Init
<1>3. hold_owner_r \in Threads /\ rr_ptr_r \in Threads
  BY <1>1 DEF Init
<1>4. hold_valid_r \in BOOLEAN
  BY DEF Init
<1>5. release \subseteq Threads /\ held \subseteq Threads /\ last_grant_r \subseteq Threads
  BY DEF Init
<1> QED BY <1>2, <1>3, <1>4, <1>5 DEF TypeOK

(* Every clock edge and every reset keeps the types.                       *)
LEMMA TypeStep ==
    ASSUME TypeOK, Programs, [Next]_vars
    PROVE  TypeOK'
<1> USE ThreadLockAssumption
<1>1. ASSUME NEW cond \in SUBSET Threads, NEW loopback \in SUBSET Threads,
             NEW abort \in SUBSET Threads, Edge(cond, loopback, abort)
      PROVE  TypeOK'
  <2>1. pc' \in [Threads -> 0..BODY]
    BY <1>1 DEF Edge, TypeOK
  <2>2. request_ready \subseteq Threads
    BY PolicyIsOneHot DEF request_valid, waiting, req
  <2>3. release' \subseteq Threads /\ held' \subseteq Threads
    BY <1>1, <2>2 DEF Edge, TypeOK, HeldNext, admit, Exiting, Advancing
  <2>4. hold_valid_r' \in BOOLEAN /\ hold_owner_r' \in Threads
    BY <1>1, RequesterIsGranted DEF Edge, ArbiterEdge, TypeOK
  <2>5. rr_ptr_r' \in Threads
    <3>1. grant_requester \in 0..(N - 1)
      BY RequesterIsGranted DEF Threads
    <3>2. (grant_requester + 1) % N \in Threads
      BY <3>1, AfterIs DEF Threads
    <3> QED BY <1>1, <3>2 DEF Edge, ArbiterEdge, RrPtrNext, TypeOK
  <2>6. last_grant_r' \subseteq Threads
    BY <1>1, <2>2 DEF Edge, ArbiterEdge, TypeOK
  <2> QED BY <2>1, <2>3, <2>4, <2>5, <2>6 DEF TypeOK
<1>2. CASE Reset
  <2>1. 0 \in Threads /\ 0 \in 0..BODY
    BY DEF Threads
  <2>2. pc' \in [Threads -> 0..BODY]
    BY <1>2, <2>1 DEF Reset
  <2>3. hold_owner_r' \in Threads /\ rr_ptr_r' \in Threads
    BY <1>2, <2>1 DEF Reset
  <2>4. hold_valid_r' \in BOOLEAN
    BY <1>2 DEF Reset
  <2>5. release' \subseteq Threads /\ held' \subseteq Threads /\ last_grant_r' \subseteq Threads
    BY <1>2 DEF Reset
  <2> QED BY <2>2, <2>3, <2>4, <2>5 DEF TypeOK
<1>3. CASE UNCHANGED vars
  BY <1>3 DEF vars, arbiter, TypeOK
<1> QED BY <1>1, <1>2, <1>3 DEF Next, MayLoopBack
-----------------------------------------------------------------------------
(* The mutex.  In every cycle the grant goes to the thread past the first  *)
(* body state, if there is one, for it is the latched owner, it requests   *)
(* and it has no release event.                                            *)
LEMMA OwnerIsGranted ==
    ASSUME MutexInv, SLOTS = 1, NEW t \in Threads, pc[t] > 1
    PROVE  grant = {t}
<1>1. t \in request_valid
  BY ThreadLockAssumption DEF MutexInv, TypeOK, request_valid, req
<1>2. t \notin release
  BY DEF MutexInv, ReleasedAreOutside
<1>3. OwnerKeeps /\ hold_owner_r = t
  BY <1>1, <1>2 DEF MutexInv, OwnerIsLatched, OwnerKeeps
<1> QED BY <1>3 DEF grant, request_ready

(* A granted thread becomes, or stays, the latched owner.                  *)
LEMMA GranteeIsLatched ==
    ASSUME MutexInv, SLOTS = 1, Programs, NEW t \in grant, ArbiterEdge
    PROVE  hold_valid_r' /\ hold_owner_r' = t /\ pc[t] > 0
<1>1. t \in request_ready
  BY DEF grant
<1>2. grant_valid /\ grant_requester = t
  BY <1>1, RequesterIsGranted DEF MutexInv, grant_valid
<1>3. t \in req
  BY <1>1, PolicyIsOneHot DEF MutexInv, request_valid
<1>4. t \in Threads /\ pc[t] > 0
  BY <1>3 DEF req
<1>5. t \notin release
  BY <1>4 DEF MutexInv, ReleasedAreOutside
<1> QED BY <1>2, <1>4, <1>5 DEF ArbiterEdge

(* Every clock edge and every reset keeps the mutex invariant.             *)
LEMMA MutexStep ==
    ASSUME MutexInv, SLOTS = 1, ~TIGHT, Programs, [Next]_vars
    PROVE  MutexInv'
<1> USE ThreadLockAssumption
<1>1. TypeOK'
  BY TypeStep DEF MutexInv
<1>2. ASSUME NEW cond \in SUBSET Threads, NEW abort \in SUBSET Threads,
             Edge(cond, {}, abort)
      PROVE  ReleasedAreOutside' /\ OwnerIsLatched'
  <2>1. ReleasedAreOutside'
    BY <1>2 DEF Edge, ReleasedAreOutside, Exiting, Advancing, MutexInv, TypeOK
  <2>2. ASSUME NEW t \in Threads, pc'[t] > 1
        PROVE  hold_valid_r' /\ hold_owner_r' = t
    <3>1. \/ pc[t] > 1
          \/ pc[t] = 1 /\ t \in Advancing(cond)
      BY <1>2, <2>2 DEF Edge, MutexInv, TypeOK
    <3>2. t \in grant
      <4>1. CASE pc[t] > 1
        BY <4>1, OwnerIsGranted
      <4>2. CASE pc[t] = 1 /\ t \in Advancing(cond)
        BY <4>2 DEF Advancing, GatedByGrant, Programs
      <4> QED BY <3>1, <4>1, <4>2
    <3> QED BY <1>2, <3>2, GranteeIsLatched DEF Edge
  <2> QED BY <2>1, <2>2 DEF OwnerIsLatched
<1>3. ASSUME Reset PROVE ReleasedAreOutside' /\ OwnerIsLatched'
  <2>1. ReleasedAreOutside'
    BY <1>3 DEF Reset, ReleasedAreOutside
  <2>2. \A t \in Threads : pc'[t] = 0
    BY <1>3 DEF Reset
  <2> QED BY <2>1, <2>2 DEF OwnerIsLatched
<1>4. ASSUME UNCHANGED vars PROVE ReleasedAreOutside' /\ OwnerIsLatched'
  BY <1>4 DEF vars, arbiter, MutexInv, ReleasedAreOutside, OwnerIsLatched
<1> QED BY <1>1, <1>2, <1>3, <1>4 DEF Next, MayLoopBack, MutexInv

(* Under the mutex invariant at most one thread is inside: only the owner  *)
(* can be past the first body state, and only a grantee enters.            *)
LEMMA MutexExcludes ==
    ASSUME MutexInv, SLOTS = 1, Programs
    PROVE  MutualExclusion
<1>1. \A t, u \in grant : t = u
  BY PolicyIsOneHot DEF grant, MutexInv
<1>2. Inside \subseteq grant
  BY OwnerIsGranted DEF Inside
<1>3. CASE Inside = {}
  BY <1>3, FS_EmptySet DEF MutualExclusion
<1>4. ASSUME NEW t \in Inside PROVE MutualExclusion
  <2>1. Inside = {t}
    BY <1>1, <1>2, <1>4
  <2> QED BY <2>1, FS_Singleton DEF MutualExclusion
<1> QED BY <1>3, <1>4

(* The inductive invariant holds throughout.                               *)
LEMMA MutexInvariance ==
    ASSUME SLOTS = 1, ~TIGHT, Programs
    PROVE  Spec => []MutexInv
<1>1. Init => MutexInv
  <2> SUFFICES ASSUME Init PROVE MutexInv
    OBVIOUS
  <2>1. ReleasedAreOutside
    BY DEF Init, ReleasedAreOutside
  <2>2. \A t \in Threads : pc[t] = 0
    BY DEF Init
  <2> QED BY <2>1, <2>2, InitTypeOK DEF MutexInv, OwnerIsLatched
<1>2. MutexInv /\ [Next]_vars => MutexInv'
  BY MutexStep
<1> QED BY <1>1, <1>2, PTL DEF Spec

(* Mutex: with a non-lock state between two locks of a thread, no two      *)
(* threads are ever inside the critical section together, whatever N, the  *)
(* length of the body, the policy, preemptions and resets.                 *)
THEOREM MutexMutualExclusion ==
    ASSUME SLOTS = 1, ~TIGHT, Programs
    PROVE  Spec => []MutualExclusion
<1>1. MutexInv => MutualExclusion
  BY MutexExcludes
<1>2. Spec => []MutexInv
  BY MutexInvariance
<1> QED BY <1>1, <1>2, PTL

(* Mutex: the grant stays with the grantee until it leaves the lock body.  *)
THEOREM MutexHoldStable ==
    ASSUME SLOTS = 1, ~TIGHT, Programs
    PROVE  Spec => HoldStable
<1> DEFINE Keeps == \A t \in grant : pc[t] > 0 /\ pc'[t] > 0 /\ t \notin release' => t \in grant'
<1>1. ASSUME MutexInv, [Next]_vars PROVE Keeps \/ UNCHANGED vars
  <2>1. ASSUME NEW cond \in SUBSET Threads, NEW abort \in SUBSET Threads,
               Edge(cond, {}, abort), NEW t \in grant,
               pc'[t] > 0, t \notin release'
        PROVE  t \in grant'
    <3>1. hold_valid_r' /\ hold_owner_r' = t /\ pc[t] > 0
      BY <1>1, <2>1, GranteeIsLatched DEF Edge
    <3>2. t \in Threads
      BY <1>1, PolicyIsOneHot DEF grant, MutexInv, request_valid, req
    <3>3. OwnerKeeps'
      BY <2>1, <3>1, <3>2 DEF OwnerKeeps, request_valid, req
    <3> QED BY <3>1, <3>3 DEF grant, request_ready
  <2>2. ASSUME Reset, NEW t \in grant PROVE ~(pc'[t] > 0)
    <3>1. t \in Threads
      BY <1>1, PolicyIsOneHot DEF grant, MutexInv, request_valid, req
    <3> QED BY <2>2, <3>1 DEF Reset
  <2> QED BY <1>1, <2>1, <2>2 DEF Next, MayLoopBack
<1>2. Spec => []MutexInv
  BY MutexInvariance
<1>3. MutexInv /\ [Next]_vars => [Keeps]_vars
  BY <1>1
<1> QED BY <1>2, <1>3, PTL DEF Spec, HoldStable
-----------------------------------------------------------------------------
(* The wait for the mutex under round robin.  The scan starts after the    *)
(* latched owner.                                                          *)
ScanAfterOwner == hold_valid_r => rr_ptr_r = (hold_owner_r + 1) % N

(* The releases a waiting thread has watched and the threads the scan      *)
(* would still try before it are N - 1 at most, and one fewer while        *)
(* another thread keeps the lock.                                          *)
Budget(t) == watched[t] + ScanDistance(t)
WithinBudget ==
    \A t \in Threads : pc[t] = 1 =>
        /\ Budget(t) <= N - 1
        /\ OwnerKeeps /\ hold_owner_r # t => Budget(t) <= N - 2

(* The inductive invariant of the wait.                                    *)
WaitInv ==
    /\ MutexInv
    /\ watched \in [Threads -> Nat]
    /\ ScanAfterOwner
    /\ WithinBudget

(* The distance of t from a scan pointer p.                                *)
LEMMA DistanceIs ==
    ASSUME NEW n \in Nat \ {0}, NEW t \in 0..(n - 1), NEW p \in 0..(n - 1)
    PROVE  (t - p) % n = IF t >= p THEN t - p ELSE t - p + n
<1>1. CASE t >= p
  BY <1>1
<1>2. CASE t < p
  BY <1>2
<1> QED BY <1>1, <1>2

(* A grant to a thread nearer to the scan pointer brings t nearer.         *)
LEMMA GrantBringsNearer ==
    ASSUME NEW n \in Nat \ {0}, NEW t \in 0..(n - 1), NEW w \in 0..(n - 1),
           NEW p \in 0..(n - 1), w # t, NEW q, q = (w + 1) % n
    PROVE  /\ (t - q) % n \in 0..(n - 2)
           /\ (w - p) % n <= (t - p) % n => (t - q) % n < (t - p) % n
<1>1. q \in 0..(n - 1) /\ q = IF w + 1 = n THEN 0 ELSE w + 1
  BY AfterIs
<1>2. (t - q) % n = IF t >= q THEN t - q ELSE t - q + n
  BY <1>1, DistanceIs
<1>3. (t - p) % n = IF t >= p THEN t - p ELSE t - p + n
  BY DistanceIs
<1>4. (w - p) % n = IF w >= p THEN w - p ELSE w - p + n
  BY DistanceIs
<1> QED BY <1>1, <1>2, <1>3, <1>4

(* Only the grantee releases.                                              *)
LEMMA ReleaseIsGrantee ==
    ASSUME MutexInv, SLOTS = 1, Programs, NEW cond \in SUBSET Threads,
           NEW t \in Exiting(cond), pc[t] > 0
    PROVE  t \in grant
<1>1. t \in Threads /\ t \in Advancing(cond) /\ pc[t] \in 0..BODY
  BY DEF Exiting, Advancing, MutexInv, TypeOK
<1>2. CASE pc[t] = 1
  BY <1>1, <1>2 DEF Advancing, GatedByGrant, Programs
<1>3. CASE pc[t] > 1
  BY <1>1, <1>3, OwnerIsGranted
<1> QED BY <1>1, <1>2, <1>3, ThreadLockAssumption

(* A set of releases of others has at most one member, none if the         *)
(* grantee is not in it.                                                   *)
LEMMA OneRelease ==
    ASSUME NEW R, \A u, v \in R : u = v
    PROVE  Cardinality(R) \in 0..1 /\ (R = {} => Cardinality(R) = 0)
<1>1. CASE R = {}
  BY <1>1, FS_EmptySet
<1>2. ASSUME NEW u \in R PROVE Cardinality(R) = 1
  <2>1. R = {u}
    BY <1>2
  <2> QED BY <2>1, FS_Singleton
<1> QED BY <1>1, <1>2

(* A clock edge keeps every waiting thread within its budget.              *)
LEMMA BudgetEdge ==
    ASSUME WaitInv, SLOTS = 1, POLICY = "round_robin", Programs,
           NEW cond \in SUBSET Threads, NEW abort \in SUBSET Threads,
           Edge(cond, {}, abort), CountReleases, TypeOK'
    PROVE  /\ watched' \in [Threads -> Nat]
           /\ ScanAfterOwner'
           /\ WithinBudget'
<1> USE ThreadLockAssumption
<1>1. /\ MutexInv /\ TypeOK /\ watched \in [Threads -> Nat]
      /\ N \in Nat \ {0} /\ rr_ptr_r \in 0..(N - 1) /\ rr_ptr_r' \in 0..(N - 1)
  BY DEF WaitInv, MutexInv, TypeOK, Threads
<1>2. /\ hold_valid_r' = (grant_valid /\ grant_requester \notin release)
      /\ hold_owner_r' = IF grant_valid THEN grant_requester ELSE hold_owner_r
      /\ rr_ptr_r' = IF grant_valid THEN (grant_requester + 1) % N ELSE rr_ptr_r
      /\ release' = Exiting(cond) \ abort
  BY DEF Edge, ArbiterEdge, RrPtrNext
<1>3. /\ grant \subseteq req /\ \A u, v \in grant : u = v
      /\ \A u \in grant : grant_valid /\ grant_requester = u
      /\ grant_requester \in 0..(N - 1)
      /\ grant_valid => grant_requester \in grant
  <2>1. grant = request_ready /\ request_valid = req
    BY DEF grant, request_valid
  <2>2. grant \subseteq req /\ \A u, v \in grant : u = v
    BY <1>1, <2>1, PolicyIsOneHot
  <2>3. \A u \in grant : grant_requester = u
    BY <1>1, <2>1, RequesterIsGranted
  <2>4. grant_requester \in 0..(N - 1)
    BY <1>1, RequesterIsGranted DEF Threads
  <2> QED BY <2>1, <2>2, <2>3, <2>4 DEF grant_valid
<1>4. release' \subseteq grant
  <2>1. \A u \in Exiting(cond) : pc[u] > 0
    BY DEF Exiting
  <2> QED BY <1>1, <1>2, <2>1, ReleaseIsGrantee
<1>5. ScanAfterOwner'
  BY <1>2 DEF ScanAfterOwner
<1>6. ASSUME NEW t \in Threads
      PROVE  /\ Cardinality(release' \ {t}) \in 0..1
             /\ release' = {} => Cardinality(release' \ {t}) = 0
  BY <1>3, <1>4, OneRelease
<1>7. watched' \in [Threads -> Nat]
  <2>1. \A t \in Threads : Cardinality(release' \ {t}) \in Nat
    BY <1>6
  <2> QED BY <1>1, <2>1 DEF CountReleases
<1>8. ASSUME NEW t \in Threads, pc'[t] = 1
      PROVE  /\ Budget(t)' <= N - 1
             /\ OwnerKeeps' /\ hold_owner_r' # t => Budget(t)' <= N - 2
  <2> DEFINE here == ScanDistance(t)
             next == (t - rr_ptr_r') % N
             seen == Cardinality(release' \ {t})
  <2>1. /\ t \in 0..(N - 1)
        /\ here \in 0..(N - 1) /\ next \in 0..(N - 1)
    <3>1. t \in 0..(N - 1)
      BY DEF Threads
    <3>2. (t - rr_ptr_r) % N \in 0..(N - 1)
      BY <1>1, <3>1, DistanceIs
    <3>3. (t - rr_ptr_r') % N \in 0..(N - 1)
      <4>1. PICK q \in 0..(N - 1) : q = rr_ptr_r'
        BY <1>1
      <4>2. (t - q) % N \in 0..(N - 1)
        BY <1>1, <3>1, DistanceIs
      <4> QED BY <4>1, <4>2
    <3> QED BY <3>1, <3>2, <3>3 DEF ScanDistance
  <2>2. Budget(t)' = watched'[t] + next
    BY DEF Budget, ScanDistance
  <2>3. watched'[t] = IF StillWaiting(t) THEN watched[t] + seen ELSE 0
    BY DEF CountReleases
  <2>4. seen \in 0..1 /\ (release' = {} => seen = 0)
    BY <1>6
  <2>5. OwnerKeeps' => grant_valid /\ hold_owner_r' = grant_requester /\ release' = {}
    <3>1. OwnerKeeps' => hold_valid_r' /\ hold_owner_r' \notin release'
      BY DEF OwnerKeeps
    <3> QED BY <1>2, <1>3, <1>4, <3>1
  <2> HIDE DEF here, next, seen
  <2>6. CASE ~StillWaiting(t)
    <3>1. Budget(t)' = next
      BY <2>1, <2>2, <2>3, <2>6
    <3>2. ASSUME OwnerKeeps', hold_owner_r' # t PROVE next \in 0..(N - 2)
      <4>1. rr_ptr_r' = (grant_requester + 1) % N /\ grant_requester # t
        BY <1>2, <2>5, <3>2
      <4> QED BY <1>1, <1>3, <2>1, <4>1, GrantBringsNearer DEF next
    <3> QED BY <1>1, <2>1, <3>1, <3>2
  <2>7. ASSUME StillWaiting(t)
        PROVE  /\ Budget(t)' <= N - 1
               /\ OwnerKeeps' => Budget(t)' <= N - 2
    <3>1. /\ pc[t] = 1 /\ t \notin grant /\ t \in req
          /\ Budget(t)' = watched[t] + seen + next
      BY <2>2, <2>3, <2>7 DEF StillWaiting, req
    <3>2. /\ watched[t] \in Nat
          /\ watched[t] + here <= N - 1
          /\ OwnerKeeps /\ hold_owner_r # t => watched[t] + here <= N - 2
      BY <1>1, <3>1 DEF WaitInv, WithinBudget, Budget, here
    <3>3. CASE OwnerKeeps
      <4>1. grant = {hold_owner_r}
        BY <3>3 DEF grant, request_ready
      <4>2. hold_owner_r # t /\ hold_valid_r /\ grant_valid /\ grant_requester = hold_owner_r
        BY <1>3, <3>1, <3>3, <4>1 DEF OwnerKeeps
      <4>3. rr_ptr_r' = rr_ptr_r
        BY <1>2, <4>2 DEF WaitInv, ScanAfterOwner
      <4>4. next = here
        BY <4>3 DEF next, here, ScanDistance
      <4> QED BY <1>1, <2>1, <2>4, <2>5, <3>1, <3>2, <3>3, <4>2, <4>4
    <3>4. CASE ~OwnerKeeps /\ grant_valid
      <4>1. grant_requester \in RoundRobin /\ grant_requester # t
        BY <1>3, <3>1, <3>4 DEF grant, request_ready, PolicyGrant
      <4>2. ScanDistance(grant_requester) <= ScanDistance(t)
        BY <3>1, <4>1 DEF RoundRobin, request_valid
      <4>3. rr_ptr_r' = (grant_requester + 1) % N
        BY <1>2, <3>4
      <4>4. next < here
        BY <1>1, <1>3, <2>1, <4>1, <4>2, <4>3, GrantBringsNearer DEF next, here, ScanDistance
      <4> QED BY <1>1, <2>1, <2>4, <2>5, <3>1, <3>2, <4>4
    <3>5. CASE ~grant_valid
      <4>1. release' = {} /\ rr_ptr_r' = rr_ptr_r /\ ~OwnerKeeps'
        BY <1>2, <1>3, <1>4, <2>5, <3>5
      <4>2. next = here
        BY <4>1 DEF next, here, ScanDistance
      <4> QED BY <1>1, <2>1, <2>4, <3>1, <3>2, <4>1, <4>2
    <3> QED BY <3>3, <3>4, <3>5
  <2> QED BY <2>6, <2>7
<1> QED BY <1>5, <1>7, <1>8 DEF WithinBudget

(* Every step keeps the invariant of the wait.                             *)
LEMMA WaitStep ==
    ASSUME WaitInv, SLOTS = 1, ~TIGHT, POLICY = "round_robin", Programs,
           [WaitNext]_<<vars, watched>>
    PROVE  WaitInv'
<1>1. [Next]_vars
  BY DEF WaitNext
<1>2. MutexInv'
  BY <1>1, MutexStep DEF WaitInv
<1>3. ASSUME NEW cond \in SUBSET Threads, NEW abort \in SUBSET Threads,
             Edge(cond, {}, abort), CountReleases
      PROVE  WaitInv'
  BY <1>2, <1>3, BudgetEdge DEF WaitInv, MutexInv
<1>4. ASSUME Reset, CountReleases PROVE WaitInv'
  <2>1. \A t \in Threads : pc'[t] = 0
    BY <1>4 DEF Reset
  <2>2. watched' = [t \in Threads |-> 0]
    <3>1. \A t \in Threads : ~StillWaiting(t)
      BY <2>1 DEF StillWaiting
    <3> QED BY <1>4, <3>1 DEF CountReleases
  <2>3. ScanAfterOwner'
    BY <1>4 DEF Reset, ScanAfterOwner
  <2>4. WithinBudget'
    BY <2>1 DEF WithinBudget
  <2> QED BY <1>2, <2>2, <2>3, <2>4 DEF WaitInv
<1>5. ASSUME UNCHANGED <<vars, watched>> PROVE WaitInv'
  BY <1>2, <1>5 DEF WaitInv, vars, arbiter, ScanAfterOwner, WithinBudget, Budget, ScanDistance,
                    OwnerKeeps, request_valid, waiting, req
<1> QED BY <1>3, <1>4, <1>5 DEF WaitNext, Next, MayLoopBack

(* Round robin: for any number of threads and any length of the body, a    *)
(* thread that waits for the mutex is granted by the (N - 1)st release it  *)
(* watches, although preemptions and resets change who asks at any time.   *)
THEOREM MutexBoundedWait ==
    ASSUME SLOTS = 1, ~TIGHT, POLICY = "round_robin", Programs
    PROVE  WaitSpec => []BoundedWait
<1> USE ThreadLockAssumption
<1>1. WaitInit => WaitInv
  <2> SUFFICES ASSUME WaitInit PROVE WaitInv
    OBVIOUS
  <2>1. Init /\ watched = [t \in Threads |-> 0]
    BY DEF WaitInit
  <2>2. release = {} /\ ~hold_valid_r /\ \A t \in Threads : pc[t] = 0
    BY <2>1 DEF Init
  <2>3. MutexInv
    BY <2>1, <2>2, InitTypeOK DEF MutexInv, ReleasedAreOutside, OwnerIsLatched
  <2> QED BY <2>1, <2>2, <2>3 DEF WaitInv, ScanAfterOwner, WithinBudget
<1>2. WaitInv /\ [WaitNext]_<<vars, watched>> => WaitInv'
  BY WaitStep
<1>3. WaitInv => BoundedWait
  <2> SUFFICES ASSUME WaitInv, NEW t \in Threads, pc[t] = 1, t \notin grant
               PROVE  watched[t] < N - 1
    BY DEF BoundedWait
  <2>1. t \in 0..(N - 1) /\ rr_ptr_r \in 0..(N - 1) /\ t \in request_valid
    BY DEF WaitInv, MutexInv, TypeOK, Threads, request_valid, req
  <2>2. /\ watched[t] \in Nat /\ ScanDistance(t) \in 0..(N - 1)
        /\ watched[t] + ScanDistance(t) <= N - 1
        /\ OwnerKeeps /\ hold_owner_r # t => watched[t] + ScanDistance(t) <= N - 2
    BY <2>1 DEF WaitInv, WithinBudget, Budget, ScanDistance
  <2>3. CASE OwnerKeeps
    <3>1. hold_owner_r # t
      BY <2>3 DEF grant, request_ready
    <3> QED BY <2>2, <2>3, <3>1
  <2>4. CASE ~OwnerKeeps
    <3>1. t \notin RoundRobin
      BY <2>4 DEF grant, request_ready, PolicyGrant
    <3>2. PICK u \in request_valid : ~(ScanDistance(t) <= ScanDistance(u))
      BY <2>1, <3>1 DEF RoundRobin
    <3>3. u \in 0..(N - 1)
      BY DEF request_valid, waiting, req, Threads
    <3>4. ScanDistance(u) \in 0..(N - 1)
      BY <2>1, <3>3 DEF ScanDistance
    <3> QED BY <2>2, <3>2, <3>4
  <2> QED BY <2>3, <2>4
<1> QED BY <1>1, <1>2, <1>3, PTL DEF WaitSpec
-----------------------------------------------------------------------------
(* The semaphore.  The registers held, not the latch, track the holders:   *)
(* there are at most SLOTS, and a thread past the first body state is one. *)
SemaphoreInv ==
    /\ TypeOK
    /\ Cardinality(held) <= SLOTS
    /\ \A t \in Threads : pc[t] > 1 => t \in held

(* Holders and this cycle's admission together fit in the slots.           *)
LEMMA GrantFitsSlots ==
    ASSUME SemaphoreInv, SLOTS > 1, Programs
    PROVE  /\ IsFiniteSet(grant) /\ Cardinality(grant) <= SLOTS
           /\ grant = held \cup admit
<1> USE ThreadLockAssumption
<1>1. grant = held \cup admit
  BY DEF grant
<1>2. IsFiniteSet(held)
  <2>1. 0 \in Int /\ N - 1 \in Int
    OBVIOUS
  <2>2. IsFiniteSet(Threads)
    BY <2>1, FS_Interval DEF Threads
  <2> QED BY <2>2, FS_Subset DEF SemaphoreInv, TypeOK
<1>3. CASE admit = {}
  BY <1>1, <1>2, <1>3 DEF SemaphoreInv
<1>4. ASSUME NEW t \in admit
      PROVE  IsFiniteSet(grant) /\ Cardinality(grant) <= SLOTS
  <2>1. Cardinality(held) < SLOTS /\ t \notin held
    BY <1>4 DEF admit, waiting
  <2>2. admit \subseteq request_ready
    BY DEF admit
  <2>3. \A u \in admit : u = t
    BY <1>4, <2>2, PolicyIsOneHot DEF SemaphoreInv
  <2>4. grant = held \cup {t}
    BY <1>1, <1>4, <2>3
  <2>5. IsFiniteSet(held \cup {t}) /\ Cardinality(held \cup {t}) = Cardinality(held) + 1
    BY <1>2, <2>1, FS_AddElement
  <2>6. Cardinality(held) \in Nat
    BY <1>2, FS_CardinalityType
  <2> QED BY <2>1, <2>4, <2>5, <2>6
<1> QED BY <1>1, <1>3, <1>4

(* Every clock edge and every reset keeps the semaphore invariant.         *)
LEMMA SemaphoreStep ==
    ASSUME SemaphoreInv, SLOTS > 1, Programs, [Next]_vars
    PROVE  SemaphoreInv'
<1> USE ThreadLockAssumption
<1>1. TypeOK'
  BY TypeStep DEF SemaphoreInv
<1>2. ASSUME NEW cond \in SUBSET Threads, NEW loopback \in SUBSET Threads,
             NEW abort \in SUBSET Threads, Edge(cond, loopback, abort)
      PROVE  /\ Cardinality(held') <= SLOTS
             /\ \A t \in Threads : pc'[t] > 1 => t \in held'
  <2>1. held' = admit \cup ((held \cap req) \ Exiting(cond))
    BY <1>2 DEF Edge, HeldNext
  <2>2. IsFiniteSet(grant) /\ Cardinality(grant) <= SLOTS /\ grant = held \cup admit
    BY GrantFitsSlots
  <2>3. Cardinality(held') <= SLOTS
    <3>1. held' \subseteq grant
      BY <2>1, <2>2
    <3>2. IsFiniteSet(held') /\ Cardinality(held') <= Cardinality(grant)
      BY <2>2, <3>1, FS_Subset
    <3>3. Cardinality(held') \in Nat /\ Cardinality(grant) \in Nat
      BY <2>2, <3>2, FS_CardinalityType
    <3> QED BY <2>2, <3>2, <3>3
  <2>4. ASSUME NEW t \in Threads, pc'[t] > 1 PROVE t \in held'
    <3>1. \/ pc[t] > 1
          \/ pc[t] = 1 /\ t \in Advancing(cond)
      BY <1>2, <2>4 DEF Edge, SemaphoreInv, TypeOK
    <3>2. t \in grant
      <4>1. CASE pc[t] > 1
        BY <4>1, <2>2 DEF SemaphoreInv
      <4>2. CASE pc[t] = 1 /\ t \in Advancing(cond)
        BY <4>2 DEF Advancing, GatedByGrant, Programs
      <4> QED BY <3>1, <4>1, <4>2
    <3>3. t \in req
      BY <3>1 DEF req, SemaphoreInv, TypeOK
    <3>4. t \notin Exiting(cond)
      BY <1>2, <2>4 DEF Edge, Exiting, SemaphoreInv, TypeOK
    <3> QED BY <2>1, <2>2, <3>2, <3>3, <3>4
  <2> QED BY <2>3, <2>4
<1>3. ASSUME Reset
      PROVE  /\ Cardinality(held') <= SLOTS
             /\ \A t \in Threads : pc'[t] > 1 => t \in held'
  <2>1. held' = {} /\ \A t \in Threads : pc'[t] = 0
    BY <1>3 DEF Reset
  <2> QED BY <2>1, FS_EmptySet
<1>4. ASSUME UNCHANGED vars
      PROVE  /\ Cardinality(held') <= SLOTS
             /\ \A t \in Threads : pc'[t] > 1 => t \in held'
  BY <1>4 DEF vars, SemaphoreInv
<1> QED BY <1>1, <1>2, <1>3, <1>4 DEF Next, MayLoopBack, SemaphoreInv

(* The registers after power-up satisfy it.                                *)
LEMMA SemaphoreStart ==
    ASSUME Init PROVE SemaphoreInv
<1>1. held = {} /\ \A t \in Threads : pc[t] = 0
  BY DEF Init
<1>2. Cardinality(held) <= SLOTS
  BY <1>1, FS_EmptySet, ThreadLockAssumption
<1> QED BY <1>1, <1>2, InitTypeOK DEF SemaphoreInv

(* Whoever is inside holds a slot or is given one in this cycle.           *)
LEMMA SemaphoreExcludes ==
    ASSUME SemaphoreInv, SLOTS > 1, Programs
    PROVE  MutualExclusion
<1>1. IsFiniteSet(grant) /\ Cardinality(grant) <= SLOTS /\ grant = held \cup admit
  BY GrantFitsSlots
<1>2. Inside \subseteq grant
  BY <1>1 DEF Inside, SemaphoreInv
<1>3. IsFiniteSet(Inside) /\ Cardinality(Inside) <= Cardinality(grant)
  BY <1>1, <1>2, FS_Subset
<1>4. Cardinality(Inside) \in Nat /\ Cardinality(grant) \in Nat
  BY <1>1, <1>3, FS_CardinalityType
<1> QED BY <1>1, <1>3, <1>4, ThreadLockAssumption DEF MutualExclusion

(* A holder keeps its slot over an edge, unless it leaves the body.        *)
LEMMA HolderKeepsSlot ==
    ASSUME TypeOK, SLOTS > 1, Programs, Next, NEW t \in grant,
           pc[t] > 0, pc'[t] > 0, t \notin release'
    PROVE  t \in grant'
<1>1. grant = held \cup admit /\ held' \subseteq grant'
  BY DEF grant
<1>2. t \in Threads
  BY <1>1 DEF admit, waiting, req, TypeOK
<1>3. ASSUME NEW cond \in SUBSET Threads, NEW loopback \in SUBSET Threads,
             NEW abort \in SUBSET Threads, Edge(cond, loopback, abort)
      PROVE  t \in grant'
  <2>1. t \notin abort
    BY <1>2, <1>3 DEF Edge
  <2>2. t \notin Exiting(cond) /\ t \in req
    BY <1>2, <1>3, <2>1 DEF Edge, req
  <2>3. held' = admit \cup ((held \cap req) \ Exiting(cond))
    BY <1>3 DEF Edge, HeldNext
  <2> QED BY <1>1, <2>2, <2>3
<1>4. ~Reset
  BY <1>2 DEF Reset
<1> QED BY <1>3, <1>4 DEF Next, MayLoopBack

(* Semaphore: never more than SLOTS threads inside, even for programs that *)
(* lock again at once.                                                     *)
THEOREM SemaphoreMutualExclusion ==
    ASSUME SLOTS > 1, Programs
    PROVE  Spec => []MutualExclusion
<1>1. Init => SemaphoreInv
  BY SemaphoreStart
<1>2. SemaphoreInv /\ [Next]_vars => SemaphoreInv'
  BY SemaphoreStep
<1>3. SemaphoreInv => MutualExclusion
  BY SemaphoreExcludes
<1> QED BY <1>1, <1>2, <1>3, PTL DEF Spec

(* Semaphore: an admitted thread keeps its slot until it leaves the body,  *)
(* whoever else releases or asks in the same cycle.                        *)
THEOREM SemaphoreHoldStable ==
    ASSUME SLOTS > 1, Programs
    PROVE  Spec => HoldStable
<1> DEFINE Keeps == \A t \in grant : pc[t] > 0 /\ pc'[t] > 0 /\ t \notin release' => t \in grant'
<1>1. TypeOK /\ [Next]_vars => TypeOK'
  BY TypeStep
<1>2. TypeOK /\ [Next]_vars => [Keeps]_vars
  BY HolderKeepsSlot
<1> QED BY <1>1, <1>2, InitTypeOK, PTL DEF Spec, HoldStable
=============================================================================
