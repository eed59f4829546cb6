---------------------------- MODULE LocksProofs ----------------------------
(***************************************************************************)
(* The shared things of Locks, for any number of threads or requesters.    *)
(*                                                                         *)
(* The declared arbiter answers requests in time, for every latency, and   *)
(* its C++ object agrees with it.  The mutex is that of ThreadLockProofs,  *)
(* and so is the semaphore, with two slots.                                *)
(*                                                                         *)
(* The locks of the thread simulator are handed over.  Its invariant ties  *)
(* the masks to where the coroutines are suspended and says of a coroutine *)
(* that was looked at after its last resumption that its wait was not      *)
(* over: so the last round of a tick, in which nothing resumes, leaves     *)
(* nobody who could lock.  A wait is bounded because every claim brings    *)
(* the waiting thread nearer in the order of the policy, counted for       *)
(* weighted with the credits that the others have left.                    *)
(*                                                                         *)
(* The workers tick the clocked edges.  Whoever has arrived at a spinning  *)
(* barrier and is not yet let go spins with the current generation, and    *)
(* count is their number, so the one who sees count reach target knows     *)
(* that everybody else is in front of this barrier.  That is why a round   *)
(* never overlaps the next (InStep), and why a spinner that is slow to     *)
(* look cannot see generation come around to its old value.                *)
(***************************************************************************)
EXTENDS Locks, ThreadLockProofs, WellFoundedInduction

(* The declared arbiter.  A custom hook must return requesters only.       *)
UserHookGrants ==
    \A mask, last \in SUBSET User!Requesters : user_hook(mask, last) \subseteq mask

Grants == [valid : BOOLEAN, requester : User!Requesters, ready : SUBSET User!Requesters]
PipeStages == 1..(u_latency - 1)

(* A grant that answers a request mask, and passes nobody over for nothing *)
(* under a built-in policy.                                                *)
Answers(g, mask) ==
    /\ g \in Grants /\ g.ready \subseteq mask
    /\ g.valid => g.requester \in g.ready
    /\ u_policy # "custom" => /\ g.valid <=> mask # {}
                              /\ \A i, j \in g.ready : i = j

RegistersOK ==
    /\ u_policy \in {"round_robin", "priority", "custom"} /\ u_latency \in Latencies
    /\ u_clk \in BOOLEAN /\ u_request_valid \in SUBSET User!Requesters
    /\ u_rr_ptr_r \in User!Requesters /\ u_last_grant_r \in SUBSET User!Requesters
    /\ u_pipe \in [PipeStages -> Grants] /\ u_asked \in [PipeStages -> SUBSET User!Requesters]
    /\ u_waited \in [User!Requesters -> Nat]
PipeAnswers == \A s \in PipeStages : Answers(u_pipe[s], u_asked[s])

(* A waiting requester is on its way through the pipeline, or as near to   *)
(* the scan pointer as the time it has waited calls for.                   *)
IsDue(i) ==
    \/ \E s \in PipeStages : i \in u_pipe[s].ready /\ u_waited[i] <= NUM_REQ - 1 + s
    \/ u_waited[i] + ((i - u_rr_ptr_r) % NUM_REQ) <= NUM_REQ - 1

(* The fields of the C++ object are the registers, one edge of last_grant  *)
(* behind the scan pointer.                                                *)
Objects ==
    [clk_prev : BOOLEAN, last_grant : User!Requesters, last_grant_onehot : SUBSET User!Requesters,
     grant_onehot : SUBSET User!Requesters, chain : [1..u_latency -> Grants]]
ObjectMirrors ==
    /\ u_sim \in Objects /\ u_sim.clk_prev = u_clk
    /\ u_sim.chain[1] = User!comb
    /\ \A s \in PipeStages : u_sim.chain[s + 1] = u_pipe[s]
    /\ u_policy = "round_robin" => (u_sim.last_grant + 1) % NUM_REQ = u_rr_ptr_r
    /\ u_policy = "custom" => /\ u_sim.last_grant_onehot = u_last_grant_r
                              /\ u_sim.grant_onehot = user_hook(u_request_valid, u_last_grant_r)

(* The inductive invariant.                                                *)
ArbiterInv ==
    /\ RegistersOK /\ PipeAnswers /\ ObjectMirrors
    /\ u_policy = "round_robin" => \A i \in User!Requesters : IsDue(i)

(* Distances around the scan are less than n.                              *)
LEMMA DistanceRange ==
    ASSUME NEW n \in Nat \ {0}, NEW t \in 0..(n - 1), NEW p \in 0..(n - 1)
    PROVE  (t - p) % n \in 0..(n - 1)
BY DistanceIs

(* Every set of naturals has a least element.                              *)
LEMMA LeastNatural ==
    ASSUME NEW S \in SUBSET Nat, S # {}
    PROVE  \E m \in S : \A k \in S : m <= k
<1> DEFINE T == {1..n : n \in S}
           R == StrictSubsetOrdering(Nat)
<1>1. \A n \in S : 1..n \in FiniteSubsetsOf(Nat)
  BY FS_Interval DEF FiniteSubsetsOf
<1>2. T \subseteq FiniteSubsetsOf(Nat) /\ T # {}
  BY <1>1
<1>3. IsWellFoundedOn(R, FiniteSubsetsOf(Nat))
  BY FS_StrictSubsetOrderingWellFounded
<1> HIDE DEF R
<1>4. PICK x \in T : \A y \in T : <<y, x>> \notin R
  <2> HIDE DEF T
  <2> QED BY <1>2, <1>3, WFMin
<1>5. PICK m \in S : x = 1..m
  OBVIOUS
<1>6. ASSUME NEW k \in S, ~(m <= k) PROVE FALSE
  <2>1. 1..k \subseteq 1..m /\ m \in 1..m /\ m \notin 1..k
    BY <1>6
  <2>2. <<1..k, 1..m>> \in R
    BY <2>1 DEF R, StrictSubsetOrdering
  <2> QED BY <1>4, <1>5, <2>2
<1> QED BY <1>6

(* The scan of round_robin finds the requester nearest to its start.       *)
LEMMA ScanFinds ==
    ASSUME NEW mask \in SUBSET User!Requesters, mask # {}, NEW start \in User!Requesters
    PROVE  /\ User!First(mask, start) \in mask
           /\ \A j \in mask : (User!First(mask, start) - start) % NUM_REQ <= (j - start) % NUM_REQ
<1> DEFINE d(i) == (i - start) % NUM_REQ
<1>1. \A i \in mask : d(i) \in Nat
  BY DistanceIs, ArbiterWellFormed DEF User!Requesters
<1> HIDE DEF d
<1>2. PICK m \in {d(i) : i \in mask} : \A k \in {d(i) : i \in mask} : m <= k
  <2>1. {d(i) : i \in mask} \in SUBSET Nat /\ {d(i) : i \in mask} # {}
    BY <1>1
  <2> QED BY <2>1, LeastNatural
<1>3. \E i \in mask : \A j \in mask : d(i) <= d(j)
  BY <1>2
<1> QED BY <1>3 DEF User!First, d

(* The highest index that a custom hook grants is one that it grants.      *)
LEMMA HighestFinds ==
    ASSUME NEW mask \in SUBSET User!Requesters, mask # {}
    PROVE  User!Highest(mask) \in mask
<1> DEFINE d(i) == NUM_REQ - i
<1>1. \A i \in mask : d(i) \in Nat
  BY ArbiterWellFormed DEF User!Requesters
<1>2. PICK m \in {d(i) : i \in mask} : \A k \in {d(i) : i \in mask} : m <= k
  <2> HIDE DEF d
  <2>1. {d(i) : i \in mask} \in SUBSET Nat /\ {d(i) : i \in mask} # {}
    BY <1>1
  <2> QED BY <2>1, LeastNatural
<1>3. PICK i \in mask : m = d(i)
  BY <1>2
<1>4. ASSUME NEW j \in mask PROVE j <= i
  <2>1. d(i) <= d(j)
    BY <1>2, <1>3
  <2> QED BY <2>1, ArbiterWellFormed DEF User!Requesters
<1> QED BY <1>4 DEF User!Highest

(* Each policy's grant answers the mask it sees.                           *)
LEMMA PolicyAnswers ==
    ASSUME UserHookGrants, NEW mask \in SUBSET User!Requesters, NEW start \in User!Requesters,
           NEW last \in SUBSET User!Requesters
    PROVE  /\ Answers(User!GrantOne(mask, start), mask)
           /\ u_policy = "custom" => Answers(User!GrantMask(user_hook(mask, last)), mask)
           /\ User!GrantMask(user_hook(mask, last)).ready = user_hook(mask, last)
           /\ User!NoGrant \in Grants /\ Answers(User!NoGrant, {})
<1>0. 0 \in User!Requesters
  BY ArbiterWellFormed DEF User!Requesters
<1>1. User!NoGrant \in Grants /\ User!NoGrant.valid = FALSE /\ User!NoGrant.ready = {}
  BY <1>0 DEF User!NoGrant, User!Grant, Grants
<1>2. Answers(User!NoGrant, {})
  BY <1>1 DEF Answers
<1>3. Answers(User!GrantOne(mask, start), mask)
  <2>1. CASE mask = {}
    BY <2>1, <1>2 DEF User!GrantOne
  <2>2. CASE mask # {}
    <3>1. User!First(mask, start) \in mask
      BY <2>2, ScanFinds
    <3>2. User!GrantOne(mask, start) = [valid |-> TRUE, requester |-> User!First(mask, start),
                                   ready |-> {User!First(mask, start)}]
      BY <2>2 DEF User!GrantOne, User!Grant
    <3> QED BY <2>2, <3>1, <3>2 DEF Answers, Grants
  <2> QED BY <2>1, <2>2
<1> DEFINE hook == user_hook(mask, last)
<1>4. hook \subseteq mask
  BY DEF UserHookGrants
<1> HIDE DEF hook
<1>5. User!GrantMask(hook) \in Grants /\ User!GrantMask(hook).ready = hook
      /\ (User!GrantMask(hook).valid => User!GrantMask(hook).requester \in hook)
  <2>1. CASE hook = {}
    BY <2>1, <1>1 DEF User!GrantMask
  <2>2. CASE hook # {}
    <3>1. User!Highest(hook) \in hook
      BY <1>4, <2>2, HighestFinds
    <3>2. User!GrantMask(hook) = [valid |-> TRUE, requester |-> User!Highest(hook), ready |-> hook]
      BY <2>2 DEF User!GrantMask, User!Grant
    <3> QED BY <1>4, <3>1, <3>2 DEF Grants
  <2> QED BY <2>1, <2>2
<1> QED BY <1>1, <1>2, <1>3, <1>4, <1>5 DEF Answers, hook

(* comb grants by the requests of this cycle.                              *)
LEMMA CombAnswers ==
    ASSUME UserHookGrants, RegistersOK
    PROVE  Answers(User!comb, u_request_valid)
<1>1. 0 \in User!Requesters
  BY ArbiterWellFormed DEF User!Requesters
<1>2. u_policy \in {"round_robin", "priority", "custom"}
  BY ArbiterWellFormed DEF RegistersOK
<1>3. /\ u_request_valid \in SUBSET User!Requesters /\ u_rr_ptr_r \in User!Requesters
      /\ u_last_grant_r \in SUBSET User!Requesters
  BY DEF RegistersOK
<1>4. CASE u_policy = "round_robin"
  BY <1>3, <1>4, PolicyAnswers DEF User!comb
<1>5. CASE u_policy = "priority"
  BY <1>1, <1>3, <1>5, PolicyAnswers DEF User!comb
<1>6. CASE u_policy = "custom"
  BY <1>1, <1>3, <1>6, PolicyAnswers DEF User!comb
<1> QED BY <1>2, <1>4, <1>5, <1>6

(* eval_comb() on an object whose fields are the registers of the next     *)
(* state.                                                                  *)
LEMMA EvalMirrors ==
    ASSUME UserHookGrants, RegistersOK', UNCHANGED User!design, NEW o \in Objects,
           o.clk_prev = u_clk', u_sim' = User!EvalComb(o, u_request_valid'),
           \A s \in PipeStages : o.chain[s + 1] = u_pipe'[s],
           u_policy = "round_robin" => (o.last_grant + 1) % NUM_REQ = u_rr_ptr_r',
           u_policy = "custom" => o.last_grant_onehot = u_last_grant_r'
    PROVE  ObjectMirrors'
<1> DEFINE mask == u_request_valid'
           onehot == IF u_policy = "custom" THEN user_hook(mask, o.last_grant_onehot) ELSE {}
           next == (o.last_grant + 1) % NUM_REQ
           given == CASE u_policy = "round_robin" -> User!GrantOne(mask, next)
                      [] u_policy = "priority" -> User!GrantOne(mask, 0)
                      [] u_policy = "custom" -> User!GrantMask(onehot)
<1>0. /\ u_policy \in {"round_robin", "priority", "custom"} /\ u_latency \in Nat \ {0}
      /\ u_policy' = u_policy /\ u_latency' = u_latency /\ 0 \in User!Requesters
  BY ArbiterWellFormed DEF RegistersOK, User!design, User!Requesters
<1>1. /\ u_request_valid' \in SUBSET User!Requesters /\ u_rr_ptr_r' \in User!Requesters
      /\ u_last_grant_r' \in SUBSET User!Requesters
  BY DEF RegistersOK
<1>2. given = User!comb' /\ given \in Grants
  <2>1. CASE u_policy = "round_robin"
    BY <1>0, <1>1, <2>1, PolicyAnswers DEF User!comb, Answers
  <2>2. CASE u_policy = "priority"
    BY <1>0, <1>1, <2>2, PolicyAnswers DEF User!comb, Answers
  <2>3. CASE u_policy = "custom"
    BY <1>0, <1>1, <2>3, PolicyAnswers DEF User!comb, Answers
  <2> QED BY <1>0, <2>1, <2>2, <2>3
<1>3. onehot \in SUBSET User!Requesters
  BY <1>1 DEF UserHookGrants, Objects
<1>4. u_policy = "custom" => onehot = user_hook(u_request_valid', u_last_grant_r')
  OBVIOUS
<1>5. u_sim' = [o EXCEPT !.grant_onehot = onehot, !.chain[1] = given]
  BY DEF User!EvalComb
<1> HIDE DEF onehot, given, next, mask
<1>6. /\ u_sim' \in Objects /\ u_sim'.clk_prev = u_clk' /\ u_sim'.grant_onehot = onehot
      /\ u_sim'.last_grant = o.last_grant /\ u_sim'.last_grant_onehot = o.last_grant_onehot
      /\ u_sim'.chain = [o.chain EXCEPT ![1] = given]
  <2>1. [o.chain EXCEPT ![1] = given] \in [1..u_latency -> Grants]
    BY <1>2 DEF Objects
  <2>2. u_sim' = [o EXCEPT !.grant_onehot = onehot, !.chain = [o.chain EXCEPT ![1] = given]]
    BY <1>5 DEF Objects
  <2> QED BY <1>3, <2>1, <2>2 DEF Objects
<1>7. o.chain \in [1..u_latency -> Grants] /\ 1 \in 1..u_latency
  BY <1>0 DEF Objects
<1>8. u_sim'.chain[1] = User!comb' /\ \A s \in PipeStages : u_sim'.chain[s + 1] = u_pipe'[s]
  BY <1>0, <1>2, <1>6, <1>7 DEF PipeStages
<1>9. Objects' = Objects /\ PipeStages' = PipeStages
  BY <1>0 DEF Objects, PipeStages
<1> QED BY <1>0, <1>4, <1>6, <1>8, <1>9 DEF ObjectMirrors

(* Power-up and the first eval() of the object.                            *)
LEMMA ArbiterStart ==
    ASSUME UserHookGrants, User!Init
    PROVE  ArbiterInv
<1>0. /\ u_latency \in Nat \ {0} /\ u_policy \in {"round_robin", "priority", "custom"}
      /\ 0 \in User!Requesters /\ NUM_REQ - 1 \in User!Requesters /\ NUM_REQ \in Nat \ {0}
  BY ArbiterWellFormed DEF User!Init, User!Requesters
<1>1. User!NoGrant \in Grants /\ Answers(User!NoGrant, {})
  BY <1>0, PolicyAnswers
<1>2. RegistersOK
  BY <1>0, <1>1 DEF User!Init, RegistersOK, PipeStages
<1>3. PipeAnswers
  BY <1>1 DEF User!Init, PipeAnswers, PipeStages
<1>4. \A i \in User!Requesters : IsDue(i)
  BY <1>0, DistanceIs DEF User!Init, IsDue, User!Requesters
<1>5. ObjectMirrors
  <2> DEFINE next == (User!Object.last_grant + 1) % NUM_REQ
             given == CASE u_policy = "round_robin" -> User!GrantOne({}, next)
                        [] u_policy = "priority" -> User!GrantOne({}, 0)
                        [] u_policy = "custom" -> User!GrantMask(User!Object.grant_onehot)
  <2>1. User!Object \in Objects
    BY <1>0, <1>1 DEF User!Object, Objects
  <2>2. /\ User!Object.clk_prev = FALSE /\ User!Object.last_grant = NUM_REQ - 1
        /\ User!Object.last_grant_onehot = {}
        /\ User!Object.chain = [s \in 1..u_latency |-> User!NoGrant]
    BY DEF User!Object
  <2>3. (NUM_REQ - 1 + 1) % NUM_REQ = 0
    BY <1>0
  <2>4. user_hook({}, {}) = {}
    BY DEF UserHookGrants
  <2>5. User!GrantOne({}, 0) = User!NoGrant /\ User!GrantMask({}) = User!NoGrant
    BY DEF User!GrantOne, User!GrantMask
  <2>6. User!comb = User!NoGrant
    BY <1>0, <2>4, <2>5 DEF User!comb, User!Init
  <2>7. u_sim = [User!Object EXCEPT !.grant_onehot = {}, !.chain[1] = User!NoGrant]
    BY <1>0, <2>2, <2>3, <2>4, <2>5 DEF User!EvalComb, User!Init
  <2> HIDE DEF given, next
  <2>8. /\ u_sim \in Objects /\ u_sim.clk_prev = FALSE /\ u_sim.last_grant = NUM_REQ - 1
        /\ u_sim.last_grant_onehot = {} /\ u_sim.grant_onehot = {}
        /\ u_sim.chain = [[s \in 1..u_latency |-> User!NoGrant] EXCEPT ![1] = User!NoGrant]
    BY <1>1, <2>1, <2>2, <2>7 DEF Objects
  <2>9. \A s \in 1..u_latency : u_sim.chain[s] = User!NoGrant
    BY <2>8
  <2>10. /\ u_clk = FALSE /\ u_request_valid = {} /\ u_rr_ptr_r = 0 /\ u_last_grant_r = {}
         /\ u_pipe = [s \in PipeStages |-> User!NoGrant]
    BY DEF User!Init, PipeStages
  <2>11. u_sim.chain[1] = User!comb /\ \A s \in PipeStages : u_sim.chain[s + 1] = u_pipe[s]
    BY <1>0, <2>6, <2>9, <2>10 DEF PipeStages
  <2> QED BY <2>3, <2>4, <2>8, <2>10, <2>11 DEF ObjectMirrors
<1> QED BY <1>2, <1>3, <1>4, <1>5 DEF ArbiterInv

(* Between two edges of the clock only the requests and the fields change. *)
LEMMA ArbiterIdles ==
    ASSUME UserHookGrants, ArbiterInv, UNCHANGED <<User!design, User!registers, u_asked, u_waited>>,
           u_clk' \in BOOLEAN, u_request_valid' \in SUBSET User!Requesters,
           u_sim' = User!EvalComb([u_sim EXCEPT !.clk_prev = u_clk'], u_request_valid')
    PROVE  ArbiterInv'
<1>1. RegistersOK'
  BY DEF ArbiterInv, RegistersOK, User!design, User!registers, PipeStages
<1>2. PipeAnswers'
  BY DEF ArbiterInv, PipeAnswers, Answers, User!design, User!registers, PipeStages
<1>3. u_policy' = "round_robin" => \A i \in User!Requesters : IsDue(i)'
  BY DEF ArbiterInv, IsDue, User!design, User!registers, PipeStages
<1> DEFINE o == [u_sim EXCEPT !.clk_prev = u_clk']
<1>4. /\ o \in Objects /\ o.clk_prev = u_clk' /\ o.last_grant = u_sim.last_grant
      /\ o.last_grant_onehot = u_sim.last_grant_onehot /\ o.chain = u_sim.chain
  BY DEF ArbiterInv, ObjectMirrors, Objects
<1> HIDE DEF o
<1>5. /\ u_sim' = User!EvalComb(o, u_request_valid')
      /\ \A s \in PipeStages : o.chain[s + 1] = u_pipe'[s]
      /\ u_policy = "round_robin" => (o.last_grant + 1) % NUM_REQ = u_rr_ptr_r'
      /\ u_policy = "custom" => o.last_grant_onehot = u_last_grant_r'
  BY <1>4 DEF ArbiterInv, ObjectMirrors, User!registers, o
<1>6. ObjectMirrors'
  BY <1>1, <1>4, <1>5, EvalMirrors
<1> QED BY <1>1, <1>2, <1>3, <1>6 DEF ArbiterInv

(* The falling edge, a settling pass, and new requests.                    *)
LEMMA ArbiterSettles ==
    ASSUME UserHookGrants, ArbiterInv, User!Drive \/ User!Fall
    PROVE  ArbiterInv'
<1>1. u_sim \in Objects /\ u_sim.clk_prev = u_clk /\ u_request_valid \in SUBSET User!Requesters
  BY DEF ArbiterInv, ObjectMirrors, RegistersOK
<1>2. CASE User!Drive
  <2>1. PICK mask \in SUBSET User!Requesters :
           u_request_valid' = mask /\ u_sim' = User!eval(FALSE, mask, FALSE)
    BY <1>2 DEF User!Drive
  <2>2. User!EvalPosedge(u_sim, FALSE, FALSE) = [u_sim EXCEPT !.clk_prev = FALSE]
    BY DEF User!EvalPosedge
  <2>3. u_clk' = FALSE /\ UNCHANGED <<User!design, User!registers, u_asked, u_waited>>
    BY <1>2, ArbiterIdles DEF User!Drive, ArbiterInv, RegistersOK
  <2> QED BY <2>1, <2>2, <2>3, ArbiterIdles DEF User!eval
<1>3. CASE User!Fall
  <2>1. User!EvalPosedge(u_sim, u_clk', FALSE) = [u_sim EXCEPT !.clk_prev = u_clk']
    BY <1>1, <1>3 DEF User!EvalPosedge, User!Fall
  <2> QED BY <1>1, <1>3, <2>1, ArbiterIdles DEF User!eval, User!Fall
<1> QED BY <1>2, <1>3

(* An edge of the clock moves every grant one stage on.                    *)
LEMMA ArbiterClocks ==
    ASSUME UserHookGrants, ArbiterInv, User!Rise
    PROVE  ArbiterInv'
<1>0. /\ u_latency \in Nat \ {0} /\ u_policy \in {"round_robin", "priority", "custom"}
      /\ u_policy' = u_policy /\ u_latency' = u_latency /\ u_clk' = TRUE
      /\ u_request_valid' = u_request_valid
      /\ NUM_REQ \in Nat \ {0} /\ PipeStages' = PipeStages
  BY ArbiterWellFormed DEF ArbiterInv, RegistersOK, User!Rise, User!design, PipeStages
<1>1. /\ u_request_valid \in SUBSET User!Requesters /\ u_rr_ptr_r \in User!Requesters
      /\ u_last_grant_r \in SUBSET User!Requesters /\ u_waited \in [User!Requesters -> Nat]
      /\ u_pipe \in [PipeStages -> Grants] /\ u_asked \in [PipeStages -> SUBSET User!Requesters]
  BY DEF ArbiterInv, RegistersOK
<1>2. Answers(User!comb, u_request_valid) /\ User!comb \in Grants
  BY CombAnswers DEF ArbiterInv, Answers
<1>3. /\ u_pipe' = [s \in PipeStages |-> IF s = 1 THEN User!comb ELSE u_pipe[s - 1]]
      /\ u_asked' = [s \in PipeStages |-> IF s = 1 THEN u_request_valid ELSE u_asked[s - 1]]
  BY <1>1 DEF User!Rise, User!Edge, User!Shift
<1>4. \A s \in PipeStages : s # 1 => s - 1 \in PipeStages
  BY <1>0 DEF PipeStages
<1>5. u_pipe' \in [PipeStages -> Grants] /\ u_asked' \in [PipeStages -> SUBSET User!Requesters]
  BY <1>1, <1>2, <1>3, <1>4
<1>6. u_rr_ptr_r' \in User!Requesters /\ u_last_grant_r' \in SUBSET User!Requesters
  <2>1. User!comb.requester \in User!Requesters /\ User!comb.ready \in SUBSET User!Requesters
    BY <1>2 DEF Grants
  <2>2. User!AdvancePastGrantee \in User!Requesters
    BY <1>0, <2>1, AfterIs DEF User!AdvancePastGrantee, User!Requesters
  <2> QED BY <1>1, <2>1, <2>2 DEF User!Rise, User!Edge
<1>7. u_waited' \in [User!Requesters -> Nat]
  BY <1>1 DEF User!Rise
<1>8. RegistersOK'
  BY <1>0, <1>1, <1>5, <1>6, <1>7 DEF RegistersOK, ArbiterInv
<1>9. PipeAnswers'
  <2> SUFFICES ASSUME NEW s \in PipeStages PROVE Answers(u_pipe'[s], u_asked'[s])
    BY <1>0 DEF PipeAnswers, Answers
  <2> QED BY <1>2, <1>3, <1>4 DEF ArbiterInv, PipeAnswers
<1>10. ASSUME u_policy = "round_robin", NEW i \in User!Requesters PROVE IsDue(i)'
  <2>1. u_waited'[i] = IF i \in u_request_valid \ User!output.ready THEN u_waited[i] + 1 ELSE 0
    BY <1>10 DEF User!Rise
  <2>2. (i - u_rr_ptr_r') % NUM_REQ \in 0..(NUM_REQ - 1)
    BY <1>0, <1>6, DistanceRange DEF User!Requesters
  <2>3. CASE i \notin u_request_valid \ User!output.ready
    BY <1>0, <2>1, <2>2, <2>3 DEF IsDue
  <2>4. CASE i \in u_request_valid \ User!output.ready
    <3>0. u_waited[i] \in Nat /\ u_waited'[i] = u_waited[i] + 1
      BY <1>1, <2>1, <2>4
    <3>1. ASSUME NEW s \in PipeStages, i \in u_pipe[s].ready, u_waited[i] <= NUM_REQ - 1 + s
          PROVE  IsDue(i)'
      <4>1. s # u_latency - 1
        BY <1>0, <2>4, <3>1 DEF User!output, PipeStages
      <4>2. s + 1 \in PipeStages /\ s \in Nat \ {0}
        BY <1>0, <4>1 DEF PipeStages
      <4>3. u_pipe'[s + 1] = u_pipe[s]
        <5>1. s + 1 # 1 /\ (s + 1) - 1 = s
          BY <4>2
        <5> QED BY <1>3, <4>2, <5>1
      <4>4. u_waited'[i] <= NUM_REQ - 1 + (s + 1)
        BY <1>0, <3>0, <3>1, <4>2
      <4> QED BY <1>0, <3>1, <4>2, <4>3, <4>4 DEF IsDue
    <3>2. ASSUME u_waited[i] + ((i - u_rr_ptr_r) % NUM_REQ) <= NUM_REQ - 1 PROVE IsDue(i)'
      <4> DEFINE w == User!comb.requester
      <4>1. u_request_valid # {}
        BY <2>4
      <4>2. w = User!First(u_request_valid, u_rr_ptr_r) /\ User!comb.valid /\ User!comb.ready = {w}
        BY <1>10, <4>1 DEF User!comb, User!GrantOne, User!Grant
      <4>3. w \in User!Requesters /\ (w - u_rr_ptr_r) % NUM_REQ <= (i - u_rr_ptr_r) % NUM_REQ
        BY <1>1, <2>4, <4>1, <4>2, ScanFinds
      <4>4. u_rr_ptr_r' = (w + 1) % NUM_REQ
        BY <1>10, <4>2 DEF User!Rise, User!Edge, User!AdvancePastGrantee
      <4>5. (i - u_rr_ptr_r) % NUM_REQ \in Nat
        BY <1>0, <1>1, DistanceIs DEF User!Requesters
      <4>6. CASE w = i
        <5>1. u_latency # 1
          BY <2>4, <4>2, <4>6 DEF User!output
        <5>2. 1 \in PipeStages /\ u_pipe'[1] = User!comb
          BY <1>0, <1>3, <5>1 DEF PipeStages
        <5>3. u_waited'[i] <= NUM_REQ - 1 + 1
          BY <1>0, <3>0, <3>2, <4>5
        <5> QED BY <1>0, <4>2, <4>6, <5>2, <5>3 DEF IsDue
      <4>7. CASE w # i
        <5>1. /\ (i - u_rr_ptr_r') % NUM_REQ \in 0..(NUM_REQ - 2)
              /\ (i - u_rr_ptr_r') % NUM_REQ < (i - u_rr_ptr_r) % NUM_REQ
          BY <1>0, <1>1, <4>3, <4>4, <4>7, GrantBringsNearer DEF User!Requesters
        <5>2. u_waited'[i] + ((i - u_rr_ptr_r') % NUM_REQ) <= NUM_REQ - 1
          BY <1>0, <3>0, <3>2, <4>5, <5>1
        <5> QED BY <5>2 DEF IsDue
      <4> QED BY <4>6, <4>7
    <3> QED BY <1>10, <3>1, <3>2 DEF ArbiterInv, IsDue
  <2> QED BY <2>3, <2>4
<1>11. ObjectMirrors'
  <2> DEFINE driven == u_sim.chain[1]
             o == [[u_sim EXCEPT !.clk_prev = TRUE] EXCEPT
                      !.last_grant = IF driven.valid THEN driven.requester ELSE @,
                      !.last_grant_onehot = IF driven.valid THEN u_sim.grant_onehot ELSE @,
                      !.chain = User!ShiftBackToFront(@)]
  <2>1. u_sim \in Objects /\ u_sim.clk_prev = FALSE /\ driven = User!comb
    BY DEF ArbiterInv, ObjectMirrors, User!Rise
  <2>2. u_sim' = User!EvalComb(o, u_request_valid')
    BY <1>0, <2>1 DEF User!Rise, User!eval, User!EvalPosedge
  <2>3. /\ o.clk_prev = TRUE /\ o.grant_onehot = u_sim.grant_onehot
        /\ o.last_grant = IF User!comb.valid THEN User!comb.requester ELSE u_sim.last_grant
        /\ o.last_grant_onehot = IF User!comb.valid THEN u_sim.grant_onehot
                                                    ELSE u_sim.last_grant_onehot
        /\ o.chain = User!ShiftBackToFront(u_sim.chain)
        /\ DOMAIN o = DOMAIN u_sim
    BY <2>1 DEF Objects
  <2>4. /\ o.chain = [s \in 1..u_latency |-> IF s = 1 THEN User!comb ELSE u_sim.chain[s - 1]]
        /\ o.chain \in [1..u_latency -> Grants]
    BY <1>0, <1>2, <2>1, <2>3 DEF User!ShiftBackToFront, Objects
  <2>5. o \in Objects
    <3>1. User!comb.requester \in User!Requesters
      BY <1>2 DEF Grants
    <3> QED BY <2>1, <2>3, <2>4, <3>1 DEF Objects
  <2> HIDE DEF o, driven
  <2>6. \A s \in PipeStages : o.chain[s + 1] = u_pipe'[s]
    <3> TAKE s \in PipeStages
    <3>1. s + 1 \in 1..u_latency /\ s + 1 # 1 /\ (s + 1) - 1 = s
      BY <1>0 DEF PipeStages
    <3>2. o.chain[s + 1] = u_sim.chain[s]
      BY <2>4, <3>1
    <3>3. CASE s = 1
      BY <1>3, <2>1, <3>2, <3>3 DEF driven
    <3>4. CASE s # 1
      <4>1. s - 1 \in PipeStages /\ (s - 1) + 1 = s
        BY <1>0, <3>4 DEF PipeStages
      <4>2. u_sim.chain[s] = u_pipe[s - 1]
        BY <4>1 DEF ArbiterInv, ObjectMirrors
      <4> QED BY <1>3, <3>2, <3>4, <4>2
    <3> QED BY <3>3, <3>4
  <2>7. u_policy = "round_robin" => (o.last_grant + 1) % NUM_REQ = u_rr_ptr_r'
    BY <2>3 DEF ArbiterInv, ObjectMirrors, User!Rise, User!Edge, User!AdvancePastGrantee
  <2>8. u_policy = "custom" => o.last_grant_onehot = u_last_grant_r'
    <3> SUFFICES ASSUME u_policy = "custom" PROVE o.last_grant_onehot = u_last_grant_r'
      OBVIOUS
    <3>1. User!comb.ready = u_sim.grant_onehot
      BY <1>1, PolicyAnswers DEF User!comb, ArbiterInv, ObjectMirrors
    <3> QED BY <2>3, <3>1 DEF ArbiterInv, ObjectMirrors, User!Rise, User!Edge
  <2>9. UNCHANGED User!design /\ o.clk_prev = u_clk'
    BY <1>0, <2>3 DEF User!Rise
  <2> QED BY <1>8, <2>2, <2>5, <2>6, <2>7, <2>8, <2>9, EvalMirrors
<1> QED BY <1>0, <1>8, <1>9, <1>10, <1>11 DEF ArbiterInv

(* An edge in reset empties the pipeline.                                  *)
LEMMA ArbiterResets ==
    ASSUME UserHookGrants, ArbiterInv, User!RiseInReset
    PROVE  ArbiterInv'
<1>0. /\ u_latency \in Nat \ {0} /\ u_policy' = u_policy /\ u_latency' = u_latency /\ u_clk' = TRUE
      /\ u_request_valid' = u_request_valid /\ NUM_REQ \in Nat \ {0} /\ PipeStages' = PipeStages
      /\ 0 \in User!Requesters /\ NUM_REQ - 1 \in User!Requesters
  BY ArbiterWellFormed
     DEF ArbiterInv, RegistersOK, User!RiseInReset, User!design, PipeStages, User!Requesters
<1>1. User!NoGrant \in Grants /\ Answers(User!NoGrant, {})
  BY <1>0, PolicyAnswers
<1>2. /\ u_pipe' = [s \in PipeStages |-> User!NoGrant] /\ u_asked' = [s \in PipeStages |-> {}]
      /\ u_rr_ptr_r' = 0 /\ u_last_grant_r' = {} /\ u_waited' = [i \in User!Requesters |-> 0]
  BY DEF ArbiterInv, RegistersOK, User!RiseInReset, User!ResetEdge
<1>3. RegistersOK'
  BY <1>0, <1>1, <1>2 DEF ArbiterInv, RegistersOK
<1>4. PipeAnswers'
  <2> SUFFICES ASSUME NEW s \in PipeStages PROVE Answers(u_pipe'[s], u_asked'[s])
    BY <1>0 DEF PipeAnswers, Answers
  <2> QED BY <1>1, <1>2
<1>5. ASSUME NEW i \in User!Requesters PROVE IsDue(i)'
  <2>1. (i - 0) % NUM_REQ <= NUM_REQ - 1 /\ (i - 0) % NUM_REQ \in Nat
    BY <1>0, DistanceIs DEF User!Requesters
  <2> QED BY <1>0, <1>2, <2>1 DEF IsDue
<1>6. ObjectMirrors'
  <2> DEFINE o == [[u_sim EXCEPT !.clk_prev = TRUE] EXCEPT
                      !.last_grant = NUM_REQ - 1, !.last_grant_onehot = {},
                      !.chain = [s \in 1..u_latency |->
                                   IF s = 1 THEN u_sim.chain[1] ELSE User!NoGrant]]
  <2>1. u_sim \in Objects /\ u_sim.clk_prev = FALSE
    BY DEF ArbiterInv, ObjectMirrors, User!RiseInReset
  <2>2. u_sim' = User!EvalComb(o, u_request_valid')
    BY <1>0, <2>1 DEF User!RiseInReset, User!eval, User!EvalPosedge
  <2>3. u_sim.chain[1] \in Grants
    BY <1>0, <2>1 DEF Objects
  <2>4. /\ o \in Objects /\ o.clk_prev = TRUE /\ o.last_grant = NUM_REQ - 1
        /\ o.last_grant_onehot = {}
        /\ o.chain = [s \in 1..u_latency |-> IF s = 1 THEN u_sim.chain[1] ELSE User!NoGrant]
    BY <1>0, <1>1, <2>1, <2>3 DEF Objects
  <2> HIDE DEF o
  <2>5. \A s \in PipeStages : o.chain[s + 1] = u_pipe'[s]
    BY <1>0, <1>2, <2>4 DEF PipeStages
  <2>6. (NUM_REQ - 1 + 1) % NUM_REQ = 0
    BY <1>0
  <2>7. /\ (o.last_grant + 1) % NUM_REQ = u_rr_ptr_r' /\ o.last_grant_onehot = u_last_grant_r'
        /\ UNCHANGED User!design /\ o.clk_prev = u_clk'
    BY <1>0, <1>2, <2>4, <2>6 DEF User!RiseInReset
  <2> QED BY <1>3, <2>2, <2>4, <2>5, <2>7, EvalMirrors
<1> QED BY <1>3, <1>4, <1>5, <1>6 DEF ArbiterInv

(* Every step of the arbiter keeps the invariant.                          *)
LEMMA ArbiterStep ==
    ASSUME UserHookGrants, ArbiterInv, [User!Next]_(User!vars)
    PROVE  ArbiterInv'
<1>1. CASE UNCHANGED User!vars
  <2>1. /\ u_policy' = u_policy /\ u_latency' = u_latency /\ u_clk' = u_clk
        /\ u_request_valid' = u_request_valid /\ u_rr_ptr_r' = u_rr_ptr_r
        /\ u_last_grant_r' = u_last_grant_r /\ u_pipe' = u_pipe /\ u_sim' = u_sim
        /\ u_asked' = u_asked /\ u_waited' = u_waited
    BY <1>1 DEF User!vars, User!design, User!registers
  <2>2. User!comb' = User!comb /\ Objects' = Objects /\ PipeStages' = PipeStages
    BY <2>1 DEF User!comb, Objects, PipeStages
  <2>3. RegistersOK' /\ PipeAnswers'
    BY <2>1, <2>2 DEF ArbiterInv, RegistersOK, PipeAnswers, Answers
  <2>4. ObjectMirrors'
    BY <2>1, <2>2 DEF ArbiterInv, ObjectMirrors
  <2>5. u_policy' = "round_robin" => \A i \in User!Requesters : IsDue(i)'
    BY <2>1, <2>2 DEF ArbiterInv, IsDue
  <2> QED BY <2>3, <2>4, <2>5 DEF ArbiterInv
<1> QED BY <1>1, ArbiterSettles, ArbiterClocks, ArbiterResets DEF User!Next

(* The last stage drives the ports.                                        *)
LEMMA ArbiterServes ==
    ASSUME UserHookGrants, ArbiterInv
    PROVE  User!GrantsAnswerRequests /\ User!ServedInTime /\ User!SimAgrees
<1>0. u_latency \in Nat \ {0} /\ NUM_REQ \in Nat \ {0}
  BY ArbiterWellFormed DEF ArbiterInv, RegistersOK
<1>1. Answers(User!output, User!askedFor)
  <2>1. CASE u_latency > 1
    <3>1. u_latency - 1 \in PipeStages
      BY <1>0, <2>1 DEF PipeStages
    <3> QED BY <2>1, <3>1 DEF User!output, User!askedFor, ArbiterInv, PipeAnswers
  <2>2. CASE ~(u_latency > 1)
    BY <2>2, CombAnswers DEF User!output, User!askedFor, ArbiterInv
  <2> QED BY <2>1, <2>2
<1>2. u_policy # "custom" => Cardinality(User!output.ready) <= 1
  <2> SUFFICES ASSUME \A i, j \in User!output.ready : i = j
               PROVE  Cardinality(User!output.ready) <= 1
    BY <1>1 DEF Answers
  <2>1. CASE User!output.ready = {}
    BY <2>1, FS_EmptySet
  <2>2. CASE User!output.ready # {}
    <3>1. PICK i \in User!output.ready : User!output.ready = {i}
      BY <2>2
    <3>2. Cardinality({i}) = 1
      BY FS_Singleton
    <3> QED BY <3>1, <3>2
  <2> QED BY <2>1, <2>2
<1>3. User!GrantsAnswerRequests
  BY <1>1, <1>2 DEF User!GrantsAnswerRequests, Answers, Cardinality, User!Cardinality
<1>4. User!ServedInTime
  <2> SUFFICES ASSUME u_policy = "round_robin", NEW i \in User!Requesters
               PROVE  u_waited[i] <= NUM_REQ - 1 + u_latency - 1
    BY DEF User!ServedInTime
  <2>1. u_waited[i] \in Nat /\ (i - u_rr_ptr_r) % NUM_REQ \in Nat
    BY <1>0, DistanceIs DEF ArbiterInv, RegistersOK, User!Requesters
  <2> QED BY <1>0, <2>1 DEF ArbiterInv, IsDue, PipeStages
<1>5. User!SimAgrees
  <2>1. CASE u_latency > 1
    <3>1. u_latency - 1 \in PipeStages /\ (u_latency - 1) + 1 = u_latency
      BY <1>0, <2>1 DEF PipeStages
    <3>2. u_sim.chain[u_latency] = u_pipe[u_latency - 1]
      BY <3>1 DEF ArbiterInv, ObjectMirrors
    <3> QED BY <2>1, <3>2 DEF User!SimAgrees, User!sim_output, User!output
  <2>2. CASE u_latency = 1
    BY <2>2 DEF User!SimAgrees, User!sim_output, User!output, ArbiterInv, ObjectMirrors
  <2> QED BY <1>0, <2>1, <2>2
<1> QED BY <1>3, <1>4, <1>5

(* A declared arbiter, whoever requests and however long its pipeline: a   *)
(* grant answers a request made latency - 1 edges earlier, round_robin     *)
(* passes nobody over more than NUM_REQ - 1 times, and the C++ object      *)
(* shows the circuit's outputs after every eval().                         *)
THEOREM ArbiterServesRequests ==
    ASSUME UserHookGrants
    PROVE  LocksSpec => []RequestsServed
<1>1. LocksInit => ArbiterInv
  BY ArbiterStart DEF LocksInit
<1>2. ArbiterInv /\ [LocksNext]_<<resource, mutex_vars, sem_vars, user_vars, sim_vars, worker_vars>>
         => ArbiterInv'
  <2> SUFFICES ASSUME ArbiterInv,
                      [LocksNext]_<<resource, mutex_vars, sem_vars, user_vars, sim_vars,
                                    worker_vars>>
               PROVE  ArbiterInv'
    OBVIOUS
  <2>1. UNCHANGED user_vars => UNCHANGED User!vars
    BY DEF user_vars, User!vars, User!design, User!registers
  <2>2. User!Next \/ UNCHANGED user_vars
    BY DEF LocksNext, Mutex, Semaphore, UserArbiter, SimulatedLock, SimulatedEdges
  <2> QED BY <2>1, <2>2, ArbiterStep
<1>3. ArbiterInv => RequestsServed
  BY ArbiterServes DEF RequestsServed
<1> QED BY <1>1, <1>2, <1>3, PTL DEF LocksSpec
-----------------------------------------------------------------------------
(* The mutex of Locks steps as ThreadLockWait does.                        *)
LEMMA MutexSteps ==
    ASSUME [LocksNext]_<<resource, mutex_vars, sem_vars, user_vars, sim_vars, worker_vars>>
    PROVE  [WaitNext]_<<vars, watched>> /\ [Next]_vars
<1>1. WaitNext \/ UNCHANGED mutex_vars
  BY DEF LocksNext, Mutex, Semaphore, UserArbiter, SimulatedLock, SimulatedEdges
<1>2. UNCHANGED mutex_vars => UNCHANGED <<vars, watched>> /\ UNCHANGED vars
  BY DEF mutex_vars
<1> QED BY <1>1, <1>2 DEF WaitNext

(* The mutex among the other shared things, any number of threads and any  *)
(* length of the body: one thread inside at a time, which keeps the grant  *)
(* until it leaves, and under round robin a waiting thread is granted by   *)
(* the (N - 1)st release that it watches.                                  *)
THEOREM MutexIsSafe ==
    ASSUME SLOTS = 1, ~TIGHT, Programs
    PROVE  LocksSpec => /\ []MutualExclusion /\ HoldStable
                        /\ POLICY = "round_robin" => []BoundedWait
<1>1. LocksInit => WaitInit /\ Init
  BY DEF LocksInit, WaitInit
<1>2. [LocksNext]_<<resource, mutex_vars, sem_vars, user_vars, sim_vars, worker_vars>>
         => [WaitNext]_<<vars, watched>> /\ [Next]_vars
  BY MutexSteps
<1>3. LocksSpec => Spec /\ WaitSpec
  BY <1>1, <1>2, PTL DEF LocksSpec, Spec, WaitSpec
<1>4. Spec => []MutualExclusion /\ HoldStable
  BY MutexMutualExclusion, MutexHoldStable
<1>5. POLICY = "round_robin" => (WaitSpec => []BoundedWait)
  BY MutexBoundedWait
<1> QED BY <1>3, <1>4, <1>5

-----------------------------------------------------------------------------
(* The semaphore is the one of ThreadLockProofs with two slots.            *)
Slots == INSTANCE ThreadLockProofs WITH
    SLOTS <- 2, BODY <- 2, TIGHT <- TRUE,
    pc <- s_pc, release <- s_release, held <- s_held, hold_valid_r <- s_hold_valid_r,
    hold_owner_r <- s_hold_owner_r, rr_ptr_r <- s_rr_ptr_r, last_grant_r <- s_last_grant_r

(* What those proofs assume of the constants holds.                        *)
LEMMA SlotsFit ==
    ASSUME Programs
    PROVE  Slots!ThreadLockAssumption /\ Slots!Programs
BY ThreadLockAssumption
   DEF Slots!ThreadLockAssumption, Slots!Programs, Slots!HookIsOneHot, Slots!Threads, Threads,
       Programs, HookIsOneHot

(* The arbiter, the admission and the grants are the same.                 *)
LEMMA SameGrant ==
    /\ Sem!request_ready = Slots!request_ready /\ Sem!grant_valid = Slots!grant_valid
    /\ Sem!grant_requester = Slots!grant_requester
    /\ Sem!admit = Slots!admit /\ Sem!grant = Slots!grant /\ Sem!req = Slots!req
<1>1. Sem!Cardinality(s_held) = Slots!Cardinality(s_held)
  BY DEF Sem!Cardinality, Slots!Cardinality, Sem!IsFiniteSet, Slots!IsFiniteSet
<1>2. /\ Sem!req = Slots!req /\ Sem!waiting = Slots!waiting
      /\ Sem!request_valid = Slots!request_valid
  BY DEF Sem!req, Slots!req, Sem!waiting, Slots!waiting, Sem!request_valid, Slots!request_valid,
         Sem!Threads, Slots!Threads
<1>3. Sem!PolicyGrant = Slots!PolicyGrant
  BY <1>2 DEF Sem!PolicyGrant, Slots!PolicyGrant, Sem!RoundRobin, Slots!RoundRobin,
              Sem!Priority, Slots!Priority, Sem!ScanDistance, Slots!ScanDistance
<1>4. Sem!request_ready = Slots!request_ready
  BY <1>2, <1>3 DEF Sem!request_ready, Slots!request_ready, Sem!OwnerKeeps, Slots!OwnerKeeps
<1>5. Sem!grant_valid = Slots!grant_valid /\ Sem!grant_requester = Slots!grant_requester
  BY <1>4 DEF Sem!grant_valid, Slots!grant_valid, Sem!grant_requester, Slots!grant_requester
<1>6. Sem!admit = Slots!admit
  BY <1>1, <1>2, <1>4 DEF Sem!admit, Slots!admit
<1>7. Sem!grant = Slots!grant
  BY <1>6 DEF Sem!grant, Slots!grant
<1> QED BY <1>2, <1>4, <1>5, <1>6, <1>7

(* So are the clock edge and the reset.                                    *)
LEMMA SameClock ==
    ASSUME Sem!Next PROVE Slots!Next
<1>1. ASSUME NEW cond, NEW loopback, NEW abort, Sem!Edge(cond, loopback, abort)
      PROVE  Slots!Edge(cond, loopback, abort)
  <2>1. /\ Sem!Advancing(cond) = Slots!Advancing(cond)
        /\ Sem!Exiting(cond) = Slots!Exiting(cond)
    BY SameGrant DEF Sem!Advancing, Slots!Advancing, Sem!GatedByGrant, Slots!GatedByGrant,
                     Sem!Exiting, Slots!Exiting
  <2>2. Slots!ArbiterEdge
    BY <1>1, SameGrant DEF Sem!Edge, Sem!ArbiterEdge, Slots!ArbiterEdge, Sem!RrPtrNext,
                           Slots!RrPtrNext
  <2>3. Sem!HeldNext(cond) = Slots!HeldNext(cond)
    BY <2>1, SameGrant DEF Sem!HeldNext, Slots!HeldNext
  <2> QED BY <1>1, <2>1, <2>2, <2>3 DEF Sem!Edge, Slots!Edge, Sem!Threads, Slots!Threads
<1>2. Sem!Reset => Slots!Reset
  BY DEF Sem!Reset, Slots!Reset, Sem!Threads, Slots!Threads
<1>3. Sem!MayLoopBack = Slots!MayLoopBack /\ Sem!Threads = Slots!Threads
  BY DEF Sem!MayLoopBack, Slots!MayLoopBack, Sem!Threads, Slots!Threads
<1> QED BY <1>1, <1>2, <1>3 DEF Sem!Next, Slots!Next

(* The semaphore of two slots, for any number of threads that lock again   *)
(* as they please: never more than two inside, and an admitted thread      *)
(* keeps its slot until it leaves the body.                                *)
THEOREM SemaphoreKeepsSlots ==
    ASSUME Programs
    PROVE  LocksSpec => SemaphoreIsSafe
<1> DEFINE Keeps == \A t \in Sem!grant : s_pc[t] > 0 /\ s_pc'[t] > 0 /\ t \notin s_release'
                                            => t \in Sem!grant'
<1>0. (Sem!grant = Slots!grant)'
  BY SameGrant, PTL
<1>1. LocksInit => Slots!SemaphoreInv
  <2>1. Sem!Init => Slots!Init
    BY DEF Sem!Init, Slots!Init, Sem!Threads, Slots!Threads
  <2> QED BY <2>1, SlotsFit, Slots!SemaphoreStart DEF LocksInit
<1>2. Slots!SemaphoreInv
         /\ [LocksNext]_<<resource, mutex_vars, sem_vars, user_vars, sim_vars, worker_vars>>
         => Slots!SemaphoreInv' /\ [Keeps]_(Sem!vars)
  <2> SUFFICES ASSUME Slots!SemaphoreInv,
                      [LocksNext]_<<resource, mutex_vars, sem_vars, user_vars, sim_vars,
                                    worker_vars>>
               PROVE  Slots!SemaphoreInv' /\ [Keeps]_(Sem!vars)
    OBVIOUS
  <2>1. UNCHANGED sem_vars => UNCHANGED Slots!vars /\ UNCHANGED Sem!vars
    BY DEF sem_vars, Slots!vars, Slots!arbiter, Sem!vars, Sem!arbiter
  <2>2. Slots!Next \/ UNCHANGED sem_vars
    BY SameClock DEF LocksNext, Mutex, Semaphore, UserArbiter, SimulatedLock, SimulatedEdges
  <2>3. Slots!SemaphoreInv'
    BY <2>1, <2>2, SlotsFit, Slots!SemaphoreStep
  <2>4. ASSUME Slots!Next PROVE Keeps
    <3> QED BY <1>0, <2>4, SameGrant, SlotsFit, Slots!HolderKeepsSlot DEF Slots!SemaphoreInv
  <2> QED BY <2>1, <2>2, <2>3, <2>4
<1>3. Slots!SemaphoreInv => Sem!MutualExclusion
  <2>1. Sem!Inside = Slots!Inside
    BY SameGrant DEF Sem!Inside, Slots!Inside, Sem!Threads, Slots!Threads
  <2>2. Sem!Cardinality(Sem!Inside) = Slots!Cardinality(Sem!Inside)
    BY DEF Sem!Cardinality, Slots!Cardinality, Sem!IsFiniteSet, Slots!IsFiniteSet
  <2> QED BY <2>1, <2>2, SlotsFit, Slots!SemaphoreExcludes
          DEF Sem!MutualExclusion, Slots!MutualExclusion
<1> QED BY <1>1, <1>2, <1>3, PTL DEF LocksSpec, SemaphoreIsSafe, Sem!HoldStable
-----------------------------------------------------------------------------
(* The hook of a custom policy grants somebody who asks.                   *)
CoroutineHookGrants ==
    \A mask, last \in SUBSET Sim!Threads : mask # {} => grant_select(mask, last) \cap mask # {}

SimPlaces == {"created", "outside", "lock", "claiming", "body"}
SimTypeOK ==
    /\ c_resource \in SimResources
    /\ c_at \in [Sim!Threads -> SimPlaces]
    /\ c_ready \in SUBSET Sim!Threads /\ c_resumed \in SUBSET Sim!Threads
    /\ c_lock_refired \in SUBSET Sim!Threads
    /\ c_req_mask \in SUBSET Sim!Threads /\ c_holder_mask \in SUBSET Sim!Threads
    /\ c_beginning \in SUBSET Sim!Threads /\ c_running \in SUBSET Sim!Threads
    /\ c_last_grant \in Sim!Threads /\ c_last_grant_onehot \in SUBSET Sim!Threads
    /\ c_credits \in [Sim!Threads -> 0..c_resource.credit]
    /\ c_passed \in [Sim!Threads -> Nat]
    /\ c_progressed \in BOOLEAN /\ c_turns = TRUE

(* Every thread has a place in the order of least recent use.              *)
LruOK == /\ c_lru_order \in [1..N -> Sim!Threads]
         /\ \A t \in Sim!Threads : \E i \in 1..N : c_lru_order[i] = t

(* One scheduler runs at a time, the first of them while ticks begin.      *)
TurnsOK == /\ \A t \in c_running : c_running = {t}
           /\ c_beginning # {} => c_running = {0}

(* A coroutine that is about to claim is the one that runs, its request is *)
(* still the one that is granted, and weighted has credit left for it.     *)
ClaimsOK ==
    \A t \in Sim!Threads : c_at[t] = "claiming" =>
        /\ c_running = {t} /\ c_beginning = {} /\ c_progressed
        /\ Sim!can_acquire(t)
        /\ Sim!Weighted /\ t \notin c_holder_mask => c_credits[t] # 0

(* What the masks say of where the coroutines are.                         *)
Wanting == {t \in Sim!Threads : c_at[t] \in {"lock", "claiming"}}
MasksOK ==
    /\ Sim!Inside \subseteq c_holder_mask /\ Wanting \subseteq c_req_mask
    /\ Cardinality(c_holder_mask) <= c_resource.slots
    /\ ~c_resource.preempt => c_holder_mask \subseteq Sim!Inside /\ c_req_mask \subseteq Wanting

(* A thread that was looked at a second time was found able to lock.       *)
LooksOK ==
    /\ c_ready \cap c_resumed = {}
    /\ \A t \in c_lock_refired :
          \/ c_at[t] = "lock" /\ t \in c_ready /\ c_running = {t} /\ Sim!can_acquire(t)
          \/ c_at[t] \in {"claiming", "body"} /\ t \in c_resumed

(* A thread whose scheduler had its turn since somebody last resumed.      *)
Settled(t) == c_at[t] = "lock" => ~Sim!can_acquire(t)
SimRoundOK ==
    /\ \A t \in c_running : ~c_progressed => \A u \in 0..(t - 1) : Settled(u)
    /\ c_running = {} => \A u \in Sim!Threads : Settled(u)

(* Waiting threads move up in the order by one or more with every claim    *)
(* that they watch ...                                                     *)
Turn(ids, t, n) == \E i \in 1..N : ids[i] = t /\ c_passed[t] + i <= n

(* ... but under weighted only while they have credit: before that, every  *)
(* claim uses up one of the credits of the others.                         *)
Credits(t) == {x \in Sim!Threads \X (1..c_resource.credit) : x[1] # t /\ x[2] <= c_credits[x[1]]}
WeightedTurn(t) ==
    /\ c_last_grant # t
    /\ IF c_credits[t] = 0
       THEN c_passed[t] + Cardinality(Credits(t)) <= c_resource.credit * (N - 1)
       ELSE Turn(Sim!AfterLast, t, c_resource.credit * (N - 1) + (N - 1))
PassesOK ==
    /\ c_resource.policy = "round_robin" => \A t \in Sim!Threads : Turn(Sim!AfterLast, t, N)
    /\ c_resource.policy = "lru" => \A t \in Sim!Threads : Turn(c_lru_order, t, N)
    /\ Sim!Weighted => \A t \in Sim!Threads : c_passed[t] = 0 \/ WeightedTurn(t)

(* The inductive invariant.                                                *)
StatesOK == SimTypeOK /\ LruOK /\ TurnsOK /\ ClaimsOK /\ MasksOK
OrderlyOK == LooksOK /\ SimRoundOK /\ PassesOK
SimInv == StatesOK /\ (~c_resource.preempt => OrderlyOK)
-----------------------------------------------------------------------------
(* SimLocks counts as everybody does.                                      *)
LEMMA SameCounting == \A S : Sim!Cardinality(S) = Cardinality(S)
BY DEF Sim!Cardinality, Cardinality, Sim!IsFiniteSet, IsFiniteSet

(* A remainder of what is less than twice the divisor.                     *)
LEMMA ModIs ==
    ASSUME NEW n \in Nat \ {0}, NEW x \in 0..(2 * n - 1)
    PROVE  x % n = IF x < n THEN x ELSE x - n
<1>1. CASE x < n
  BY <1>1
<1>2. CASE x >= n
  <2>1. x = 1 * n + (x - n) /\ x - n \in 0..(n - 1)
    BY <1>2
  <2> QED BY <1>2, <2>1
<1> QED BY <1>1, <1>2

(* The scan that starts after l meets every thread, l last; a scan that    *)
(* starts after the m-th of them meets the i-th m places earlier.          *)
LEMMA ScanMeets ==
    ASSUME NEW n \in Nat \ {0}, NEW l \in 0..(n - 1)
    PROVE  /\ \A i \in 1..n : (l + i) % n \in 0..(n - 1)
           /\ (l + n) % n = l
           /\ \A t \in 0..(n - 1) : \E i \in 1..n : (l + i) % n = t
           /\ \A m, i \in 1..n : m < i => (((l + m) % n) + (i - m)) % n = (l + i) % n
<1>1. \A i \in 1..n : (l + i) % n = IF l + i < n THEN l + i ELSE l + i - n
  <2> SUFFICES ASSUME NEW i \in 1..n PROVE (l + i) % n = IF l + i < n THEN l + i ELSE l + i - n
    OBVIOUS
  <2> DEFINE x == l + i
  <2>1. x \in 0..(2 * n - 1) /\ x - n = l + i - n
    OBVIOUS
  <2> HIDE DEF x
  <2>2. x % n = IF x < n THEN x ELSE x - n
    BY <2>1, ModIs
  <2> QED BY <2>1, <2>2 DEF x
<1>2. \A i \in 1..n : (l + i) % n \in 0..(n - 1)
  BY <1>1
<1>3. (l + n) % n = l
  BY <1>1
<1>4. ASSUME NEW t \in 0..(n - 1) PROVE \E i \in 1..n : (l + i) % n = t
  <2>1. CASE t > l
    <3>1. t - l \in 1..n /\ l + (t - l) = t
      BY <2>1
    <3>2. (l + (t - l)) % n = t
      BY <1>1, <3>1
    <3> QED BY <3>1, <3>2
  <2>2. CASE t <= l
    <3>1. t - l + n \in 1..n /\ l + (t - l + n) = t + n
      BY <2>2
    <3>2. (l + (t - l + n)) % n = t
      BY <1>1, <3>1
    <3> QED BY <3>1, <3>2
  <2> QED BY <2>1, <2>2
<1>5. ASSUME NEW m \in 1..n, NEW i \in 1..n, m < i
      PROVE  (((l + m) % n) + (i - m)) % n = (l + i) % n
  <2>1. (l + m) % n = IF l + m < n THEN l + m ELSE l + m - n
    BY <1>1
  <2>2. (l + i) % n = IF l + i < n THEN l + i ELSE l + i - n
    BY <1>1
  <2>3. CASE l + m < n
    <3>1. ((l + m) % n) + (i - m) = l + i
      BY <2>1, <2>3
    <3> QED BY <3>1
  <2>4. CASE l + m >= n
    <3>1. ((l + m) % n) + (i - m) = l + i - n /\ l + i - n \in 0..(2 * n - 1) /\ l + i - n < n
      BY <1>5, <2>1, <2>4
    <3>2. (l + i - n) % n = l + i - n
      BY <3>1
    <3>3. (l + i) % n = l + i - n
      BY <1>5, <2>2, <2>4
    <3> QED BY <3>1, <3>2, <3>3
  <2> QED BY <2>3, <2>4
<1> QED BY <1>2, <1>3, <1>4, <1>5

(* AfterLast in these terms: the scan that starts after l.                 *)
Scan(l) == [i \in 1..N |-> (l + i) % N]
(* It passes every thread once and ends with l.                            *)
LEMMA ScanIs ==
    ASSUME NEW l \in Sim!Threads
    PROVE  /\ Scan(l) \in [1..N -> Sim!Threads]
           /\ Scan(l)[N] = l
           /\ \A t \in Sim!Threads : \E i \in 1..N : Scan(l)[i] = t
           /\ \A m, i \in 1..N : m < i => Scan(Scan(l)[m])[i - m] = Scan(l)[i]
<1>1. N \in Nat \ {0} /\ l \in 0..(N - 1)
  BY SimWellFormed DEF Sim!WellFormed, Sim!Threads
<1>2. /\ \A i \in 1..N : (l + i) % N \in 0..(N - 1)
      /\ (l + N) % N = l
      /\ \A t \in 0..(N - 1) : \E i \in 1..N : (l + i) % N = t
  BY <1>1, ScanMeets
<1>3. \A m, i \in 1..N : m < i => (((l + m) % N) + (i - m)) % N = (l + i) % N
  BY <1>1, ScanMeets
<1>4. \A k : \A i \in 1..N : Scan(k)[i] = (k + i) % N
  BY DEF Scan
<1>5. N \in 1..N
  BY <1>1
<1>6. Scan(l) \in [1..N -> Sim!Threads]
  BY <1>2 DEF Scan, Sim!Threads
<1>7. ASSUME NEW m \in 1..N, NEW i \in 1..N, m < i
      PROVE  Scan(Scan(l)[m])[i - m] = Scan(l)[i]
  <2>1. i - m \in 1..N
    BY <1>1, <1>7
  <2>2. Scan(Scan(l)[m])[i - m] = (((l + m) % N) + (i - m)) % N
    BY <1>4, <2>1
  <2> QED BY <1>3, <1>4, <1>7, <2>2
<1> QED BY <1>2, <1>4, <1>5, <1>6, <1>7 DEF Sim!Threads

(* AfterLast is such a scan, from the last grantee.                        *)
LEMMA AfterLastIs ==
    ASSUME SimTypeOK
    PROVE  /\ Sim!AfterLast \in [1..N -> Sim!Threads]
           /\ Sim!AfterLast[N] = c_last_grant
           /\ \A t \in Sim!Threads : \E i \in 1..N : Sim!AfterLast[i] = t
<1>1. Sim!AfterLast = Scan(c_last_grant) /\ c_last_grant \in Sim!Threads
  BY DEF Sim!AfterLast, Scan, SimTypeOK
<1>2. /\ Scan(c_last_grant) \in [1..N -> Sim!Threads]
      /\ Scan(c_last_grant)[N] = c_last_grant
      /\ \A t \in Sim!Threads : \E i \in 1..N : Scan(c_last_grant)[i] = t
  BY <1>1, ScanIs
<1> HIDE DEF Scan
<1> QED BY <1>1, <1>2

(* The first of S in an order: ids[m] is it.                               *)
IsFirst(ids, S, m) == ids[m] \in S /\ \A j \in 1..N : ids[j] \in S => m <= j

(* FirstIn finds the first, if the order meets S at all.                   *)
LEMMA FirstFinds ==
    ASSUME NEW ids, NEW S, N \in Nat
    PROVE  /\ (\E i \in 1..N : ids[i] \in S) =>
                 \E m \in 1..N : Sim!FirstIn(ids, S) = ids[m] /\ IsFirst(ids, S, m)
           /\ (\A i \in 1..N : ids[i] \notin S) => Sim!FirstIn(ids, S) = Sim!NoThread
<1> DEFINE found == {i \in 1..N : ids[i] \in S}
           m == CHOOSE i \in found : \A j \in found : i <= j
<1>1. Sim!FirstIn(ids, S) = IF found = {} THEN Sim!NoThread ELSE ids[m]
  BY DEF Sim!FirstIn
<1>2. ASSUME \E i \in 1..N : ids[i] \in S
      PROVE  \E k \in 1..N : Sim!FirstIn(ids, S) = ids[k] /\ IsFirst(ids, S, k)
  <2>1. found # {} /\ found \in SUBSET Nat
    BY <1>2
  <2>2. \E i \in found : \A j \in found : i <= j
    <3> HIDE DEF found
    <3> QED BY <2>1, LeastNatural
  <2>3. m \in found /\ \A j \in found : m <= j
    BY <2>2
  <2> HIDE DEF m
  <2>4. m \in 1..N /\ ids[m] \in S /\ \A j \in 1..N : ids[j] \in S => m <= j
    BY <2>3
  <2> QED BY <1>1, <2>1, <2>4 DEF IsFirst
<1>3. (\A i \in 1..N : ids[i] \notin S) => found = {}
  OBVIOUS
<1> QED BY <1>1, <1>2, <1>3

(* An order of all threads meets every set of them that is not empty.      *)
LEMMA OrderFinds ==
    ASSUME NEW ids, \A t \in Sim!Threads : \E i \in 1..N : ids[i] = t,
           NEW S \in SUBSET Sim!Threads, N \in Nat
    PROVE  /\ S # {} => \E m \in 1..N : Sim!FirstIn(ids, S) = ids[m] /\ IsFirst(ids, S, m)
           /\ Sim!FirstIn(ids, S) \in Sim!Threads => Sim!FirstIn(ids, S) \in S /\ S # {}
<1>1. S # {} => \E m \in 1..N : Sim!FirstIn(ids, S) = ids[m] /\ IsFirst(ids, S, m)
  <2>1. S # {} => \E i \in 1..N : ids[i] \in S
    OBVIOUS
  <2> QED BY <2>1, FirstFinds
<1>2. S = {} => Sim!FirstIn(ids, S) = Sim!NoThread
  BY FirstFinds
<1>3. Sim!NoThread \notin Sim!Threads
  BY DEF Sim!NoThread, Sim!Threads
<1> QED BY <1>1, <1>2, <1>3 DEF IsFirst

(* What the typed state says of the resource, and of the requests that     *)
(* weighted considers.                                                     *)
LEMMA ResourceIs ==
    ASSUME SimTypeOK
    PROVE  /\ N \in Nat \ {0} /\ c_resource.slots \in Nat /\ c_resource.credit \in Nat \ {0}
           /\ c_resource.policy \in {"priority", "round_robin", "lru", "weighted", "custom"}
           /\ c_resource.preempt \in BOOLEAN
           /\ Sim!InCredit \in SUBSET c_req_mask /\ c_req_mask \in SUBSET Sim!Threads
           /\ Sim!Weighted /\ c_req_mask # {} => Sim!InCredit # {}
<1>1. /\ N \in Nat \ {0} /\ c_resource.slots \in Nat /\ c_resource.credit \in Nat \ {0}
      /\ c_resource.policy \in {"priority", "round_robin", "lru", "weighted", "custom"}
      /\ c_resource.preempt \in BOOLEAN
  BY SimWellFormed DEF Sim!WellFormed, SimTypeOK
<1>2. Sim!InCredit \in SUBSET c_req_mask /\ c_req_mask \in SUBSET Sim!Threads
  BY DEF Sim!InCredit, SimTypeOK
<1>3. Sim!Weighted /\ c_req_mask # {} => Sim!InCredit # {}
  BY DEF Sim!InCredit, Sim!Refill
<1> QED BY <1>1, <1>2, <1>3

(* The thread that Select names asks for the resource, and is the first in *)
(* the order of the policy.                                                *)
Selects(ids, S) == \E m \in 1..N : Sim!Select = ids[m] /\ IsFirst(ids, S, m)
(* The selected thread requests, and is the first of those it competes     *)
(* with.                                                                   *)
LEMMA SelectIsFirst ==
    ASSUME SimTypeOK, LruOK, Sim!Select \in Sim!Threads
    PROVE  /\ Sim!Select \in c_req_mask
           /\ c_resource.policy = "round_robin" => Selects(Sim!AfterLast, c_req_mask)
           /\ c_resource.policy = "lru" => Selects(c_lru_order, c_req_mask)
           /\ Sim!Weighted => Selects(Sim!AfterLast, Sim!InCredit) /\ Sim!Select \in Sim!InCredit
<1>1. /\ N \in Nat \ {0}
      /\ c_resource.policy \in {"priority", "round_robin", "lru", "weighted", "custom"}
      /\ Sim!InCredit \in SUBSET c_req_mask /\ c_req_mask \in SUBSET Sim!Threads
  BY ResourceIs
<1>2. CASE c_resource.policy = "priority"
  <2>1. \A t \in Sim!Threads : t + 1 \in 1..N /\ Sim!Declared[t + 1] = t
    BY <1>1 DEF Sim!Declared, Sim!Threads
  <2>2. \A t \in Sim!Threads : \E i \in 1..N : Sim!Declared[i] = t
    BY <2>1
  <2>3. Sim!Select = Sim!FirstIn(Sim!Declared, c_req_mask)
    BY <1>2 DEF Sim!Select
  <2>4. Sim!Select \in c_req_mask
    BY <1>1, <2>2, <2>3, OrderFinds
  <2> QED BY <1>2, <2>4 DEF Sim!Weighted
<1>3. CASE c_resource.policy = "round_robin"
  <2>1. \A t \in Sim!Threads : \E i \in 1..N : Sim!AfterLast[i] = t
    BY AfterLastIs
  <2>2. Sim!Select = Sim!FirstIn(Sim!AfterLast, c_req_mask)
    BY <1>3 DEF Sim!Select
  <2>3. Sim!Select \in c_req_mask /\ Selects(Sim!AfterLast, c_req_mask)
    BY <1>1, <2>1, <2>2, OrderFinds DEF Selects
  <2> QED BY <1>3, <2>3 DEF Sim!Weighted
<1>4. CASE c_resource.policy = "lru"
  <2>1. Sim!Select = Sim!FirstIn(c_lru_order, c_req_mask)
    BY <1>4 DEF Sim!Select
  <2>2. Sim!Select \in c_req_mask /\ Selects(c_lru_order, c_req_mask)
    BY <1>1, <2>1, OrderFinds DEF LruOK, Selects
  <2> QED BY <1>4, <2>2 DEF Sim!Weighted
<1>5. CASE c_resource.policy = "weighted"
  <2>1. \A t \in Sim!Threads : \E i \in 1..N : Sim!AfterLast[i] = t
    BY AfterLastIs
  <2>2. Sim!Select = Sim!FirstIn(Sim!AfterLast, Sim!InCredit)
    BY <1>5 DEF Sim!Select
  <2>3. Sim!Select \in Sim!InCredit /\ Selects(Sim!AfterLast, Sim!InCredit)
    BY <1>1, <2>1, <2>2, OrderFinds DEF Selects
  <2> QED BY <1>1, <1>5, <2>3
<1>6. CASE c_resource.policy = "custom"
  <2> DEFINE granted == grant_select(c_req_mask, c_last_grant_onehot) \cap c_req_mask
  <2>1. \A t \in Sim!Threads : N - t \in 1..N /\ Sim!Descending[N - t] = t
    BY <1>1 DEF Sim!Descending, Sim!Threads
  <2>2. \A t \in Sim!Threads : \E i \in 1..N : Sim!Descending[i] = t
    BY <2>1
  <2>3. Sim!Select = Sim!FirstIn(Sim!Descending, granted)
    BY <1>6 DEF Sim!Select
  <2>4. granted \in SUBSET Sim!Threads /\ granted \in SUBSET c_req_mask
    BY <1>1
  <2> HIDE DEF granted
  <2>5. Sim!Select \in granted
    BY <1>1, <2>2, <2>3, <2>4, OrderFinds
  <2> QED BY <1>6, <2>4, <2>5 DEF Sim!Weighted
<1> QED BY <1>1, <1>2, <1>3, <1>4, <1>5, <1>6

(* And somebody is named when somebody asks.                               *)
LEMMA SelectServes ==
    ASSUME CoroutineHookGrants, SimTypeOK, LruOK, c_req_mask # {}
    PROVE  Sim!Select \in c_req_mask
<1>1. /\ N \in Nat \ {0}
      /\ c_resource.policy \in {"priority", "round_robin", "lru", "weighted", "custom"}
      /\ Sim!InCredit \in SUBSET c_req_mask /\ c_req_mask \in SUBSET Sim!Threads
      /\ Sim!Weighted => Sim!InCredit # {}
  BY ResourceIs
<1>2. CASE c_resource.policy = "priority"
  <2>1. \A t \in Sim!Threads : t + 1 \in 1..N /\ Sim!Declared[t + 1] = t
    BY <1>1 DEF Sim!Declared, Sim!Threads
  <2>2. \A t \in Sim!Threads : \E i \in 1..N : Sim!Declared[i] = t
    BY <2>1
  <2>3. Sim!Select = Sim!FirstIn(Sim!Declared, c_req_mask)
    BY <1>2 DEF Sim!Select
  <2> QED BY <1>1, <2>2, <2>3, OrderFinds DEF IsFirst
<1>3. CASE c_resource.policy = "round_robin"
  <2>1. \A t \in Sim!Threads : \E i \in 1..N : Sim!AfterLast[i] = t
    BY AfterLastIs
  <2>2. Sim!Select = Sim!FirstIn(Sim!AfterLast, c_req_mask)
    BY <1>3 DEF Sim!Select
  <2> QED BY <1>1, <2>1, <2>2, OrderFinds DEF IsFirst
<1>4. CASE c_resource.policy = "lru"
  <2>1. Sim!Select = Sim!FirstIn(c_lru_order, c_req_mask)
    BY <1>4 DEF Sim!Select
  <2> QED BY <1>1, <2>1, OrderFinds DEF LruOK, IsFirst
<1>5. CASE c_resource.policy = "weighted"
  <2>1. \A t \in Sim!Threads : \E i \in 1..N : Sim!AfterLast[i] = t
    BY AfterLastIs
  <2>2. Sim!Select = Sim!FirstIn(Sim!AfterLast, Sim!InCredit) /\ Sim!InCredit # {}
    BY <1>1, <1>5 DEF Sim!Select, Sim!Weighted
  <2>3. Sim!Select \in Sim!InCredit
    BY <1>1, <2>1, <2>2, OrderFinds DEF IsFirst
  <2> QED BY <1>1, <2>3
<1>6. CASE c_resource.policy = "custom"
  <2> DEFINE granted == grant_select(c_req_mask, c_last_grant_onehot) \cap c_req_mask
  <2>1. \A t \in Sim!Threads : N - t \in 1..N /\ Sim!Descending[N - t] = t
    BY <1>1 DEF Sim!Descending, Sim!Threads
  <2>2. \A t \in Sim!Threads : \E i \in 1..N : Sim!Descending[i] = t
    BY <2>1
  <2>3. Sim!Select = Sim!FirstIn(Sim!Descending, granted)
    BY <1>6 DEF Sim!Select
  <2>4. granted \in SUBSET Sim!Threads /\ granted \in SUBSET c_req_mask
    BY <1>1
  <2>5. granted # {}
    <3>1. c_req_mask \in SUBSET Sim!Threads /\ c_last_grant_onehot \in SUBSET Sim!Threads
      BY <1>1 DEF SimTypeOK
    <3> QED BY <3>1 DEF CoroutineHookGrants
  <2> HIDE DEF granted
  <2>6. Sim!Select \in granted
    BY <1>1, <2>2, <2>3, <2>4, <2>5, OrderFinds DEF IsFirst
  <2> QED BY <2>4, <2>6
<1> QED BY <1>1, <1>2, <1>3, <1>4, <1>5, <1>6
-----------------------------------------------------------------------------
(* What asking whether a thread can acquire may do to the credits.         *)
LEMMA AskedIs ==
    ASSUME SimTypeOK, NEW asking
    PROVE  /\ Sim!CreditsAsked(asking) \in [Sim!Threads -> 0..c_resource.credit]
           /\ \/ Sim!CreditsAsked(asking) = c_credits
              \/ Sim!Refill /\ c_req_mask # {} /\ Sim!CreditsAsked(asking) = Sim!Full
<1>1. \/ Sim!CreditsAsked(asking) = c_credits
      \/ Sim!Refill /\ c_req_mask # {} /\ Sim!CreditsAsked(asking) = Sim!Full
  BY DEF Sim!CreditsAsked, Sim!Full
<1>2. Sim!Full \in [Sim!Threads -> 0..c_resource.credit]
  BY ResourceIs DEF Sim!Full
<1> QED BY <1>1, <1>2 DEF SimTypeOK

(* A refill is not noticed: all who ask had no credit, all have now.       *)
LEMMA AskingKeepsSelect ==
    ASSUME SimTypeOK, UNCHANGED <<c_resource, Sim!masks, Sim!order>>,
           NEW asking, c_credits' = Sim!CreditsAsked(asking)
    PROVE  /\ Sim!Weighted' = Sim!Weighted /\ Sim!Select' = Sim!Select
           /\ Sim!SlotFree' = Sim!SlotFree
           /\ \A t : Sim!can_acquire(t)' = Sim!can_acquire(t)
<1>1. /\ c_resource' = c_resource /\ c_req_mask' = c_req_mask /\ c_holder_mask' = c_holder_mask
      /\ c_last_grant' = c_last_grant /\ c_lru_order' = c_lru_order
      /\ c_last_grant_onehot' = c_last_grant_onehot
  BY DEF Sim!masks, Sim!order
<1>2. Sim!Weighted' = Sim!Weighted /\ Sim!SlotFree' = Sim!SlotFree /\ Sim!AfterLast' = Sim!AfterLast
  BY <1>1 DEF Sim!Weighted, Sim!SlotFree, Sim!AfterLast
<1>3. Sim!Weighted => Sim!InCredit' = Sim!InCredit
  <2>1. CASE c_credits' = c_credits
    BY <1>1, <1>2, <2>1 DEF Sim!InCredit, Sim!Refill
  <2>2. CASE Sim!Refill /\ c_req_mask # {} /\ c_credits' = Sim!Full
    <3>1. Sim!InCredit = c_req_mask
      BY <2>2 DEF Sim!InCredit
    <3>2. \A t \in c_req_mask : c_credits'[t] # 0
      BY <2>2, ResourceIs DEF Sim!Full
    <3>3. ~Sim!Refill'
      BY <1>1, <2>2, <3>2 DEF Sim!Refill
    <3>4. Sim!InCredit' = c_req_mask
      BY <1>1, <3>2, <3>3 DEF Sim!InCredit
    <3> QED BY <3>1, <3>4
  <2> QED BY <2>1, <2>2, AskedIs
<1>4. Sim!Select' = Sim!Select
  <2>1. CASE Sim!Weighted
    <3>1. /\ Sim!Select = Sim!FirstIn(Sim!AfterLast, Sim!InCredit)
          /\ Sim!Select' = Sim!FirstIn(Sim!AfterLast', Sim!InCredit')
      BY <1>1, <2>1 DEF Sim!Select, Sim!Weighted
    <3> QED BY <1>2, <1>3, <2>1, <3>1
  <2>2. CASE ~Sim!Weighted
    BY <1>1, <1>2, <2>2 DEF Sim!Select, Sim!Weighted, Sim!Declared, Sim!Descending
  <2> QED BY <2>1, <2>2
<1> QED BY <1>1, <1>2, <1>4 DEF Sim!can_acquire

(* Threads that hold the resource can be counted.                          *)
LEMMA HoldersAreCounted ==
    ASSUME SimTypeOK
    PROVE  IsFiniteSet(c_holder_mask) /\ Cardinality(c_holder_mask) \in Nat
<1>1. N \in Nat /\ c_holder_mask \in SUBSET Sim!Threads
  BY ResourceIs DEF SimTypeOK
<1>2. IsFiniteSet(Sim!Threads)
  BY <1>1, FS_Interval DEF Sim!Threads
<1>3. IsFiniteSet(c_holder_mask)
  BY <1>1, <1>2, FS_Subset
<1> QED BY <1>3, FS_CardinalityType

(* Type correctness.                                                       *)
LEMMA SimTypeInit ==
    ASSUME Sim!Init
    PROVE  SimTypeOK
<1>1. N - 1 \in Sim!Threads /\ {0} \in SUBSET Sim!Threads
  BY SimWellFormed DEF Sim!WellFormed, Sim!Threads
<1>2. c_resource.credit \in Nat
  BY SimWellFormed DEF Sim!WellFormed, Sim!Init
<1>3. /\ c_at \in [Sim!Threads -> SimPlaces] /\ c_passed \in [Sim!Threads -> Nat]
      /\ c_credits \in [Sim!Threads -> 0..c_resource.credit]
  BY <1>2 DEF Sim!Init, Sim!Created, Sim!Full, SimPlaces
<1> QED BY <1>1, <1>3 DEF Sim!Init, SimTypeOK

(* Every step keeps the types.                                             *)
LEMMA SimTypeStep ==
    ASSUME SimTypeOK, [Sim!Next]_Sim!vars
    PROVE  SimTypeOK'
<1>1. /\ N \in Nat \ {0} /\ c_resource.credit \in Nat \ {0}
      /\ 0 \in Sim!Threads /\ N - 1 \in Sim!Threads
  BY ResourceIs DEF Sim!Threads
<1>2. ASSUME NEW t \in Sim!Threads, Sim!GoTo(t, Sim!Top), c_at[t] \in {"created", "body"}
      PROVE  /\ c_at' \in [Sim!Threads -> SimPlaces] /\ c_ready' \in SUBSET Sim!Threads
             /\ c_req_mask' \in SUBSET Sim!Threads
  BY <1>2 DEF Sim!GoTo, Sim!Top, SimTypeOK, SimPlaces
<1>3. ASSUME NEW t \in Sim!Threads, Sim!Resume(t)
      PROVE  SimTypeOK'
  <2>1. /\ c_resource' = c_resource /\ c_turns' = c_turns /\ c_progressed' = TRUE
        /\ c_resumed' \in SUBSET Sim!Threads /\ c_lock_refired' = c_lock_refired
        /\ c_beginning' = c_beginning /\ c_running' = c_running
    BY <1>3 DEF Sim!Resume, Sim!edge, SimTypeOK
  <2>2. CASE Sim!Start(t)
    BY <1>2, <2>1, <2>2 DEF Sim!Start, SimTypeOK, Sim!order
  <2>3. CASE Sim!Arrive(t)
    BY <2>1, <2>3 DEF Sim!Arrive, Sim!GoTo, SimTypeOK, Sim!order, SimPlaces
  <2>4. CASE Sim!LookAgain(t)
    <3>1. c_credits' \in [Sim!Threads -> 0..c_resource.credit]
      BY <2>4, AskedIs DEF Sim!LookAgain
    <3> QED BY <2>1, <2>4, <3>1 DEF Sim!LookAgain, SimTypeOK, Sim!order, Sim!masks, SimPlaces
  <2>5. CASE Sim!Release(t)
    BY <1>2, <2>1, <2>5 DEF Sim!Release, SimTypeOK, Sim!order
  <2> QED BY <1>3, <2>2, <2>3, <2>4, <2>5 DEF Sim!Resume
<1>4. ASSUME NEW t \in Sim!Threads, Sim!Claim(t)
      PROVE  SimTypeOK'
  <2>1. /\ c_at' \in [Sim!Threads -> SimPlaces] /\ c_req_mask' \in SUBSET Sim!Threads
        /\ c_holder_mask' \in SUBSET Sim!Threads /\ c_last_grant' \in Sim!Threads
        /\ c_last_grant_onehot' \in SUBSET Sim!Threads
    BY <1>4 DEF Sim!Claim, SimTypeOK, SimPlaces
  <2>2. c_credits' \in [Sim!Threads -> 0..c_resource.credit]
    <3>1. c_credits[t] \in 0..c_resource.credit
      BY DEF SimTypeOK
    <3>2. c_credits[t] > 0 => c_credits[t] - 1 \in 0..c_resource.credit
      BY <1>1, <3>1
    <3>3. \/ c_credits' = c_credits
          \/ c_credits[t] > 0 /\ c_credits' = [c_credits EXCEPT ![t] = c_credits[t] - 1]
      BY <1>4 DEF Sim!Claim
    <3> QED BY <3>2, <3>3 DEF SimTypeOK
  <2>3. c_passed' \in [Sim!Threads -> Nat]
    BY <1>4 DEF Sim!Claim, SimTypeOK
  <2> QED BY <1>4, <2>1, <2>2, <2>3 DEF Sim!Claim, SimTypeOK, Sim!edge
<1>5. ASSUME NEW t \in Sim!Threads, Sim!Wake(t)
      PROVE  SimTypeOK'
  <2>1. c_credits' \in [Sim!Threads -> 0..c_resource.credit]
    BY <1>5, AskedIs DEF Sim!Wake
  <2> QED BY <1>5, <2>1 DEF Sim!Wake, SimTypeOK, Sim!edge, Sim!masks, Sim!order
<1>6. ASSUME NEW t \in Sim!Threads, Sim!Quiet(t)
      PROVE  SimTypeOK'
  <2>1. c_credits' \in [Sim!Threads -> 0..c_resource.credit]
    BY <1>6, AskedIs DEF Sim!Quiet, SimTypeOK
  <2>2. c_running' \in SUBSET Sim!Threads
    <3>1. t < N - 1 => t + 1 \in Sim!Threads
      BY <1>1 DEF Sim!Threads
    <3> QED BY <1>1, <1>6, <3>1 DEF Sim!Quiet, Sim!NextTurn, SimTypeOK
  <2>3. c_progressed' \in BOOLEAN
    BY <1>6 DEF Sim!Quiet
  <2> QED BY <1>6, <2>1, <2>2, <2>3 DEF Sim!Quiet, SimTypeOK, Sim!slots, Sim!masks, Sim!order
<1>7. ASSUME NEW t \in Sim!Threads, Sim!Begin(t)
      PROVE  SimTypeOK'
  <2>1. c_credits' \in [Sim!Threads -> 0..c_resource.credit]
    BY <1>7, AskedIs DEF Sim!Begin, SimTypeOK
  <2>2. c_beginning' \in SUBSET Sim!Threads /\ c_resumed' \in SUBSET Sim!Threads
        /\ c_lock_refired' \in SUBSET Sim!Threads /\ c_ready' \in SUBSET Sim!Threads
    BY <1>7 DEF Sim!Begin, SimTypeOK
  <2> QED BY <1>7, <2>1, <2>2 DEF Sim!Begin, SimTypeOK, Sim!edge, Sim!masks, Sim!order
<1>8. ASSUME NEW high \in SUBSET Sim!Threads, NEW thrown \in SUBSET Sim!Threads,
             Sim!Posedge(high, thrown)
      PROVE  SimTypeOK'
  <2>1. c_at' \in [Sim!Threads -> SimPlaces] /\ c_passed' \in [Sim!Threads -> Nat]
    BY <1>8 DEF Sim!Posedge, SimTypeOK, SimPlaces
  <2>2. c_running' \in SUBSET Sim!Threads /\ c_turns' = TRUE
    BY <1>1, <1>8 DEF Sim!Posedge
  <2> QED BY <1>8, <2>1, <2>2 DEF Sim!Posedge, SimTypeOK, Sim!masks, Sim!order
<1>9. CASE Sim!Reset
  <2>1. c_credits' \in [Sim!Threads -> 0..c_resource.credit]
    BY <1>1, <1>9 DEF Sim!Reset, Sim!Full
  <2>2. c_at' \in [Sim!Threads -> SimPlaces] /\ c_passed' \in [Sim!Threads -> Nat]
    BY <1>9 DEF Sim!Reset, Sim!Created, SimPlaces
  <2> QED BY <1>1, <1>9, <2>1, <2>2 DEF Sim!Reset, SimTypeOK
<1>10. CASE UNCHANGED Sim!vars
  BY <1>10 DEF Sim!vars, Sim!edge, Sim!slots, Sim!masks, Sim!order, SimTypeOK
<1> QED BY <1>3, <1>4, <1>5, <1>6, <1>7, <1>8, <1>9, <1>10 DEF Sim!Next, Sim!Step
-----------------------------------------------------------------------------
(* What a claim by t does to lru_order: all threads stay in it, and those  *)
(* behind t move up by one.                                                *)
LEMMA LruMoves ==
    ASSUME LruOK, NEW t \in Sim!Threads
    PROVE  /\ Sim!LruClaimed(t) \in [1..N -> Sim!Threads]
           /\ \A u \in Sim!Threads : \E i \in 1..N : Sim!LruClaimed(t)[i] = u
           /\ \A m, i \in 1..N :
                    m < i /\ c_lru_order[m] = t => Sim!LruClaimed(t)[i - 1] = c_lru_order[i]
<1>1. N \in Nat \ {0} /\ N \in 1..N
  BY SimWellFormed DEF Sim!WellFormed
<1> DEFINE behind(i) == \E j \in 1..i : c_lru_order[j] = t
<1>2. \A i \in 1..N : Sim!LruClaimed(t)[i] =
         IF i = N THEN t ELSE IF behind(i) THEN c_lru_order[i + 1] ELSE c_lru_order[i]
  BY DEF Sim!LruClaimed
<1>3. \A i \in 1..N : i # N => i + 1 \in 1..N
  BY <1>1
<1>4. Sim!LruClaimed(t) \in [1..N -> Sim!Threads]
  <2>1. \A i \in 1..N : Sim!LruClaimed(t)[i] \in Sim!Threads
    BY <1>2, <1>3 DEF LruOK
  <2>2. Sim!LruClaimed(t) = [i \in 1..N |-> Sim!LruClaimed(t)[i]]
    BY DEF Sim!LruClaimed
  <2> QED BY <2>1, <2>2
<1>5. ASSUME NEW m \in 1..N, NEW i \in 1..N, m < i, c_lru_order[m] = t
      PROVE  i - 1 \in 1..N /\ Sim!LruClaimed(t)[i - 1] = c_lru_order[i]
  <2>1. i - 1 \in 1..N /\ i - 1 # N /\ (i - 1) + 1 = i /\ m \in 1..(i - 1)
    BY <1>1, <1>5
  <2>2. behind(i - 1)
    BY <1>5, <2>1
  <2> QED BY <1>2, <2>1, <2>2
<1>6. ASSUME NEW u \in Sim!Threads PROVE \E i \in 1..N : Sim!LruClaimed(t)[i] = u
  <2>1. CASE u = t
    BY <1>1, <1>2, <2>1
  <2>2. CASE u # t
    <3>1. PICK i \in 1..N : c_lru_order[i] = u
      BY DEF LruOK
    <3>2. PICK m \in 1..N : c_lru_order[m] = t
      BY DEF LruOK
    <3>3. CASE m < i
      BY <1>5, <3>1, <3>2, <3>3
    <3>4. CASE i < m
      <4>1. CASE behind(i)
        <5>1. PICK j \in 1..i : c_lru_order[j] = t
          BY <4>1
        <5>2. j \in 1..N /\ j < i
          BY <1>1, <2>2, <3>1, <5>1
        <5> QED BY <1>5, <3>1, <5>1, <5>2
      <4>2. CASE ~behind(i)
        <5>1. i # N
          BY <1>1, <3>4
        <5> QED BY <1>2, <3>1, <4>2, <5>1
      <4> QED BY <4>1, <4>2
    <3>5. i # m
      BY <2>2, <3>1, <3>2
    <3> QED BY <1>1, <3>3, <3>4, <3>5
  <2> QED BY <2>1, <2>2
<1> QED BY <1>4, <1>5, <1>6

(* The order of least recent use starts as the order of declaration.       *)
LEMMA LruInit ==
    ASSUME Sim!Init
    PROVE  LruOK
<1>1. \A t \in Sim!Threads : t + 1 \in 1..N /\ Sim!Declared[t + 1] = t
  BY SimWellFormed DEF Sim!WellFormed, Sim!Declared, Sim!Threads
<1>2. \A i \in 1..N : i - 1 \in Sim!Threads
  BY SimWellFormed DEF Sim!WellFormed, Sim!Threads
<1>3. Sim!Declared \in [1..N -> Sim!Threads]
  BY <1>2 DEF Sim!Declared
<1> QED BY <1>1, <1>3 DEF Sim!Init, LruOK

(* Every step keeps every thread in the order.                             *)
LEMMA LruStep ==
    ASSUME LruOK, [Sim!Next]_Sim!vars
    PROVE  LruOK'
<1>1. CASE c_lru_order' = c_lru_order
  BY <1>1 DEF LruOK
<1>2. CASE c_lru_order' = Sim!Declared
  <2>1. \A t \in Sim!Threads : t + 1 \in 1..N /\ Sim!Declared[t + 1] = t
    BY SimWellFormed DEF Sim!WellFormed, Sim!Declared, Sim!Threads
  <2>2. \A i \in 1..N : i - 1 \in Sim!Threads
    BY SimWellFormed DEF Sim!WellFormed, Sim!Threads
  <2>3. Sim!Declared \in [1..N -> Sim!Threads]
    BY <2>2 DEF Sim!Declared
  <2> QED BY <1>2, <2>1, <2>3 DEF LruOK
<1>3. ASSUME NEW t \in Sim!Threads, c_lru_order' = Sim!LruClaimed(t)
      PROVE  LruOK'
  BY <1>3, LruMoves DEF LruOK
<1>4. \/ c_lru_order' = c_lru_order
      \/ c_lru_order' = Sim!Declared
      \/ \E t \in Sim!Threads : c_lru_order' = Sim!LruClaimed(t)
  <2>1. ASSUME NEW t \in Sim!Threads, Sim!Step(t)
        PROVE  c_lru_order' = c_lru_order \/ c_lru_order' = Sim!LruClaimed(t)
    BY <2>1
       DEF Sim!Step, Sim!Begin, Sim!Resume, Sim!Start, Sim!Arrive, Sim!LookAgain, Sim!Release,
           Sim!Claim, Sim!Wake, Sim!Quiet, Sim!order
  <2>2. ASSUME NEW high, NEW thrown, Sim!Posedge(high, thrown)
        PROVE  c_lru_order' = c_lru_order
    BY <2>2 DEF Sim!Posedge, Sim!order
  <2> QED BY <2>1, <2>2 DEF Sim!Next, Sim!Reset, Sim!vars, Sim!order
<1> QED BY <1>1, <1>2, <1>3, <1>4

(* Others with credit left: finitely many, of every other thread at most   *)
(* the credit it was given.                                                *)
LEMMA CreditsBounded ==
    ASSUME SimTypeOK, NEW t \in Sim!Threads
    PROVE  /\ IsFiniteSet(Credits(t))
           /\ Cardinality(Credits(t)) \in Nat
           /\ Cardinality(Credits(t)) <= c_resource.credit * (N - 1)
<1> DEFINE Others == Sim!Threads \ {t}
           C == 1..c_resource.credit
<1>1. N \in Nat \ {0} /\ c_resource.credit \in Nat \ {0}
  BY ResourceIs
<1>2. IsFiniteSet(Sim!Threads) /\ Cardinality(Sim!Threads) = N
  BY <1>1, FS_Interval DEF Sim!Threads
<1>3. IsFiniteSet(Others) /\ Cardinality(Others) = N - 1
  BY <1>2, FS_RemoveElement
<1>4. IsFiniteSet(C) /\ Cardinality(C) = c_resource.credit
  <2> DEFINE c == c_resource.credit
  <2>1. c \in Int /\ 1 \in Int /\ 1 <= c
    BY <1>1
  <2> HIDE DEF c
  <2>2. IsFiniteSet(1..c) /\ Cardinality(1..c) = c - 1 + 1
    BY <2>1, FS_Interval
  <2> QED BY <2>1, <2>2 DEF c
<1> HIDE DEF C
<1>5. IsFiniteSet(Others \X C) /\ Cardinality(Others \X C) = (N - 1) * c_resource.credit
  <2> HIDE DEF Others
  <2> QED BY <1>3, <1>4, FS_Product
<1>6. Credits(t) \in SUBSET (Others \X C)
  BY DEF Credits, C
<1>7. IsFiniteSet(Credits(t)) /\ Cardinality(Credits(t)) <= Cardinality(Others \X C)
  <2> HIDE DEF Others
  <2> QED BY <1>5, <1>6, FS_Subset
<1>8. Cardinality(Credits(t)) \in Nat
  BY <1>7, FS_CardinalityType
<1>9. (N - 1) * c_resource.credit = c_resource.credit * (N - 1)
  BY <1>1
<1> QED BY <1>5, <1>7, <1>8, <1>9

(* A refill lets nobody wait longer than its turn.                         *)
LEMMA AskingKeepsPasses ==
    ASSUME SimTypeOK, PassesOK, UNCHANGED <<c_resource, Sim!masks, Sim!order, c_passed>>,
           NEW asking, c_credits' = Sim!CreditsAsked(asking)
    PROVE  PassesOK'
<1>1. /\ c_resource' = c_resource /\ c_passed' = c_passed
      /\ c_last_grant' = c_last_grant /\ c_lru_order' = c_lru_order
  BY DEF Sim!order
<1>2. Sim!Weighted' = Sim!Weighted /\ Sim!AfterLast' = Sim!AfterLast
  BY <1>1 DEF Sim!Weighted, Sim!AfterLast
<1>3. /\ c_resource.policy = "round_robin" => \A t \in Sim!Threads : Turn(Sim!AfterLast, t, N)'
      /\ c_resource.policy = "lru" => \A t \in Sim!Threads : Turn(c_lru_order, t, N)'
  BY <1>1, <1>2 DEF PassesOK, Turn
<1>4. ASSUME Sim!Weighted, NEW t \in Sim!Threads, c_passed[t] # 0
      PROVE  WeightedTurn(t)'
  <2> DEFINE K == c_resource.credit * (N - 1)
  <2>1. /\ N \in Nat \ {0} /\ c_resource.credit \in Nat \ {0} /\ K \in Nat /\ c_passed[t] \in Nat
    BY ResourceIs DEF SimTypeOK
  <2>2. WeightedTurn(t)
    BY <1>4 DEF PassesOK
  <2>3. CASE c_credits' = c_credits
    <3>1. /\ Credits(t)' = Credits(t)
          /\ Turn(Sim!AfterLast, t, K + (N - 1))' = Turn(Sim!AfterLast, t, K + (N - 1))
      BY <1>1, <1>2, <2>3 DEF Credits, Turn
    <3> QED BY <1>1, <2>2, <2>3, <3>1 DEF WeightedTurn
  <2>4. CASE c_credits' = Sim!Full
    <3>1. c_credits'[t] # 0
      BY <2>1, <2>4 DEF Sim!Full
    <3>2. Turn(Sim!AfterLast, t, K + (N - 1))
      <4>1. CASE c_credits[t] # 0
        BY <2>2, <4>1 DEF WeightedTurn
      <4>2. CASE c_credits[t] = 0
        <5>1. PICK i \in 1..N : Sim!AfterLast[i] = t
          BY AfterLastIs
        <5>2. i # N
          BY <2>2, <5>1, AfterLastIs DEF WeightedTurn
        <5>3. c_passed[t] <= K
          <6>1. Cardinality(Credits(t)) \in Nat
            BY CreditsBounded
          <6>2. c_passed[t] + Cardinality(Credits(t)) <= K
            BY <2>2, <4>2 DEF WeightedTurn
          <6> HIDE DEF K
          <6> QED BY <2>1, <6>1, <6>2
        <5>4. c_passed[t] + i <= K + (N - 1)
          <6> HIDE DEF K
          <6> QED BY <2>1, <5>2, <5>3
        <5> QED BY <5>1, <5>4 DEF Turn
      <4> QED BY <4>1, <4>2
    <3>3. Turn(Sim!AfterLast, t, K + (N - 1))'
      BY <1>1, <1>2, <3>2 DEF Turn
    <3> QED BY <1>1, <2>2, <3>1, <3>3 DEF WeightedTurn
  <2> QED BY <2>3, <2>4, AskedIs
<1> QED BY <1>1, <1>2, <1>3, <1>4 DEF PassesOK

(* Who is behind the first of S in an order, and in S.                     *)
LEMMA BehindFirst ==
    ASSUME NEW ids, NEW S, NEW m \in 1..N, IsFirst(ids, S, m), N \in Nat,
           NEW i \in 1..N, ids[i] \in S, ids[i] # ids[m]
    PROVE  m < i
<1>1. m <= i /\ m # i
  BY DEF IsFirst
<1> QED BY <1>1

(* The bookkeeping of a claim: who waits at the lock is passed once more.  *)
LEMMA PassesAre ==
    ASSUME SimTypeOK, MasksOK, NEW t \in Sim!Threads, Sim!Claim(t), NEW u \in Sim!Threads
    PROVE  /\ c_passed[u] \in Nat /\ c_passed'[u] \in Nat
           /\ c_passed'[u] # 0 => u # t /\ u \in c_req_mask /\ c_passed'[u] <= c_passed[u] + 1
<1>1. c_passed[u] \in Nat
  BY DEF SimTypeOK
<1>2. c_passed'[u] = IF u # t /\ c_at[u] = "lock" /\ c_passed[u] <= Sim!AllowedPasses
                     THEN c_passed[u] + 1
                     ELSE IF c_at[u] = "lock" THEN c_passed[u] ELSE 0
  BY DEF Sim!Claim
<1>3. c_at[t] # "lock"
  BY DEF Sim!Claim
<1>4. c_at[u] = "lock" => u \in c_req_mask
  BY DEF MasksOK, Wanting
<1> QED BY <1>1, <1>2, <1>3, <1>4

(* A claim moves up those who watch it.                                    *)
LEMMA ClaimKeepsPasses ==
    ASSUME SimTypeOK, LruOK, MasksOK, PassesOK, NEW t \in Sim!Threads, Sim!Claim(t),
           t \notin c_holder_mask, Sim!can_acquire(t), Sim!Weighted => c_credits[t] # 0
    PROVE  PassesOK'
<1>1. /\ N \in Nat \ {0} /\ c_resource.credit \in Nat \ {0} /\ c_resource' = c_resource
      /\ c_last_grant \in Sim!Threads
  BY ResourceIs DEF Sim!Claim, Sim!edge, SimTypeOK
<1>2. Sim!Select = t
  BY DEF Sim!can_acquire
<1>3. Sim!Weighted' = Sim!Weighted
  BY <1>1 DEF Sim!Weighted
<1>4. Sim!AfterLast = Scan(c_last_grant) /\ Sim!AfterLast' = Scan(c_last_grant')
  BY DEF Sim!AfterLast, Scan
<1>5. ASSUME NEW m \in 1..N, NEW i \in 1..N, m < i, t = Sim!AfterLast[m]
      PROVE  Scan(t)[i - m] = Sim!AfterLast[i]
  <2>1. Scan(Scan(c_last_grant)[m])[i - m] = Scan(c_last_grant)[i]
    <3>1. \A k, j \in 1..N : k < j => Scan(Scan(c_last_grant)[k])[j - k] = Scan(c_last_grant)[j]
      BY <1>1, ScanIs
    <3> QED BY <1>5, <3>1
  <2>2. Scan(c_last_grant)[m] = t /\ Scan(c_last_grant)[i] = Sim!AfterLast[i]
    BY <1>4, <1>5
  <2> QED BY <2>1, <2>2
<1>6. ASSUME c_resource.policy = "round_robin", NEW u \in Sim!Threads
      PROVE  Turn(Sim!AfterLast, u, N)'
  <2>1. c_last_grant' = t
    BY <1>6 DEF Sim!Claim
  <2>2. CASE c_passed'[u] = 0
    <3>1. PICK i \in 1..N : Scan(t)[i] = u
      BY ScanIs
    <3> QED BY <1>1, <1>4, <2>1, <2>2, <3>1 DEF Turn
  <2>3. CASE c_passed'[u] # 0
    <3>1. /\ c_passed[u] \in Nat /\ c_passed'[u] \in Nat /\ u # t /\ u \in c_req_mask
          /\ c_passed'[u] <= c_passed[u] + 1
      BY <2>3, PassesAre
    <3>2. PICK i \in 1..N : Sim!AfterLast[i] = u /\ c_passed[u] + i <= N
      BY <1>6 DEF PassesOK, Turn
    <3>3. PICK m \in 1..N : t = Sim!AfterLast[m] /\ IsFirst(Sim!AfterLast, c_req_mask, m)
      BY <1>2, <1>6, SelectIsFirst DEF Selects
    <3>4. m < i
      BY <1>1, <3>1, <3>2, <3>3, BehindFirst
    <3>5. Scan(t)[i - m] = u
      BY <1>5, <3>2, <3>3, <3>4
    <3>6. i - m \in 1..N /\ c_passed'[u] + (i - m) <= N
      BY <1>1, <3>1, <3>2, <3>4
    <3> QED BY <1>4, <2>1, <3>5, <3>6 DEF Turn
  <2> QED BY <2>2, <2>3
<1>7. ASSUME c_resource.policy = "lru", NEW u \in Sim!Threads
      PROVE  Turn(c_lru_order, u, N)'
  <2>1. c_lru_order' = Sim!LruClaimed(t)
    BY <1>7 DEF Sim!Claim
  <2>2. CASE c_passed'[u] = 0
    <3>1. PICK i \in 1..N : Sim!LruClaimed(t)[i] = u
      BY LruMoves
    <3> QED BY <1>1, <2>1, <2>2, <3>1 DEF Turn
  <2>3. CASE c_passed'[u] # 0
    <3>1. /\ c_passed[u] \in Nat /\ c_passed'[u] \in Nat /\ u # t /\ u \in c_req_mask
          /\ c_passed'[u] <= c_passed[u] + 1
      BY <2>3, PassesAre
    <3>2. PICK i \in 1..N : c_lru_order[i] = u /\ c_passed[u] + i <= N
      BY <1>7 DEF PassesOK, Turn
    <3>3. PICK m \in 1..N : t = c_lru_order[m] /\ IsFirst(c_lru_order, c_req_mask, m)
      BY <1>2, <1>7, SelectIsFirst DEF Selects
    <3>4. m < i
      BY <1>1, <3>1, <3>2, <3>3, BehindFirst
    <3>5. Sim!LruClaimed(t)[i - 1] = u
      BY <3>2, <3>3, <3>4, LruMoves
    <3>6. i - 1 \in 1..N /\ c_passed'[u] + (i - 1) <= N
      BY <1>1, <3>1, <3>2, <3>4
    <3> QED BY <2>1, <3>5, <3>6 DEF Turn
  <2> QED BY <2>2, <2>3
<1>8. ASSUME Sim!Weighted, NEW u \in Sim!Threads, c_passed'[u] # 0
      PROVE  WeightedTurn(u)'
  <2> DEFINE K == c_resource.credit * (N - 1)
  <2>1. /\ c_passed[u] \in Nat /\ c_passed'[u] \in Nat /\ u # t /\ u \in c_req_mask
        /\ c_passed'[u] <= c_passed[u] + 1
    BY <1>8, PassesAre
  <2>2. /\ c_last_grant' = t /\ c_credits[t] \in 1..c_resource.credit
        /\ c_credits' = [c_credits EXCEPT ![t] = c_credits[t] - 1]
    <3>1. c_credits[t] \in 0..c_resource.credit /\ c_credits[t] # 0
      BY <1>8 DEF SimTypeOK
    <3>2. c_credits[t] \in 1..c_resource.credit /\ c_credits[t] > 0
      BY <1>1, <3>1
    <3> QED BY <1>8, <3>2 DEF Sim!Claim, Sim!Weighted
  <2>3. c_credits'[u] = c_credits[u]
    BY <2>1, <2>2 DEF SimTypeOK
  <2>4. K \in Nat
    BY <1>1
  <2>5. CASE c_credits[u] = 0
    <3>1. /\ IsFiniteSet(Credits(u)) /\ Cardinality(Credits(u)) \in Nat
          /\ Cardinality(Credits(u)) <= K
      BY CreditsBounded
    <3>2. <<t, c_credits[t]>> \in Credits(u)
      BY <1>1, <2>1, <2>2 DEF Credits
    <3>3. Credits(u)' = Credits(u) \ {<<t, c_credits[t]>>}
      <4>1. \A w \in Sim!Threads : c_credits[w] \in 0..c_resource.credit
        BY DEF SimTypeOK
      <4>2. \A w \in Sim!Threads : c_credits'[w] = IF w = t THEN c_credits[t] - 1 ELSE c_credits[w]
        BY <2>2 DEF SimTypeOK
      <4>3. \A k \in 1..c_resource.credit :
                  k <= c_credits[t] - 1 <=> k <= c_credits[t] /\ k # c_credits[t]
        BY <1>1, <2>2
      <4>4. ASSUME NEW x \in Sim!Threads \X (1..c_resource.credit)
            PROVE  x \in Credits(u)' <=> x \in Credits(u) /\ x # <<t, c_credits[t]>>
        BY <1>1, <4>2, <4>3, <4>4 DEF Credits
      <4>5. /\ Credits(u) \in SUBSET (Sim!Threads \X (1..c_resource.credit))
            /\ Credits(u)' \in SUBSET (Sim!Threads \X (1..c_resource.credit))
        BY <1>1 DEF Credits
      <4> QED BY <4>4, <4>5
    <3>4. Cardinality(Credits(u)') = Cardinality(Credits(u)) - 1
      BY <3>1, <3>2, <3>3, FS_RemoveElement
    <3>5. c_passed'[u] + Cardinality(Credits(u)') <= K
      <4>1. CASE c_passed[u] = 0
        <5> HIDE DEF K
        <5> QED BY <2>1, <2>4, <3>1, <3>4, <4>1
      <4>2. CASE c_passed[u] # 0
        <5>1. c_passed[u] + Cardinality(Credits(u)) <= K
          BY <1>8, <2>5, <4>2 DEF PassesOK, WeightedTurn
        <5> HIDE DEF K
        <5> QED BY <2>1, <2>4, <3>1, <3>4, <5>1
      <4> QED BY <4>1, <4>2
    <3> QED BY <1>1, <2>1, <2>2, <2>3, <2>5, <3>5 DEF WeightedTurn
  <2>6. CASE c_credits[u] # 0
    <3>1. u \in Sim!InCredit
      BY <2>1, <2>6 DEF Sim!InCredit
    <3>2. PICK m \in 1..N : t = Sim!AfterLast[m] /\ IsFirst(Sim!AfterLast, Sim!InCredit, m)
      BY <1>2, <1>8, SelectIsFirst DEF Selects
    <3>3. 1 <= K
      <4>1. N - 1 \in Nat \ {0}
        BY <1>1, <2>1 DEF Sim!Threads
      <4>2. \A a, b \in Nat \ {0} : 1 <= a * b
        OBVIOUS
      <4> QED BY <1>1, <4>1, <4>2
    <3>4. PICK i \in 1..N : /\ Sim!AfterLast[i] = u
                            /\ c_passed[u] = 0 \/ c_passed[u] + i <= K + (N - 1)
      <4>1. CASE c_passed[u] = 0
        BY <4>1, AfterLastIs
      <4>2. CASE c_passed[u] # 0
        BY <1>8, <2>6, <4>2 DEF PassesOK, WeightedTurn, Turn
      <4> QED BY <4>1, <4>2
    <3>5. m < i
      BY <1>1, <2>1, <3>1, <3>2, <3>4, BehindFirst
    <3>6. Scan(t)[i - m] = u
      BY <1>5, <3>2, <3>4, <3>5
    <3>7. i - m \in 1..N /\ c_passed'[u] + (i - m) <= K + (N - 1)
      <4> HIDE DEF K
      <4> QED BY <1>1, <2>1, <2>4, <3>3, <3>4, <3>5
    <3>8. Turn(Sim!AfterLast, u, K + (N - 1))'
      BY <1>1, <1>4, <2>2, <3>6, <3>7 DEF Turn
    <3> QED BY <1>1, <2>1, <2>2, <2>3, <2>6, <3>8 DEF WeightedTurn
  <2> QED BY <2>5, <2>6
<1> QED BY <1>1, <1>3, <1>6, <1>7, <1>8 DEF PassesOK
-----------------------------------------------------------------------------
(* Nobody is about to claim unless the running scheduler's coroutine is.   *)
LEMMA NobodyClaims ==
    ASSUME SimTypeOK, ClaimsOK,
           \/ c_running = {} \/ c_beginning # {}
           \/ \E t \in Sim!Threads : c_running = {t} /\ c_at[t] # "claiming"
    PROVE  \A u \in Sim!Threads : c_at[u] # "claiming"
<1> SUFFICES ASSUME NEW u \in Sim!Threads, c_at[u] = "claiming" PROVE FALSE
  OBVIOUS
<1>1. c_running = {u} /\ c_beginning = {}
  BY DEF ClaimsOK
<1> QED BY <1>1

(* The scheduler that runs is the only one, and all ticks have begun.      *)
LEMMA RunsAlone ==
    ASSUME SimTypeOK, TurnsOK, NEW t \in Sim!Threads, Sim!MayRun(t)
    PROVE  c_running = {t} /\ c_beginning = {}
BY DEF Sim!MayRun, SimTypeOK, TurnsOK

(* Steps that only ask whether threads can acquire keep what is known of   *)
(* the masks, of the looks and of the waits.                               *)
Asking == \E asking : c_credits' = Sim!CreditsAsked(asking)
(* Asking without an effect on anything but the credits keeps the masks    *)
(* and the waits, and what the others see.                                 *)
LEMMA AskingKeeps ==
    ASSUME SimTypeOK, MasksOK, UNCHANGED <<c_resource, c_at, Sim!masks, Sim!order, c_passed>>,
           Asking
    PROVE  /\ MasksOK' /\ (PassesOK => PassesOK')
           /\ \A t : Sim!can_acquire(t)' = Sim!can_acquire(t) /\ Settled(t)' = Settled(t)
<1>1. PICK asking : c_credits' = Sim!CreditsAsked(asking)
  BY DEF Asking
<1>2. /\ c_resource' = c_resource /\ c_at' = c_at
      /\ c_holder_mask' = c_holder_mask /\ c_req_mask' = c_req_mask
  BY DEF Sim!masks
<1>3. \A t : Sim!can_acquire(t)' = Sim!can_acquire(t)
  BY <1>1, AskingKeepsSelect
<1>4. \A t : Settled(t)' = Settled(t)
  BY <1>2, <1>3 DEF Settled
<1>5. PassesOK => PassesOK'
  BY <1>1, AskingKeepsPasses
<1>6. MasksOK'
  BY <1>2 DEF MasksOK, Sim!Inside, Wanting
<1> QED BY <1>3, <1>4, <1>5, <1>6

(* Without anybody to ask the credits stay.                                *)
LEMMA CreditsAskedByNobody == Sim!CreditsAsked({}) = c_credits
BY DEF Sim!CreditsAsked

(* tick_begin.                                                             *)
LEMMA BeginStep ==
    ASSUME SimInv, NEW t \in Sim!Threads, Sim!MayBegin(t), Sim!Begin(t)
    PROVE  TurnsOK' /\ ClaimsOK' /\ MasksOK' /\ (~c_resource'.preempt => OrderlyOK')
<1> USE DEF SimInv, StatesOK
<1>1. /\ c_resource' = c_resource /\ c_at' = c_at /\ c_running' = c_running /\ c_beginning # {}
      /\ UNCHANGED <<c_resource, c_at, Sim!masks, Sim!order, c_passed>>
  BY DEF Sim!Begin, Sim!MayBegin, Sim!edge
<1>2. Asking
  BY CreditsAskedByNobody DEF Sim!Begin, Asking
<1>3. /\ MasksOK' /\ (PassesOK => PassesOK')
      /\ \A u : Sim!can_acquire(u)' = Sim!can_acquire(u) /\ Settled(u)' = Settled(u)
  BY <1>1, <1>2, AskingKeeps
<1>4. c_running = {0}
  BY <1>1 DEF TurnsOK
<1>5. TurnsOK'
  BY <1>1, <1>4 DEF TurnsOK
<1>6. ClaimsOK'
  BY <1>1, NobodyClaims DEF ClaimsOK
<1>7. ASSUME OrderlyOK PROVE OrderlyOK'
  <2>1. LooksOK'
    <3>1. /\ c_ready' \subseteq c_ready \cup {t} /\ c_ready \subseteq c_ready'
          /\ c_resumed' = c_resumed \ {t}
          /\ c_lock_refired' = c_lock_refired \ {t}
      BY DEF Sim!Begin
    <3> QED BY <1>1, <1>3, <1>7, <3>1 DEF OrderlyOK, LooksOK
  <2>2. SimRoundOK'
    BY <1>1, <1>4 DEF SimRoundOK
  <2> QED BY <1>3, <1>7, <2>1, <2>2 DEF OrderlyOK
<1> QED BY <1>1, <1>3, <1>5, <1>6, <1>7

(* A coroutine goes on to its next wait.                                   *)
LEMMA PassesFrame ==
    ASSUME PassesOK, UNCHANGED <<c_resource, Sim!order, c_credits, c_passed>>
    PROVE  PassesOK'
BY DEF PassesOK, Turn, WeightedTurn, Credits, Sim!AfterLast, Sim!Weighted, Sim!order

(* A coroutine that starts, arrives at the lock or leaves it.              *)
LEMMA MoveStep ==
    ASSUME SimInv, NEW t \in Sim!Threads, Sim!MayRun(t), Sim!Resume(t),
           Sim!Start(t) \/ Sim!Arrive(t) \/ Sim!Release(t)
    PROVE  TurnsOK' /\ ClaimsOK' /\ MasksOK' /\ (~c_resource'.preempt => OrderlyOK')
<1> USE DEF SimInv, StatesOK
<1>1. c_running = {t} /\ c_beginning = {} /\ t \notin c_resumed
  BY RunsAlone DEF Sim!Resume
<1>2. /\ c_resource' = c_resource /\ c_running' = c_running /\ c_beginning' = c_beginning
      /\ c_lock_refired' = c_lock_refired /\ c_resumed' = c_resumed \cup {t} /\ c_progressed' = TRUE
  BY DEF Sim!Resume, Sim!edge
<1>3. c_at[t] \in {"created", "outside", "body"}
  BY DEF Sim!Start, Sim!Arrive, Sim!Release
<1>4. PICK where \in {"outside", "lock"} : Sim!GoTo(t, where)
  BY DEF Sim!Start, Sim!Arrive, Sim!Release, Sim!Top
<1>5. /\ c_holder_mask' = IF c_at[t] = "body" THEN c_holder_mask \ {t} ELSE c_holder_mask
      /\ UNCHANGED <<Sim!order, c_credits, c_passed>>
  BY DEF Sim!Start, Sim!Arrive, Sim!Release
<1>6. /\ c_at' = [c_at EXCEPT ![t] = where] /\ c_ready' = c_ready \ {t}
      /\ c_req_mask' = IF where = "lock" THEN c_req_mask \cup {t} ELSE c_req_mask
  BY <1>4 DEF Sim!GoTo
<1>7. \A u \in Sim!Threads : c_at'[u] = IF u = t THEN where ELSE c_at[u]
  BY <1>6 DEF SimTypeOK
<1>8. TurnsOK'
  BY <1>1, <1>2 DEF TurnsOK
<1>9. ClaimsOK'
  BY <1>1, <1>3, <1>7, NobodyClaims DEF ClaimsOK
<1>10. MasksOK'
  <2>1. Sim!Inside' = Sim!Inside \ {t}
    BY <1>7 DEF Sim!Inside
  <2>2. Wanting' = IF where = "lock" THEN Wanting \cup {t} ELSE Wanting
    BY <1>3, <1>7 DEF Wanting
  <2>3. t \in Sim!Inside <=> c_at[t] = "body"
    BY DEF Sim!Inside
  <2>4. Sim!Inside' \subseteq c_holder_mask'
    BY <1>5, <2>1, <2>3 DEF MasksOK
  <2>5. Wanting' \subseteq c_req_mask'
    BY <1>6, <2>2 DEF MasksOK
  <2>6. Cardinality(c_holder_mask') <= c_resource.slots
    <3>1. IsFiniteSet(c_holder_mask)
      BY HoldersAreCounted
    <3>2. /\ Cardinality(c_holder_mask') \in Nat /\ Cardinality(c_holder_mask) \in Nat
          /\ Cardinality(c_holder_mask') <= Cardinality(c_holder_mask)
      <4>1. c_holder_mask' \subseteq c_holder_mask
        BY <1>5
      <4> QED BY <3>1, <4>1, FS_Subset, FS_CardinalityType
    <3>3. Cardinality(c_holder_mask) <= c_resource.slots /\ c_resource.slots \in Nat
      BY ResourceIs DEF MasksOK
    <3> QED BY <3>2, <3>3
  <2>7. ASSUME ~c_resource.preempt
        PROVE  c_holder_mask' \subseteq Sim!Inside' /\ c_req_mask' \subseteq Wanting'
    BY <1>5, <1>6, <2>1, <2>2, <2>3, <2>7 DEF MasksOK
  <2> QED BY <1>2, <2>4, <2>5, <2>6, <2>7 DEF MasksOK
<1>11. ASSUME OrderlyOK PROVE OrderlyOK'
  <2>1. LooksOK'
    <3>1. c_ready' \cap c_resumed' = {}
      BY <1>2, <1>6, <1>11 DEF OrderlyOK, LooksOK
    <3>2. ASSUME NEW u \in c_lock_refired
          PROVE  u \in Sim!Threads /\ u # t /\ c_at[u] \in {"claiming", "body"} /\ u \in c_resumed
      <4>1. \/ c_at[u] = "lock" /\ c_running = {u}
            \/ c_at[u] \in {"claiming", "body"} /\ u \in c_resumed
        BY <1>11 DEF OrderlyOK, LooksOK
      <4> QED BY <1>1, <1>3, <4>1 DEF SimTypeOK
    <3> QED BY <1>2, <1>7, <3>1, <3>2 DEF LooksOK
  <2>2. SimRoundOK'
    BY <1>1, <1>2 DEF SimRoundOK
  <2>3. PassesOK'
    BY <1>2, <1>5, <1>11, PassesFrame DEF OrderlyOK
  <2> QED BY <2>1, <2>2, <2>3 DEF OrderlyOK
<1> QED BY <1>2, <1>8, <1>9, <1>10, <1>11

(* The coroutine looks again at a lock that it was resumed for.            *)
LEMMA LookAgainStep ==
    ASSUME SimInv, NEW t \in Sim!Threads, Sim!MayRun(t), Sim!Resume(t), Sim!LookAgain(t)
    PROVE  TurnsOK' /\ ClaimsOK' /\ MasksOK' /\ (~c_resource'.preempt => OrderlyOK')
<1> USE DEF SimInv, StatesOK
<1>1. c_running = {t} /\ c_beginning = {} /\ t \notin c_resumed
  BY RunsAlone DEF Sim!Resume
<1>2. /\ c_resource' = c_resource /\ c_running' = c_running /\ c_beginning' = c_beginning
      /\ c_lock_refired' = c_lock_refired /\ c_resumed' = c_resumed \cup {t} /\ c_progressed' = TRUE
  BY DEF Sim!Resume, Sim!edge
<1>3. /\ c_at[t] = "lock" /\ c_ready' = c_ready \ {t} /\ c_credits' = Sim!CreditsAsked({t})
      /\ UNCHANGED <<Sim!masks, Sim!order, c_passed>>
  BY DEF Sim!LookAgain
<1>4. \A u \in Sim!Threads :
         c_at'[u] = IF u = t THEN IF Sim!can_acquire(t) THEN "claiming" ELSE "lock" ELSE c_at[u]
  BY DEF Sim!LookAgain, SimTypeOK
<1>5. Sim!Weighted' = Sim!Weighted /\ \A u : Sim!can_acquire(u)' = Sim!can_acquire(u)
  BY <1>2, <1>3, AskingKeepsSelect
<1>6. TurnsOK'
  BY <1>1, <1>2 DEF TurnsOK
<1>7. ASSUME NEW u \in Sim!Threads, c_at'[u] = "claiming"
      PROVE  u = t /\ Sim!can_acquire(t)
  BY <1>1, <1>3, <1>4, <1>7, NobodyClaims
<1>8. ASSUME Sim!Weighted, t \notin c_holder_mask, Sim!can_acquire(t)
      PROVE  c_credits'[t] # 0
  <2>1. Sim!SlotFree /\ Sim!Select = t
    BY <1>8 DEF Sim!can_acquire
  <2>2. t \in c_req_mask /\ t \in Sim!InCredit
    BY <1>8, <2>1, SelectIsFirst
  <2>3. CASE Sim!Refill
    <3>1. c_credits' = Sim!Full
      BY <1>3, <1>8, <2>1, <2>2, <2>3 DEF Sim!CreditsAsked, Sim!Asks, Sim!Full
    <3> QED BY <3>1, ResourceIs DEF Sim!Full
  <2>4. CASE ~Sim!Refill
    <3>1. c_credits' = c_credits /\ c_credits[t] # 0
      BY <1>3, <2>2, <2>4 DEF Sim!CreditsAsked, Sim!InCredit
    <3> QED BY <3>1
  <2> QED BY <2>3, <2>4
<1>9. ClaimsOK'
  BY <1>1, <1>2, <1>3, <1>5, <1>7, <1>8 DEF ClaimsOK, Sim!masks
<1>10. MasksOK'
  <2>1. Sim!Inside' = Sim!Inside /\ Wanting' = Wanting
    BY <1>3, <1>4 DEF Sim!Inside, Wanting
  <2> QED BY <1>2, <1>3, <2>1 DEF MasksOK, Sim!masks
<1>11. ASSUME OrderlyOK PROVE OrderlyOK'
  <2>1. LooksOK'
    <3>1. c_ready' \cap c_resumed' = {}
      BY <1>2, <1>3, <1>11 DEF OrderlyOK, LooksOK
    <3>2. ASSUME NEW u \in c_lock_refired
          PROVE  c_at'[u] \in {"claiming", "body"} /\ u \in c_resumed'
      <4>1. /\ u \in Sim!Threads
            /\ \/ c_at[u] = "lock" /\ c_running = {u} /\ Sim!can_acquire(u)
               \/ c_at[u] \in {"claiming", "body"} /\ u \in c_resumed
        BY <1>11 DEF OrderlyOK, LooksOK, SimTypeOK
      <4> QED BY <1>1, <1>2, <1>3, <1>4, <4>1
    <3> QED BY <1>2, <3>1, <3>2 DEF LooksOK
  <2>2. SimRoundOK'
    BY <1>1, <1>2 DEF SimRoundOK
  <2>3. PassesOK'
    BY <1>2, <1>3, <1>11, AskingKeepsPasses DEF OrderlyOK
  <2> QED BY <2>1, <2>2, <2>3 DEF OrderlyOK
<1> QED BY <1>2, <1>6, <1>9, <1>10, <1>11

(* The coroutine claims the resource and goes on into the body.            *)
LEMMA ClaimStep ==
    ASSUME SimInv, NEW t \in Sim!Threads, Sim!MayRun(t), Sim!Claim(t)
    PROVE  TurnsOK' /\ ClaimsOK' /\ MasksOK' /\ (~c_resource'.preempt => OrderlyOK')
<1> USE DEF SimInv, StatesOK
<1>1. /\ c_running = {t} /\ c_beginning = {} /\ c_at[t] = "claiming" /\ c_progressed
      /\ Sim!can_acquire(t) /\ (Sim!Weighted /\ t \notin c_holder_mask => c_credits[t] # 0)
  BY RunsAlone DEF Sim!Claim, ClaimsOK
<1>2. /\ c_resource' = c_resource /\ c_running' = c_running /\ c_beginning' = c_beginning
      /\ c_lock_refired' = c_lock_refired /\ c_resumed' = c_resumed /\ c_ready' = c_ready
      /\ c_progressed' = c_progressed
      /\ c_req_mask' = c_req_mask \ {t} /\ c_holder_mask' = c_holder_mask \cup {t}
  BY DEF Sim!Claim, Sim!edge
<1>3. \A u \in Sim!Threads : c_at'[u] = IF u = t THEN "body" ELSE c_at[u]
  BY DEF Sim!Claim, SimTypeOK
<1>4. TurnsOK'
  BY <1>1, <1>2 DEF TurnsOK
<1>5. ClaimsOK'
  <2>1. \A u \in Sim!Threads : u # t => c_at[u] # "claiming"
    BY <1>1 DEF ClaimsOK
  <2> QED BY <1>3, <2>1 DEF ClaimsOK
<1>6. Sim!Inside' = Sim!Inside \cup {t} /\ Wanting' = Wanting \ {t}
  BY <1>3 DEF Sim!Inside, Wanting
<1>7. Cardinality(c_holder_mask') <= c_resource.slots
  <2>1. CASE t \in c_holder_mask
    <3>1. c_holder_mask' = c_holder_mask
      BY <1>2, <2>1
    <3> QED BY <3>1 DEF MasksOK
  <2>2. CASE t \notin c_holder_mask
    <3>1. Cardinality(c_holder_mask) < c_resource.slots
      BY SameCounting, <1>1, <2>2 DEF Sim!can_acquire, Sim!SlotFree
    <3>2. IsFiniteSet(c_holder_mask)
      BY HoldersAreCounted
    <3>3. Cardinality(c_holder_mask \cup {t}) = Cardinality(c_holder_mask) + 1
      BY <2>2, <3>2, FS_AddElement
    <3>4. Cardinality(c_holder_mask) \in Nat /\ c_resource.slots \in Nat
      BY <3>2, FS_CardinalityType, ResourceIs
    <3> QED BY <1>2, <3>1, <3>3, <3>4
  <2> QED BY <2>1, <2>2
<1>8. MasksOK'
  BY <1>2, <1>6, <1>7 DEF MasksOK
<1>9. ASSUME ~c_resource.preempt, OrderlyOK PROVE OrderlyOK'
  <2>1. LooksOK'
    <3>1. c_ready' \cap c_resumed' = {}
      BY <1>2, <1>9 DEF OrderlyOK, LooksOK
    <3>2. ASSUME NEW u \in c_lock_refired
          PROVE  c_at'[u] \in {"claiming", "body"} /\ u \in c_resumed
      <4>1. /\ u \in Sim!Threads
            /\ \/ c_at[u] = "lock" /\ c_running = {u}
               \/ c_at[u] \in {"claiming", "body"} /\ u \in c_resumed
        BY <1>9 DEF OrderlyOK, LooksOK, SimTypeOK
      <4> QED BY <1>1, <1>3, <4>1
    <3> QED BY <1>2, <3>1, <3>2 DEF LooksOK
  <2>2. SimRoundOK'
    BY <1>1, <1>2 DEF SimRoundOK
  <2>3. t \notin c_holder_mask
    BY <1>1, <1>9 DEF MasksOK, Sim!Inside
  <2>4. PassesOK'
    BY <1>1, <1>9, <2>3, ClaimKeepsPasses DEF OrderlyOK
  <2> QED BY <2>1, <2>2, <2>4 DEF OrderlyOK
<1> QED BY <1>2, <1>4, <1>5, <1>8, <1>9

(* A wait that is over makes its slot Ready.                               *)
LEMMA WakeStep ==
    ASSUME SimInv, NEW t \in Sim!Threads, Sim!MayRun(t), Sim!Wake(t)
    PROVE  TurnsOK' /\ ClaimsOK' /\ MasksOK' /\ (~c_resource'.preempt => OrderlyOK')
<1> USE DEF SimInv, StatesOK
<1>1. c_running = {t} /\ c_beginning = {} /\ c_at[t] # "claiming"
  BY RunsAlone DEF Sim!Wake, Sim!Look, Sim!Idle
<1>2. /\ c_resource' = c_resource /\ c_at' = c_at
      /\ c_running' = c_running /\ c_beginning' = c_beginning
      /\ c_progressed' = c_progressed /\ c_credits' = Sim!CreditsAsked({t})
      /\ UNCHANGED <<c_resource, c_at, Sim!masks, Sim!order, c_passed>>
  BY DEF Sim!Wake, Sim!edge
<1>3. /\ MasksOK' /\ (PassesOK => PassesOK')
      /\ \A u : Sim!can_acquire(u)' = Sim!can_acquire(u) /\ Settled(u)' = Settled(u)
  BY <1>2, AskingKeeps DEF Asking
<1>4. TurnsOK'
  BY <1>1, <1>2 DEF TurnsOK
<1>5. ClaimsOK'
  BY <1>1, <1>2, NobodyClaims DEF ClaimsOK
<1>6. ASSUME OrderlyOK PROVE OrderlyOK'
  <2>1. LooksOK'
    <3>1. /\ c_ready' = c_ready \cup {t} /\ c_resumed' = c_resumed \ {t}
          /\ c_lock_refired' = c_lock_refired \cup ({t} \cap c_resumed)
          /\ t \notin c_resumed \/ (c_at[t] = "lock" /\ t \notin c_lock_refired)
          /\ c_at[t] = "lock" => Sim!can_acquire(t)
      BY DEF Sim!Wake, Sim!Look, Sim!Eligible, Sim!Pred
    <3>2. c_ready' \cap c_resumed' = {}
      BY <1>6, <3>1 DEF OrderlyOK, LooksOK
    <3>3. ASSUME NEW u \in c_lock_refired'
          PROVE  \/ c_at[u] = "lock" /\ u \in c_ready' /\ c_running = {u} /\ Sim!can_acquire(u)
                 \/ c_at[u] \in {"claiming", "body"} /\ u \in c_resumed'
      <4>1. CASE u \in c_lock_refired
        <5>1. \/ c_at[u] = "lock" /\ u \in c_ready /\ c_running = {u} /\ Sim!can_acquire(u)
              \/ c_at[u] \in {"claiming", "body"} /\ u \in c_resumed
          BY <1>6, <4>1 DEF OrderlyOK, LooksOK
        <5>2. u # t \/ c_at[u] = "lock" \/ u \notin c_resumed
          BY <3>1
        <5> QED BY <3>1, <5>1, <5>2
      <4>2. CASE u \notin c_lock_refired
        <5>1. u = t /\ t \in c_resumed
          BY <3>1, <4>2
        <5> QED BY <1>1, <3>1, <5>1
      <4> QED BY <4>1, <4>2
    <3> QED BY <1>2, <1>3, <3>2, <3>3 DEF LooksOK
  <2>2. SimRoundOK'
    BY <1>1, <1>2, <1>3, <1>6 DEF OrderlyOK, SimRoundOK
  <2> QED BY <1>3, <1>6, <2>1, <2>2 DEF OrderlyOK
<1> QED BY <1>2, <1>3, <1>4, <1>5, <1>6

(* The turn passes to the next scheduler, or the tick ends.                *)
LEMMA QuietStep ==
    ASSUME SimInv, NEW t \in Sim!Threads, Sim!MayRun(t), Sim!Quiet(t)
    PROVE  TurnsOK' /\ ClaimsOK' /\ MasksOK' /\ (~c_resource'.preempt => OrderlyOK')
<1> USE DEF SimInv, StatesOK
<1>1. c_running = {t} /\ c_beginning = {} /\ c_at[t] # "claiming" /\ t \notin c_ready \ c_resumed
  BY RunsAlone DEF Sim!Quiet, Sim!Idle
<1>2. /\ c_resource' = c_resource /\ c_at' = c_at /\ c_beginning' = c_beginning
      /\ c_ready' = c_ready /\ c_resumed' = c_resumed /\ c_lock_refired' = c_lock_refired
      /\ UNCHANGED <<c_resource, c_at, Sim!masks, Sim!order, c_passed>>
  BY DEF Sim!Quiet, Sim!slots
<1>3. Asking
  BY CreditsAskedByNobody DEF Sim!Quiet, Asking
<1>4. /\ MasksOK' /\ (PassesOK => PassesOK')
      /\ \A u : Sim!can_acquire(u)' = Sim!can_acquire(u) /\ Settled(u)' = Settled(u)
  BY <1>2, <1>3, AskingKeeps
<1>5. /\ c_running' = IF t < N - 1 THEN {t + 1} ELSE IF c_progressed THEN {0} ELSE {}
      /\ c_progressed' = (c_progressed /\ t < N - 1)
  BY DEF Sim!Quiet, Sim!NextTurn, SimTypeOK
<1>6. TurnsOK'
  BY <1>1, <1>2, <1>5 DEF TurnsOK
<1>7. ClaimsOK'
  BY <1>1, <1>2, NobodyClaims DEF ClaimsOK
<1>8. ASSUME OrderlyOK PROVE OrderlyOK'
  <2>1. ASSUME c_at[t] = "lock" PROVE t \notin c_ready /\ t \notin c_lock_refired
    <3>1. t \notin c_ready
      BY <1>1, <1>8 DEF OrderlyOK, LooksOK
    <3>2. t \notin c_lock_refired
      BY <1>8, <2>1, <3>1 DEF OrderlyOK, LooksOK
    <3> QED BY <3>1, <3>2
  <2>2. Settled(t)
    <3>1. ASSUME c_at[t] = "lock" PROVE Sim!Look(t)
      BY <1>1, <2>1, <3>1 DEF Sim!Look, Sim!Idle, Sim!Suspended, Sim!Eligible
    <3>2. ~(Sim!Look(t) /\ Sim!Pred(t))
      BY DEF Sim!Quiet
    <3> QED BY <3>1, <3>2 DEF Settled, Sim!Pred
  <2>3. LooksOK'
    <3>1. ASSUME NEW u \in c_lock_refired
          PROVE  c_at[u] \in {"claiming", "body"} /\ u \in c_resumed
      <4>1. \/ c_at[u] = "lock" /\ u \in c_ready /\ c_running = {u}
            \/ c_at[u] \in {"claiming", "body"} /\ u \in c_resumed
        BY <1>8 DEF OrderlyOK, LooksOK
      <4>2. u = t => c_at[u] # "lock"
        BY <2>1, <3>1
      <4> QED BY <1>1, <4>1, <4>2
    <3> QED BY <1>2, <1>8, <3>1 DEF OrderlyOK, LooksOK
  <2>4. SimRoundOK'
    <3>1. N \in Nat \ {0} /\ t \in 0..(N - 1)
      BY ResourceIs DEF Sim!Threads
    <3>2. ~c_progressed => \A u \in 0..(t - 1) : Settled(u)
      BY <1>1, <1>8 DEF OrderlyOK, SimRoundOK
    <3>3. ~c_progressed => \A u \in 0..t : Settled(u)
      <4>1. \A u \in 0..t : u = t \/ u \in 0..(t - 1)
        BY <3>1
      <4> QED BY <2>2, <3>2, <4>1
    <3>4. CASE t < N - 1
      <4>1. \A v \in c_running' : v - 1 = t
        BY <1>5, <3>1, <3>4
      <4>2. c_running' # {} /\ c_progressed' = c_progressed
        BY <1>5, <3>4 DEF SimTypeOK
      <4> QED BY <1>4, <3>3, <4>1, <4>2 DEF SimRoundOK
    <3>5. CASE ~(t < N - 1)
      <4>1. Sim!Threads = 0..t
        BY <3>1, <3>5 DEF Sim!Threads
      <4>2. c_running' = IF c_progressed THEN {0} ELSE {}
        BY <1>5, <3>5
      <4> QED BY <1>4, <3>3, <4>1, <4>2 DEF SimRoundOK
    <3> QED BY <3>4, <3>5
  <2> QED BY <1>4, <1>8, <2>3, <2>4 DEF OrderlyOK
<1> QED BY <1>2, <1>4, <1>6, <1>7, <1>8

(* A rising edge.                                                          *)
LEMMA PosedgeStep ==
    ASSUME SimInv, NEW high \in SUBSET Sim!Threads,
           NEW thrown \in SUBSET Sim!Threads, Sim!Posedge(high, thrown)
    PROVE  TurnsOK' /\ ClaimsOK' /\ MasksOK' /\ (~c_resource'.preempt => OrderlyOK')
<1> USE DEF SimInv, StatesOK
<1>1. /\ c_running = {} /\ c_running' = {0} /\ c_resource' = c_resource
      /\ c_lock_refired' = c_lock_refired /\ c_resumed' = c_resumed
      /\ c_req_mask' = c_req_mask /\ c_holder_mask' = c_holder_mask
      /\ UNCHANGED <<c_resource, Sim!order, c_credits>>
  BY DEF Sim!Posedge, Sim!masks
<1>2. \A u \in Sim!Threads : c_at'[u] = IF u \in thrown THEN "created" ELSE c_at[u]
  BY DEF Sim!Posedge
<1>3. TurnsOK'
  BY <1>1 DEF TurnsOK
<1>4. ClaimsOK'
  BY <1>1, <1>2, NobodyClaims DEF ClaimsOK
<1>5. Sim!Inside' \subseteq Sim!Inside /\ Wanting' \subseteq Wanting
  BY <1>2 DEF Sim!Inside, Wanting
<1>6. ASSUME ~c_resource.preempt
      PROVE  thrown = {} /\ c_at' = c_at /\ c_ready' = c_ready /\ c_passed' = c_passed
  BY <1>6 DEF Sim!Posedge, SimTypeOK
<1>7. MasksOK'
  <2>1. ~c_resource.preempt => Sim!Inside' = Sim!Inside /\ Wanting' = Wanting
    BY <1>6 DEF Sim!Inside, Wanting
  <2> QED BY <1>1, <1>5, <2>1 DEF MasksOK
<1>8. ASSUME ~c_resource.preempt, OrderlyOK PROVE OrderlyOK'
  <2>1. LooksOK'
    <3>1. \A u \in c_lock_refired : c_at[u] \in {"claiming", "body"} /\ u \in c_resumed
      BY <1>1, <1>8 DEF OrderlyOK, LooksOK
    <3> QED BY <1>1, <1>6, <1>8, <3>1 DEF OrderlyOK, LooksOK
  <2>2. SimRoundOK'
    BY <1>1 DEF SimRoundOK
  <2>3. PassesOK'
    BY <1>1, <1>6, <1>8, PassesFrame DEF OrderlyOK
  <2> QED BY <2>1, <2>2, <2>3 DEF OrderlyOK
<1> QED BY <1>1, <1>3, <1>4, <1>7, <1>8

(* The constructor and the reset: no claim and no wait.                    *)
LEMMA FreshTurns ==
    ASSUME NEW l \in Sim!Threads
    PROVE  /\ \A t \in Sim!Threads : \E i \in 1..N : Scan(l)[i] = t /\ 0 + i <= N
           /\ \A t \in Sim!Threads : \E i \in 1..N : Sim!Declared[i] = t /\ 0 + i <= N
<1>1. N \in Nat /\ \A i \in 1..N : 0 + i <= N
  BY SimWellFormed DEF Sim!WellFormed
<1>2. \A t \in Sim!Threads : t + 1 \in 1..N /\ Sim!Declared[t + 1] = t
  BY SimWellFormed DEF Sim!WellFormed, Sim!Declared, Sim!Threads
<1>3. \A t \in Sim!Threads : \E i \in 1..N : Scan(l)[i] = t
  BY ScanIs
<1>4. \A t \in Sim!Threads : \E i \in 1..N : Sim!Declared[i] = t
  BY <1>2
<1> QED BY <1>1, <1>3, <1>4

(* The constructor makes the invariant true.                               *)
LEMMA SimStart ==
    ASSUME Sim!Init
    PROVE  SimInv
<1>1. SimTypeOK /\ LruOK
  BY SimTypeInit, LruInit
<1>2. \A t \in Sim!Threads : c_at[t] = "created" /\ c_passed[t] = 0
  BY DEF Sim!Init, Sim!Created
<1>3. TurnsOK /\ ClaimsOK
  BY <1>2 DEF Sim!Init, TurnsOK, ClaimsOK
<1>4. MasksOK
  <2>1. Sim!Inside = {} /\ Wanting = {}
    BY <1>2 DEF Sim!Inside, Wanting
  <2>2. Cardinality({}) = 0 /\ c_resource.slots \in Nat
    BY <1>1, FS_EmptySet, ResourceIs
  <2> QED BY <2>1, <2>2 DEF Sim!Init, MasksOK
<1>5. LooksOK /\ SimRoundOK
  BY DEF Sim!Init, LooksOK, SimRoundOK
<1>6. PassesOK
  <2>1. /\ Sim!AfterLast = Scan(c_last_grant) /\ c_last_grant \in Sim!Threads
        /\ c_lru_order = Sim!Declared
    BY <1>1 DEF Sim!AfterLast, Scan, SimTypeOK, Sim!Init
  <2> QED BY <1>2, <2>1, FreshTurns DEF PassesOK, Turn
<1> QED BY <1>1, <1>3, <1>4, <1>5, <1>6 DEF SimInv, StatesOK, OrderlyOK

(* So does the reset.                                                      *)
LEMMA SimResetStep ==
    ASSUME SimTypeOK, SimTypeOK', Sim!Reset
    PROVE  TurnsOK' /\ ClaimsOK' /\ MasksOK' /\ (~c_resource'.preempt => OrderlyOK')
<1>1. \A t \in Sim!Threads : c_at'[t] = "created" /\ c_passed'[t] = 0
  BY DEF Sim!Reset, Sim!Created
<1>2. TurnsOK' /\ ClaimsOK'
  BY <1>1 DEF Sim!Reset, TurnsOK, ClaimsOK
<1>3. MasksOK'
  <2>1. Sim!Inside' = {} /\ Wanting' = {}
    BY <1>1 DEF Sim!Inside, Wanting
  <2>2. Cardinality({}) = 0 /\ c_resource.slots \in Nat /\ c_resource' = c_resource
    BY FS_EmptySet, ResourceIs DEF Sim!Reset
  <2> QED BY <2>1, <2>2 DEF Sim!Reset, MasksOK
<1>4. LooksOK' /\ SimRoundOK'
  BY DEF Sim!Reset, LooksOK, SimRoundOK
<1>5. PassesOK'
  <2>1. /\ Sim!AfterLast' = Scan(c_last_grant') /\ c_last_grant' \in Sim!Threads
        /\ c_lru_order' = Sim!Declared
    BY DEF Sim!AfterLast, Scan, SimTypeOK, Sim!Reset
  <2> QED BY <1>1, <2>1, FreshTurns DEF PassesOK, Turn
<1> QED BY <1>2, <1>3, <1>4, <1>5 DEF OrderlyOK

(* The invariant is inductive.                                             *)
LEMMA SimStep ==
    ASSUME SimInv, [Sim!Next]_Sim!vars
    PROVE  SimInv'
<1>1. SimTypeOK' /\ LruOK'
  BY SimTypeStep, LruStep DEF SimInv, StatesOK
<1>2. CASE UNCHANGED Sim!vars
  <2> USE DEF SimInv, StatesOK
  <2>1. /\ UNCHANGED <<c_resource, c_at, Sim!masks, Sim!order, c_passed>> /\ c_running' = c_running
        /\ c_beginning' = c_beginning /\ c_progressed' = c_progressed /\ c_ready' = c_ready
        /\ c_resumed' = c_resumed /\ c_lock_refired' = c_lock_refired /\ c_credits' = c_credits
    BY <1>2 DEF Sim!vars, Sim!edge, Sim!slots
  <2>2. Asking
    BY <2>1, CreditsAskedByNobody DEF Asking
  <2>3. /\ MasksOK' /\ (PassesOK => PassesOK')
        /\ \A u : Sim!can_acquire(u)' = Sim!can_acquire(u) /\ Settled(u)' = Settled(u)
    BY <2>1, <2>2, AskingKeeps
  <2>4. TurnsOK' /\ ClaimsOK'
    BY <2>1, <2>3 DEF TurnsOK, ClaimsOK, Sim!Weighted, Sim!masks
  <2>5. OrderlyOK => OrderlyOK'
    BY <2>1, <2>3 DEF OrderlyOK, LooksOK, SimRoundOK
  <2> QED BY <1>1, <2>1, <2>3, <2>4, <2>5
<1>3. CASE Sim!Next
  <2>1. TurnsOK' /\ ClaimsOK' /\ MasksOK' /\ (~c_resource'.preempt => OrderlyOK')
    <3>1. ASSUME NEW t \in Sim!Threads, Sim!Step(t)
          PROVE  TurnsOK' /\ ClaimsOK' /\ MasksOK' /\ (~c_resource'.preempt => OrderlyOK')
      <4>1. CASE Sim!MayRun(t) /\ Sim!Resume(t)
        BY <4>1, MoveStep, LookAgainStep DEF Sim!Resume
      <4> QED BY <3>1, <4>1, BeginStep, ClaimStep, WakeStep, QuietStep DEF Sim!Step
    <3>2. CASE Sim!Reset
      BY <1>1, <3>2, SimResetStep DEF SimInv, StatesOK
    <3> QED BY <1>3, <3>1, <3>2, PosedgeStep DEF Sim!Next
  <2> QED BY <1>1, <2>1 DEF SimInv, StatesOK
<1> QED BY <1>2, <1>3
-----------------------------------------------------------------------------
(* What the invariant says to the reader.                                  *)
LEMMA NobodyWaitsForAFreeSlot ==
    ASSUME CoroutineHookGrants, SimInv
    PROVE  Sim!LocksHandedOver
<1> USE DEF SimInv, StatesOK
<1> SUFFICES ASSUME c_running = {} PROVE Sim!LocksHandedOver
  BY DEF Sim!LocksHandedOver
<1>1. Sim!Inside \subseteq c_holder_mask /\ Sim!AtLock \subseteq c_req_mask
  BY DEF MasksOK, Sim!AtLock, Wanting
<1>2. ASSUME ~c_resource.preempt
      PROVE  /\ c_holder_mask \subseteq Sim!Inside /\ c_req_mask \subseteq Sim!AtLock
             /\ Sim!AtLock # {} => Cardinality(Sim!Inside) = c_resource.slots
  <2>1. c_holder_mask = Sim!Inside
    BY <1>1, <1>2 DEF MasksOK
  <2>2. c_req_mask = Sim!AtLock
    <3>1. \A u \in Sim!Threads : c_at[u] # "claiming"
      BY NobodyClaims
    <3> QED BY <1>1, <1>2, <3>1 DEF MasksOK, Sim!AtLock, Wanting
  <2>3. ASSUME Sim!AtLock # {} PROVE Cardinality(Sim!Inside) = c_resource.slots
    <3>1. Sim!Select \in Sim!AtLock
      BY <2>2, <2>3, SelectServes
    <3>2. ~Sim!can_acquire(Sim!Select)
      BY <1>2, <3>1 DEF OrderlyOK, SimRoundOK, Settled, Sim!AtLock
    <3>3. ~(Cardinality(c_holder_mask) < c_resource.slots)
      BY SameCounting, <3>2 DEF Sim!can_acquire, Sim!SlotFree
    <3>4. Cardinality(c_holder_mask) \in Nat /\ c_resource.slots \in Nat
      BY HoldersAreCounted, ResourceIs
    <3> QED BY <2>1, <3>3, <3>4 DEF MasksOK
  <2> QED BY <2>1, <2>2, <2>3
<1> QED BY SameCounting, <1>1, <1>2 DEF Sim!LocksHandedOver

(* Whoever is inside holds a slot.                                         *)
LEMMA HoldersFit ==
    ASSUME SimInv
    PROVE  Sim!MutualExclusion
<1> USE DEF SimInv, StatesOK
<1>1. IsFiniteSet(c_holder_mask) /\ Cardinality(c_holder_mask) \in Nat
  BY HoldersAreCounted
<1>2. Sim!Inside \subseteq c_holder_mask
  BY DEF MasksOK
<1>3. /\ Cardinality(Sim!Inside) \in Nat /\ Cardinality(c_holder_mask) \in Nat
      /\ Cardinality(Sim!Inside) <= Cardinality(c_holder_mask)
  BY <1>1, <1>2, FS_Subset, FS_CardinalityType
<1>4. Cardinality(c_holder_mask) <= c_resource.slots /\ c_resource.slots \in Nat
  BY ResourceIs DEF MasksOK
<1> QED BY SameCounting, <1>3, <1>4 DEF Sim!MutualExclusion

(* The counts bound the wait.                                              *)
LEMMA WaitsAreBounded ==
    ASSUME SimInv
    PROVE  Sim!BoundedWait
<1> USE DEF SimInv, StatesOK
<1> SUFFICES ASSUME c_resource.policy \in {"round_robin", "lru", "weighted"}, ~c_resource.preempt,
                    NEW t \in Sim!Threads
             PROVE  c_passed[t] <= Sim!AllowedPasses
  BY DEF Sim!BoundedWait, Sim!AtLock
<1>1. N \in Nat \ {0} /\ c_resource.credit \in Nat \ {0} /\ c_passed[t] \in Nat
  BY ResourceIs DEF SimTypeOK
<1>2. PassesOK
  BY DEF OrderlyOK
<1>3. CASE ~Sim!Weighted
  <2>1. PICK i \in 1..N : c_passed[t] + i <= N
    BY <1>2, <1>3 DEF PassesOK, Turn, Sim!Weighted
  <2> QED BY <1>1, <1>3, <2>1 DEF Sim!AllowedPasses
<1>4. CASE Sim!Weighted
  <2> DEFINE K == c_resource.credit * (N - 1)
  <2>1. K \in Nat
    BY <1>1
  <2>2. Sim!AllowedPasses = IF N > 1 THEN K + (N - 2) ELSE N - 1
    BY <1>4 DEF Sim!AllowedPasses
  <2>3. CASE c_passed[t] = 0
    <3> HIDE DEF K
    <3> QED BY <1>1, <2>1, <2>2, <2>3
  <2>4. CASE c_passed[t] # 0
    <3>1. WeightedTurn(t)
      BY <1>2, <1>4, <2>4 DEF PassesOK
    <3>2. N > 1
      <4>1. c_last_grant # t /\ c_last_grant \in 0..(N - 1) /\ t \in 0..(N - 1)
        BY <3>1 DEF WeightedTurn, SimTypeOK, Sim!Threads
      <4> QED BY <1>1, <4>1
    <3>3. CASE c_credits[t] = 0
      <4>1. c_passed[t] + Cardinality(Credits(t)) <= K
        BY <3>1, <3>3 DEF WeightedTurn
      <4>2. Cardinality(Credits(t)) \in Nat
        BY CreditsBounded
      <4> HIDE DEF K
      <4> QED BY <1>1, <2>1, <2>2, <3>2, <4>1, <4>2
    <3>4. CASE c_credits[t] # 0
      <4>1. PICK i \in 1..N : c_passed[t] + i <= K + (N - 1)
        BY <3>1, <3>4 DEF WeightedTurn, Turn
      <4> HIDE DEF K
      <4> QED BY <1>1, <2>1, <2>2, <3>2, <4>1
    <3> QED BY <3>3, <3>4
  <2> QED BY <2>3, <2>4
<1> QED BY <1>3, <1>4

(* The locks of the thread simulator under one OS thread, for any number   *)
(* of threads, slots and credits: never more inside than slots, nobody     *)
(* waits for a slot that is free, and waits are bounded.                   *)
THEOREM CoroutinesHandOver ==
    ASSUME CoroutineHookGrants
    PROVE  LocksSpec => []LocksHandedOver
<1>1. LocksInit => SimInv
  BY SimStart DEF LocksInit
<1>2. SimInv /\ [LocksNext]_<<resource, mutex_vars, sem_vars, user_vars, sim_vars, worker_vars>>
         => SimInv'
  <2> SUFFICES ASSUME SimInv,
                      [LocksNext]_<<resource, mutex_vars, sem_vars, user_vars, sim_vars,
                                    worker_vars>>
               PROVE  SimInv'
    OBVIOUS
  <2>1. UNCHANGED sim_vars => UNCHANGED Sim!vars
    BY DEF sim_vars, Sim!vars, Sim!edge, Sim!slots, Sim!masks, Sim!order
  <2>2. Sim!Next \/ UNCHANGED sim_vars
    BY DEF LocksNext, Mutex, Semaphore, UserArbiter, SimulatedLock, SimulatedEdges
  <2> QED BY <2>1, <2>2, SimStep
<1>3. SimInv => LocksHandedOver
  BY HoldersFit, NobodyWaitsForAFreeSlot, WaitsAreBounded DEF LocksHandedOver
<1> QED BY <1>1, <1>2, <1>3, PTL DEF LocksSpec
-----------------------------------------------------------------------------
(* A spinner that the barrier has let go and that has not looked since.    *)
Released(p) == w_step[p] = "spin" /\ w_gen[p] # w_generation[w_at[p]]

(* In front of the first barrier, or between the two.                      *)
Before(p) == \/ w_at[p] = "start" /\ ~Released(p)
             \/ w_at[p] = "end" /\ Released(p)
             \/ w_at[p] \in {"out", "back"}
Between(p) == \/ w_at[p] = "start" /\ Released(p)
              \/ w_at[p] = "end" /\ ~Released(p)
              \/ w_at[p] \in {"check", "tick", "join", "gone"}

Arrived(b) == {p \in Parallel!Participants : w_at[p] = b /\ w_step[p] \in {"spin", "last", "open"}
                                                         /\ w_gen[p] = w_generation[b]}
Opening(b) == \E p \in Parallel!Participants : w_at[p] = b /\ w_step[p] = "open"

(* Who may be where.                                                       *)
PlacesOK ==
    /\ w_at[N] \in {"out", "start", "end", "back", "join", "gone"}
    /\ \A w \in Threads : w_at[w] \in {"start", "check", "tick", "end", "gone"}
    /\ \A p \in Parallel!Participants : w_at[p] \notin Parallel!Barriers => w_step[p] = "load"

(* The counter of each barrier is the number of those who wait at it.      *)
CountsArrivals ==
    \A b \in Parallel!Barriers : w_count[b] = IF Opening(b) THEN 0 ELSE Cardinality(Arrived(b))

(* Whoever has loaded the generation and not been counted holds the        *)
(* current one.                                                            *)
LoadedIsCurrent ==
    \A p \in Parallel!Participants :
          w_at[p] \in Parallel!Barriers /\ w_step[p] = "arrive" => w_gen[p] = w_generation[w_at[p]]

(* The last to arrive finds everybody else waiting at the same barrier.    *)
LastIsAlone ==
    \A p \in Parallel!Participants :
          w_at[p] \in Parallel!Barriers /\ w_step[p] \in {"last", "open"} =>
        /\ w_gen[p] = w_generation[w_at[p]]
        /\ \A q \in Parallel!Participants \ {p} :
              w_at[q] = w_at[p] /\ w_step[q] = "spin" /\ w_gen[q] = w_generation[w_at[p]]

(* All participants are in the same half of a round.                       *)
InStep == \/ \A p \in Parallel!Participants : Before(p)
          \/ \A p \in Parallel!Participants : Between(p)

(* What the testbench has asked for and every worker still has to tick.    *)
Due == IF w_shutdown THEN 0 ELSE Parallel!Round
CallsOK ==
    /\ w_at[N] \in {"out"} => w_batch_count = 0
    /\ w_shutdown => w_at[N] \in {"start", "join", "gone"}
    /\ w_at[N] \in {"join", "gone"} => w_shutdown
    /\ w_at[N] = "gone" => \A w \in Threads : w_at[w] = "gone"

OwedOK ==
    \A w \in Threads :
        /\ Before(N) => w_owed[w] = IF w_at[N] = "start" THEN Due ELSE 0
        /\ Between(N) =>
             /\ w_at[w] \in {"start", "check"} => w_owed[w] = Due
             /\ w_at[w] = "tick" => w_owed[w] = w_left[w] /\ ~w_shutdown
             /\ w_at[w] = "end" => w_owed[w] = 0 /\ ~w_shutdown
             /\ w_at[w] = "gone" => w_owed[w] = 0 /\ w_shutdown

BarriersOK == CountsArrivals /\ LoadedIsCurrent /\ LastIsAlone
WorkersRoundOK == PlacesOK /\ InStep /\ CallsOK /\ OwedOK
WorkersInv == Parallel!TypeOK /\ BarriersOK /\ WorkersRoundOK
-----------------------------------------------------------------------------
(* SimWorkers counts as everybody does.                                    *)
LEMMA WorkersAreCounted ==
    \A S : /\ Parallel!Cardinality(S) = Cardinality(S)
           /\ Parallel!IsFiniteSet(S) <=> IsFiniteSet(S)
BY DEF Parallel!Cardinality, Cardinality, Parallel!IsFiniteSet, IsFiniteSet

(* Barrier::target is the number of threads that call wait().              *)
LEMMA TargetIsAll ==
    /\ IsFiniteSet(Parallel!Participants) /\ N \in Parallel!Participants
           /\ Parallel!target \in Nat /\ Parallel!target = Cardinality(Parallel!Participants)
<1>1. IsFiniteSet(Threads) /\ N \notin Threads
  BY WorkersWellFormed, WorkersAreCounted DEF Parallel!WellFormed
<1>2. Cardinality(Threads) \in Nat
  BY <1>1, FS_CardinalityType
<1>3. IsFiniteSet(Threads \cup {N}) /\ Cardinality(Threads \cup {N}) = Cardinality(Threads) + 1
  BY <1>1, FS_AddElement
<1> QED BY WorkersAreCounted, <1>2, <1>3 DEF Parallel!Participants, Parallel!target

(* generation.fetch_add(1) always changes the generation.                  *)
LEMMA GenerationMoves ==
    ASSUME NEW g \in 0..(GEN_RANGE - 1)
    PROVE  (g + 1) % GEN_RANGE \in 0..(GEN_RANGE - 1) /\ (g + 1) % GEN_RANGE # g
<1>1. GEN_RANGE \in Nat /\ GEN_RANGE >= 2
  BY WorkersWellFormed DEF Parallel!WellFormed
<1>2. CASE g + 1 = GEN_RANGE
  BY <1>1, <1>2
<1>3. CASE g + 1 < GEN_RANGE
  BY <1>1, <1>3
<1> QED BY <1>1, <1>2, <1>3

(* The counter of a barrier never passes target, and the thread that sees  *)
(* it reach target has everybody else waiting.                             *)
LEMMA LastSeesAll ==
    ASSUME NEW p \in Parallel!Participants, NEW S \in SUBSET (Parallel!Participants \ {p}),
           Cardinality(S) + 1 = Parallel!target
    PROVE  S = Parallel!Participants \ {p}
<1>1. /\ IsFiniteSet(Parallel!Participants) /\ Parallel!target = Cardinality(Parallel!Participants)
      /\ Parallel!target \in Nat
  BY TargetIsAll
<1>2. /\ IsFiniteSet(Parallel!Participants \ {p})
      /\ Cardinality(Parallel!Participants \ {p}) = Cardinality(Parallel!Participants) - 1
  BY <1>1, FS_RemoveElement
<1>3. /\ IsFiniteSet(S) /\ Cardinality(S) <= Cardinality(Parallel!Participants \ {p})
      /\ Cardinality(S) = Cardinality(Parallel!Participants \ {p})
            => S = Parallel!Participants \ {p}
  BY <1>2, FS_Subset
<1>4. Cardinality(S) \in Nat
  BY <1>3, FS_CardinalityType
<1> QED BY <1>1, <1>2, <1>3, <1>4
-----------------------------------------------------------------------------
(* The constructor leaves the invariant true.                              *)
LEMMA WorkersStart ==
    ASSUME Parallel!Init
    PROVE  WorkersInv
<1>1. N \in Parallel!Participants /\ Threads \subseteq Parallel!Participants /\ N \notin Threads
  BY WorkersWellFormed DEF Parallel!Participants, Parallel!WellFormed
<1>2. Parallel!TypeOK
  <2>1. GEN_RANGE \in Nat /\ GEN_RANGE >= 2 /\ 0 \in 0..(GEN_RANGE - 1)
    BY WorkersWellFormed DEF Parallel!WellFormed
  <2>2. w_at \in [Parallel!Participants -> Parallel!Barriers
                      \cup {"out", "back", "join", "gone", "check", "tick"}]
    BY DEF Parallel!Init, Parallel!Barriers
  <2>3. /\ w_step \in [Parallel!Participants -> {"load", "arrive", "last", "open", "spin"}]
        /\ w_gen \in [Parallel!Participants -> 0..(GEN_RANGE - 1)]
    BY <2>1 DEF Parallel!Init
  <2>4. /\ w_count \in [Parallel!Barriers -> Nat]
        /\ w_generation \in [Parallel!Barriers -> 0..(GEN_RANGE - 1)]
    BY <2>1 DEF Parallel!Init
  <2>5. w_batch_count \in Nat /\ w_left \in [Threads -> Nat] /\ w_owed \in [Threads -> Int]
    BY DEF Parallel!Init
  <2>6. w_shutdown \in BOOLEAN
    BY DEF Parallel!Init
  <2> QED BY <2>2, <2>3, <2>4, <2>5, <2>6 DEF Parallel!TypeOK
<1>3. PlacesOK
  BY <1>1 DEF Parallel!Init, PlacesOK, Parallel!Barriers
<1>4. BarriersOK
  <2>1. \A b \in Parallel!Barriers : Arrived(b) = {} /\ ~Opening(b)
    BY DEF Parallel!Init, Arrived, Opening
  <2>2. CountsArrivals
    BY <2>1, FS_EmptySet DEF Parallel!Init, CountsArrivals
  <2> QED BY <2>2 DEF Parallel!Init, BarriersOK, LoadedIsCurrent, LastIsAlone
<1>5. InStep
  BY DEF Parallel!Init, InStep, Before, Released
<1>6. CallsOK
  BY <1>1 DEF Parallel!Init, CallsOK
<1>7. OwedOK
  BY <1>1 DEF Parallel!Init, OwedOK, Before, Between, Released
<1> QED BY <1>2, <1>3, <1>4, <1>5, <1>6, <1>7 DEF WorkersInv, WorkersRoundOK

(* The invariant gives the property.                                       *)
LEMMA InvGivesEdgesDone ==
    ASSUME WorkersInv
    PROVE  Parallel!EdgesDone
<1>1. N \in Parallel!Participants /\ Threads \subseteq Parallel!Participants /\ N \notin Threads
  BY WorkersWellFormed DEF Parallel!Participants, Parallel!WellFormed
<1>2. Due \in Nat
  BY DEF WorkersInv, Parallel!TypeOK, Due, Parallel!Round
<1> SUFFICES ASSUME NEW w \in Threads
             PROVE  /\ w_owed[w] >= 0
                    /\ w_at[N] \in {"out", "back", "gone"} =>
                            w_owed[w] = 0 /\ w_at[w] \notin {"check", "tick"}
  BY DEF Parallel!EdgesDone
<1>3. w_left[w] \in Nat /\ w_owed[w] \in Int
  BY DEF WorkersInv, Parallel!TypeOK
<1>4. CASE \A p \in Parallel!Participants : Before(p)
  BY <1>1, <1>2, <1>3, <1>4 DEF WorkersInv, WorkersRoundOK, OwedOK, Before, PlacesOK, CallsOK
<1>5. CASE \A p \in Parallel!Participants : Between(p)
  BY <1>1, <1>2, <1>3, <1>5 DEF WorkersInv, WorkersRoundOK, OwedOK, Between, PlacesOK, CallsOK
<1> QED BY <1>4, <1>5 DEF WorkersInv, WorkersRoundOK, InStep
-----------------------------------------------------------------------------
(* A thread that is not waiting at a barrier moves: it looks and finds it  *)
(* open, reads the generation, or comes from outside.  Nobody can be       *)
(* opening a barrier then, and the counters stay right.                    *)
LEMMA MoveKeepsBarriers ==
    ASSUME Parallel!TypeOK, BarriersOK, NEW p \in Parallel!Participants,
           w_step[p] = "load" \/ Released(p),
           \A q \in Parallel!Participants \ {p} :
                 w_at'[q] = w_at[q] /\ w_step'[q] = w_step[q] /\ w_gen'[q] = w_gen[q],
           w_step'[p] = "load" \/ (w_step'[p] = "arrive" /\ w_gen'[p] = w_generation[w_at'[p]]),
           UNCHANGED <<w_count, w_generation>>
    PROVE  BarriersOK'
<1>1. \A b \in Parallel!Barriers : Arrived(b)' = Arrived(b)
  BY DEF Arrived, Released
<1>2. \A b \in Parallel!Barriers : Opening(b)' = Opening(b)
  BY DEF Opening, Released
<1>3. CountsArrivals'
  BY <1>1, <1>2 DEF BarriersOK, CountsArrivals
<1>4. LoadedIsCurrent'
  BY DEF BarriersOK, LoadedIsCurrent
<1>5. ASSUME NEW q \in Parallel!Participants, w_at[q] \in Parallel!Barriers,
             w_step[q] \in {"last", "open"}
      PROVE  FALSE
  <2>1. q # p
    BY <1>5 DEF Released
  <2>2. w_at[p] = w_at[q] /\ w_step[p] = "spin" /\ w_gen[p] = w_generation[w_at[q]]
    BY <1>5, <2>1 DEF BarriersOK, LastIsAlone
  <2> QED BY <2>2 DEF Released
<1>6. LastIsAlone'
  BY <1>5 DEF LastIsAlone
<1> QED BY <1>3, <1>4, <1>6 DEF BarriersOK

(* count.fetch_add(1): the arriving thread is counted once, and is last    *)
(* exactly when all the others are waiting.                                *)
LEMMA ArriveKeepsBarriers ==
    ASSUME Parallel!TypeOK, BarriersOK, NEW p \in Parallel!Participants, Parallel!Arrive(p)
    PROVE  BarriersOK'
<1> DEFINE b == w_at[p]
<1>0. b \in Parallel!Barriers /\ w_step[p] = "arrive" /\ w_gen[p] = w_generation[b]
  BY DEF Parallel!Arrive, BarriersOK, LoadedIsCurrent
<1>1. /\ ~Opening(b)
      /\ \A q \in Parallel!Participants :
               w_at[q] \in Parallel!Barriers => w_step[q] \notin {"last", "open"}
  <2> SUFFICES ASSUME NEW q \in Parallel!Participants, w_at[q] \in Parallel!Barriers,
                      w_step[q] \in {"last", "open"}
               PROVE  FALSE
    BY <1>0 DEF Opening
  <2>1. q # p
    BY <1>0
  <2>2. w_step[p] = "spin"
    BY <2>1 DEF BarriersOK, LastIsAlone
  <2> QED BY <1>0, <2>2
<1>2. w_count[b] = Cardinality(Arrived(b)) /\ p \notin Arrived(b)
  BY <1>0, <1>1 DEF BarriersOK, CountsArrivals, Arrived
<1>3. w_step'[p] \in {"last", "spin"}
  BY DEF Parallel!Arrive, Parallel!TypeOK
<1>3a. /\ w_at' = w_at /\ w_gen' = w_gen /\ w_generation' = w_generation
       /\ \A q \in Parallel!Participants \ {p} : w_step'[q] = w_step[q]
  BY DEF Parallel!Arrive, Parallel!TypeOK
<1>4. Arrived(b)' = Arrived(b) \cup {p}
  BY <1>0, <1>3, <1>3a DEF Arrived
<1>5. IsFiniteSet(Arrived(b)) /\ Cardinality(Arrived(b)') = Cardinality(Arrived(b)) + 1
  <2>1. IsFiniteSet(Arrived(b))
    BY TargetIsAll, FS_Subset DEF Arrived
  <2> QED BY <2>1, <1>2, <1>4, FS_AddElement
<1>6. CountsArrivals'
  <2> SUFFICES ASSUME NEW c \in Parallel!Barriers
               PROVE  w_count'[c] = IF Opening(c)' THEN 0 ELSE Cardinality(Arrived(c)')
    BY DEF CountsArrivals
  <2>1. ~Opening(c)'
    BY <1>1, <1>3, <1>3a DEF Opening
  <2>2. CASE c = b
    <3>1. w_count'[c] = w_count[b] + 1
      BY <2>2 DEF Parallel!Arrive, Parallel!TypeOK
    <3>2. Cardinality(Arrived(c)') = Cardinality(Arrived(b)) + 1
      BY <2>2, <1>3a, <1>5
    <3> QED BY <3>1, <3>2, <2>1, <1>2
  <2>3. CASE c # b
    <3>1. w_count'[c] = w_count[c]
      BY <2>3 DEF Parallel!Arrive, Parallel!TypeOK
    <3>2. Arrived(c)' = Arrived(c) /\ ~Opening(c)
      BY <2>3, <1>1, <1>3a DEF Arrived, Opening
    <3> QED BY <3>1, <3>2, <2>1 DEF BarriersOK, CountsArrivals
  <2> QED BY <2>2, <2>3
<1>7. LoadedIsCurrent'
  BY <1>3, <1>3a DEF BarriersOK, LoadedIsCurrent
<1>8. LastIsAlone'
  <2> SUFFICES ASSUME NEW q \in Parallel!Participants, w_at[q] \in Parallel!Barriers,
                      w_step'[q] \in {"last", "open"}
               PROVE  /\ w_gen[q] = w_generation[w_at[q]]
                      /\ \A r \in Parallel!Participants \ {q} :
                            /\ w_at[r] = w_at[q] /\ w_step'[r] = "spin"
                            /\ w_gen[r] = w_generation[w_at[q]]
    BY <1>3a DEF LastIsAlone
  <2>1. q = p
    BY <1>1, <1>3a
  <2>2. w_count[b] + 1 = Parallel!target
    BY <2>1 DEF Parallel!Arrive, Parallel!TypeOK
  <2>3. /\ Arrived(b) \in SUBSET (Parallel!Participants \ {p})
        /\ Cardinality(Arrived(b)) + 1 = Parallel!target
    BY <1>2, <2>2 DEF Arrived
  <2>4. Arrived(b) = Parallel!Participants \ {p}
    BY <2>3, LastSeesAll
  <2>5. \A r \in Parallel!Participants \ {p} :
              w_at[r] = b /\ w_step[r] \in {"spin", "last", "open"} /\ w_gen[r] = w_generation[b]
    BY <2>4 DEF Arrived
  <2> QED BY <2>1, <2>5, <1>0, <1>1, <1>3a
<1> QED BY <1>6, <1>7, <1>8 DEF BarriersOK

(* The last thread resets the counter while everybody else spins.          *)
LEMMA ResetKeepsBarriers ==
    ASSUME Parallel!TypeOK, BarriersOK, NEW p \in Parallel!Participants, Parallel!ResetCount(p)
    PROVE  BarriersOK'
<1> DEFINE b == w_at[p]
<1>1. b \in Parallel!Barriers /\ w_step[p] = "last"
  BY DEF Parallel!ResetCount
<1>2. \A q \in Parallel!Participants \ {p} :
            w_at[q] = b /\ w_step[q] = "spin" /\ w_gen[q] = w_generation[b]
  BY <1>1 DEF BarriersOK, LastIsAlone
<1>3. /\ w_at' = w_at /\ w_gen' = w_gen /\ w_generation' = w_generation /\ w_step'[p] = "open"
      /\ \A q \in Parallel!Participants \ {p} : w_step'[q] = w_step[q]
  BY DEF Parallel!ResetCount, Parallel!TypeOK
<1>4. CountsArrivals'
  <2> SUFFICES ASSUME NEW c \in Parallel!Barriers
               PROVE  w_count'[c] = IF Opening(c)' THEN 0 ELSE Cardinality(Arrived(c)')
    BY DEF CountsArrivals
  <2>1. CASE c = b
    <3>1. Opening(c)'
      BY <1>3, <2>1 DEF Opening
    <3> QED BY <2>1, <3>1 DEF Parallel!ResetCount, Parallel!TypeOK
  <2>2. CASE c # b
    <3>1. w_count'[c] = w_count[c]
      BY <2>2 DEF Parallel!ResetCount, Parallel!TypeOK
    <3>2. Arrived(c)' = Arrived(c) /\ ~Opening(c) /\ ~Opening(c)'
      BY <1>2, <1>3, <2>2 DEF Arrived, Opening
    <3> QED BY <3>1, <3>2 DEF BarriersOK, CountsArrivals
  <2> QED BY <2>1, <2>2
<1>5. LoadedIsCurrent'
  BY <1>3 DEF BarriersOK, LoadedIsCurrent
<1>6. LastIsAlone'
  BY <1>1, <1>2, <1>3 DEF BarriersOK, LastIsAlone
<1> QED BY <1>4, <1>5, <1>6 DEF BarriersOK

(* generation.fetch_add(1) lets go of everybody at once.                   *)
LEMMA OpenKeepsBarriers ==
    ASSUME Parallel!TypeOK, BarriersOK, NEW p \in Parallel!Participants, Parallel!Open(p)
    PROVE  /\ BarriersOK'
           /\ \A q \in Parallel!Participants : w_at[q] = w_at[p] /\ ~Released(q)
           /\ \A q \in Parallel!Participants \ {p} : w_at'[q] = w_at[p] /\ Released(q)'
           /\ w_at'[p] = Parallel!Beyond(p) /\ w_step'[p] = "load"
<1> DEFINE b == w_at[p]
<1>1. b \in Parallel!Barriers /\ w_step[p] = "open"
  BY DEF Parallel!Open
<1>2. \A q \in Parallel!Participants \ {p} :
            w_at[q] = b /\ w_step[q] = "spin" /\ w_gen[q] = w_generation[b]
  BY <1>1 DEF BarriersOK, LastIsAlone
<1>3. /\ w_at'[p] = Parallel!Beyond(p) /\ w_step'[p] = "load"
      /\ w_gen' = w_gen /\ w_count' = w_count
      /\ \A q \in Parallel!Participants \ {p} : w_at'[q] = w_at[q] /\ w_step'[q] = w_step[q]
      /\ \A c \in Parallel!Barriers : c # b => w_generation'[c] = w_generation[c]
      /\ w_generation'[b] = (w_generation[b] + 1) % GEN_RANGE
  BY DEF Parallel!Open, Parallel!Leave, Parallel!Enter, Parallel!TypeOK
<1>4. w_generation[b] \in 0..(GEN_RANGE - 1)
  BY <1>1 DEF Parallel!TypeOK
<1>5. w_generation'[b] # w_generation[b]
  BY <1>3, <1>4, GenerationMoves
<1>6. \A q \in Parallel!Participants \ {p} :
            w_at'[q] = b /\ w_step'[q] = "spin" /\ w_gen'[q] # w_generation'[b]
  BY <1>2, <1>3, <1>5
<1>7. \A c \in Parallel!Barriers : Arrived(c)' = {} /\ ~Opening(c)'
  BY <1>3, <1>6 DEF Arrived, Opening
<1>8. \A c \in Parallel!Barriers : w_count[c] = 0
  <2> SUFFICES ASSUME NEW c \in Parallel!Barriers PROVE w_count[c] = 0
    OBVIOUS
  <2>1. CASE c = b
    <3>1. Opening(c)
      BY <1>1, <2>1 DEF Opening
    <3> QED BY <3>1 DEF BarriersOK, CountsArrivals
  <2>2. CASE c # b
    <3>1. Arrived(c) = {}
      BY <1>2, <2>2 DEF Arrived
    <3> QED BY <3>1, FS_EmptySet DEF BarriersOK, CountsArrivals
  <2> QED BY <2>1, <2>2
<1>9. CountsArrivals'
  BY <1>3, <1>7, <1>8, FS_EmptySet DEF CountsArrivals
<1>10. LoadedIsCurrent' /\ LastIsAlone'
  BY <1>3, <1>6 DEF LoadedIsCurrent, LastIsAlone
<1>11. BarriersOK'
  BY <1>9, <1>10 DEF BarriersOK
<1>12. \A q \in Parallel!Participants : w_at[q] = w_at[p] /\ ~Released(q)
  BY <1>1, <1>2 DEF Released
<1>13. \A q \in Parallel!Participants \ {p} : w_at'[q] = w_at[p] /\ Released(q)'
  BY <1>6 DEF Released
<1> QED BY <1>3, <1>11, <1>12, <1>13
-----------------------------------------------------------------------------
(* Constructing another model is starting again.                           *)
LEMMA ConstructStarts ==
    Parallel!Construct => WorkersInv'
<1>1. Parallel!Init => WorkersInv
  BY WorkersStart
<1>2. Parallel!Init' => WorkersInv'
  BY <1>1, PTL
<1>3. Parallel!Construct => Parallel!Init'
  BY DEF Parallel!Construct, Parallel!Init
<1> QED BY <1>2, <1>3

(* The steps other than those on a barrier move one thread, from outside   *)
(* the barriers, and it has its wait() ahead of it.                        *)
LEMMA EnterMoves ==
    ASSUME Parallel!TypeOK, NEW p \in Parallel!Participants, NEW b, Parallel!Enter(p, b)
    PROVE  /\ w_at'[p] = b /\ w_step'[p] = "load"
           /\ \A q \in Parallel!Participants \ {p} : w_at'[q] = w_at[q] /\ w_step'[q] = w_step[q]
BY DEF Parallel!Enter, Parallel!TypeOK

(* Steps keep the types.                                                   *)
LEMMA WorkersTypeStep ==
    ASSUME Parallel!TypeOK, [Parallel!Next]_Parallel!vars, ~Parallel!Construct
    PROVE  Parallel!TypeOK'
<1> DEFINE Places == Parallel!Barriers \cup {"out", "back", "join", "gone", "check", "tick"}
<1>0. N \in Parallel!Participants /\ Threads \subseteq Parallel!Participants
  BY DEF Parallel!Participants
<1>1. ASSUME NEW p \in Parallel!Participants, Parallel!LoadGeneration(p) PROVE Parallel!TypeOK'
  BY <1>1 DEF Parallel!LoadGeneration, Parallel!TypeOK, Parallel!barrier, Parallel!calls
<1>2. ASSUME NEW p \in Parallel!Participants, Parallel!Arrive(p) PROVE Parallel!TypeOK'
  BY <1>2 DEF Parallel!Arrive, Parallel!TypeOK, Parallel!calls
<1>3. ASSUME NEW p \in Parallel!Participants, Parallel!ResetCount(p) PROVE Parallel!TypeOK'
  BY <1>3 DEF Parallel!ResetCount, Parallel!TypeOK, Parallel!calls
<1>4. ASSUME NEW p \in Parallel!Participants, NEW b \in Places, Parallel!Enter(p, b)
      PROVE  /\ w_at' \in [Parallel!Participants -> Places]
             /\ w_step' \in [Parallel!Participants -> {"load", "arrive", "last", "open", "spin"}]
  BY <1>4 DEF Parallel!Enter, Parallel!TypeOK
<1>5. \A p \in Parallel!Participants : Parallel!Beyond(p) \in Places
  BY DEF Parallel!Beyond, Parallel!Barriers
<1>6. ASSUME NEW p \in Parallel!Participants, Parallel!Open(p) PROVE Parallel!TypeOK'
  <2>1. w_generation' \in [Parallel!Barriers -> 0..(GEN_RANGE - 1)]
    BY <1>6, GenerationMoves DEF Parallel!Open, Parallel!TypeOK
  <2> QED BY <1>4, <1>5, <1>6, <2>1
             DEF Parallel!Open, Parallel!Leave, Parallel!TypeOK, Parallel!calls
<1>7. ASSUME NEW p \in Parallel!Participants, Parallel!Spin(p) PROVE Parallel!TypeOK'
  BY <1>4, <1>5, <1>7
     DEF Parallel!Spin, Parallel!Leave, Parallel!TypeOK, Parallel!barrier, Parallel!calls
<1>8. ASSUME NEW k \in Nat, Parallel!Clocked(k) PROVE w_owed' \in [Threads -> Int]
  BY <1>8 DEF Parallel!Clocked, Parallel!TypeOK
<1>9. CASE Parallel!Eval
  BY <1>0, <1>4, <1>8, <1>9 DEF Parallel!Eval, Parallel!TypeOK, Parallel!barrier, Parallel!Barriers
<1>10. ASSUME NEW k \in 1..MaxBatch, Parallel!RunCycles(k) PROVE Parallel!TypeOK'
  <2>1. k \in Nat
    BY WorkersWellFormed DEF Parallel!WellFormed
  <2> QED BY <1>0, <1>4, <1>8, <1>10, <2>1
             DEF Parallel!RunCycles, Parallel!TypeOK, Parallel!barrier, Parallel!Barriers
<1>11. CASE Parallel!Destroy
  BY <1>0, <1>4, <1>11 DEF Parallel!Destroy, Parallel!TypeOK, Parallel!barrier, Parallel!Barriers
<1>12. CASE Parallel!Return
  BY <1>0, <1>4, <1>12 DEF Parallel!Return, Parallel!TypeOK, Parallel!barrier, Parallel!Barriers
<1>13. CASE Parallel!Join
  BY <1>0, <1>4, <1>13
     DEF Parallel!Join, Parallel!TypeOK, Parallel!barrier, Parallel!calls, Parallel!Barriers
<1>14. ASSUME NEW w \in Threads, Parallel!Check(w) PROVE Parallel!TypeOK'
  <2>1. w_left' \in [Threads -> Nat]
    BY <1>14 DEF Parallel!Check, Parallel!TypeOK, Parallel!Round
  <2>2. (IF w_shutdown THEN "gone" ELSE "tick") \in Places
    OBVIOUS
  <2> QED BY <1>0, <1>4, <1>14, <2>1, <2>2 DEF Parallel!Check, Parallel!TypeOK, Parallel!barrier
<1>15. ASSUME NEW w \in Threads, Parallel!Tick(w) PROVE Parallel!TypeOK'
  BY <1>15 DEF Parallel!Tick, Parallel!TypeOK, Parallel!barrier
<1>16. ASSUME NEW w \in Threads, Parallel!Finish(w) PROVE Parallel!TypeOK'
  BY <1>0, <1>4, <1>16
     DEF Parallel!Finish, Parallel!TypeOK, Parallel!barrier, Parallel!calls, Parallel!Barriers
<1>17. CASE UNCHANGED Parallel!vars
  BY <1>17 DEF Parallel!TypeOK, Parallel!vars, Parallel!barrier, Parallel!calls
<1> QED
  BY <1>1, <1>2, <1>3, <1>6, <1>7, <1>9, <1>10, <1>11, <1>12, <1>13, <1>14, <1>15, <1>16, <1>17
  DEF Parallel!Next, Parallel!Wait, Parallel!Testbench, Parallel!Worker
-----------------------------------------------------------------------------
(* A step that moves no thread from one half of the round to the other     *)
(* keeps them in step.                                                     *)
LEMMA SameHalf ==
    ASSUME InStep,
           \A q \in Parallel!Participants : (Before(q) => Before(q)') /\ (Between(q) => Between(q)')
    PROVE  InStep'
BY DEF InStep

(* Reading the generation, arriving and resetting the counter let nobody   *)
(* through.                                                                *)
LEMMA WaitKeepsRound ==
    ASSUME Parallel!TypeOK, BarriersOK, WorkersRoundOK, NEW p \in Parallel!Participants,
           Parallel!LoadGeneration(p) \/ Parallel!Arrive(p) \/ Parallel!ResetCount(p)
    PROVE  WorkersRoundOK'
<1>0. N \in Parallel!Participants /\ Threads \subseteq Parallel!Participants
  BY DEF Parallel!Participants
<1>1. /\ w_at[p] \in Parallel!Barriers /\ w_at' = w_at /\ w_generation' = w_generation
      /\ UNCHANGED <<w_batch_count, w_shutdown, w_left, w_owed>>
  BY DEF Parallel!LoadGeneration, Parallel!Arrive, Parallel!ResetCount, Parallel!barrier,
     Parallel!calls
<1>2. \A q \in Parallel!Participants \ {p} : w_step'[q] = w_step[q] /\ w_gen'[q] = w_gen[q]
  BY DEF Parallel!LoadGeneration, Parallel!Arrive, Parallel!ResetCount, Parallel!TypeOK
<1>3. ~Released(p) /\ ~Released(p)'
  <2>1. CASE Parallel!LoadGeneration(p)
    BY <2>1 DEF Parallel!LoadGeneration, Released, Parallel!TypeOK
  <2>2. CASE Parallel!Arrive(p)
    <3>1. w_step[p] = "arrive" /\ w_gen[p] = w_generation[w_at[p]] /\ w_gen' = w_gen
      BY <2>2 DEF Parallel!Arrive, BarriersOK, LoadedIsCurrent
    <3> QED BY <1>1, <3>1 DEF Released
  <2>3. CASE Parallel!ResetCount(p)
    BY <2>3 DEF Parallel!ResetCount, Released, Parallel!TypeOK
  <2> QED BY <2>1, <2>2, <2>3
<1>4. \A q \in Parallel!Participants : Released(q)' = Released(q)
  BY <1>1, <1>2, <1>3 DEF Released
<1>5. \A q \in Parallel!Participants : Before(q)' = Before(q) /\ Between(q)' = Between(q)
  BY <1>1, <1>4 DEF Before, Between
<1>6. InStep'
  BY <1>5, SameHalf DEF WorkersRoundOK
<1>7. PlacesOK'
  BY <1>1, <1>2 DEF WorkersRoundOK, PlacesOK
<1>8. CallsOK'
  BY <1>1 DEF WorkersRoundOK, CallsOK
<1>9. OwedOK'
  BY <1>0, <1>1, <1>5 DEF WorkersRoundOK, OwedOK, Due, Parallel!Round
<1> QED BY <1>6, <1>7, <1>8, <1>9 DEF WorkersRoundOK

(* Opening a barrier takes everybody to the other half of the round.       *)
LEMMA OpenKeepsRound ==
    ASSUME Parallel!TypeOK, BarriersOK, WorkersRoundOK, NEW p \in Parallel!Participants,
           Parallel!Open(p)
    PROVE  WorkersRoundOK'
<1>0. N \in Parallel!Participants /\ Threads \subseteq Parallel!Participants /\ N \notin Threads
  BY WorkersWellFormed DEF Parallel!Participants, Parallel!WellFormed
<1>1. /\ w_at[p] \in Parallel!Barriers
      /\ UNCHANGED <<w_batch_count, w_shutdown, w_left, w_owed>>
  BY DEF Parallel!Open, Parallel!calls
<1>2. /\ \A q \in Parallel!Participants : w_at[q] = w_at[p] /\ ~Released(q)
      /\ \A q \in Parallel!Participants \ {p} : w_at'[q] = w_at[p] /\ Released(q)'
      /\ w_at'[p] = Parallel!Beyond(p) /\ w_step'[p] = "load"
  BY OpenKeepsBarriers
<1>3. CASE w_at[p] = "start"
  <2>1. Before(N) /\ w_at[N] = "start"
    BY <1>0, <1>2, <1>3 DEF Before
  <2>2. w_at'[p] \in IF p = N THEN {IF w_shutdown THEN "join" ELSE "end"} ELSE {"check"}
    BY <1>2, <1>3 DEF Parallel!Beyond
  <2>3. \A q \in Parallel!Participants : Between(q)'
    <3>1. ASSUME NEW q \in Parallel!Participants, q # p PROVE Between(q)'
      BY <1>2, <1>3, <3>1 DEF Between
    <3>2. Between(p)'
      BY <1>2, <2>2 DEF Between, Released
    <3> QED BY <3>1, <3>2
  <2>4. ~Before(N)'
    BY <2>3, <1>0 DEF Before, Between
  <2>5. PlacesOK'
    BY <1>0, <1>2, <1>3, <2>2 DEF PlacesOK, Parallel!Barriers
  <2>6. CallsOK'
    BY <1>0, <1>1, <1>2, <1>3, <2>2 DEF WorkersRoundOK, CallsOK
  <2>7. OwedOK'
    <3> SUFFICES ASSUME NEW w \in Threads
                 PROVE  w_at'[w] \in {"start", "check"} /\ w_owed'[w] = Due'
      BY <2>4 DEF OwedOK
    <3>1. w_owed[w] = Due
      BY <2>1 DEF WorkersRoundOK, OwedOK
    <3> QED BY <3>1, <1>0, <1>1, <1>2, <1>3, <2>2 DEF Due, Parallel!Round
  <2> QED BY <2>3, <2>5, <2>6, <2>7 DEF WorkersRoundOK, InStep
<1>4. CASE w_at[p] = "end"
  <2>1. Between(N) /\ w_at[N] = "end" /\ ~w_shutdown
    BY <1>0, <1>2, <1>4 DEF Between, WorkersRoundOK, CallsOK
  <2>2. w_at'[p] = IF p = N THEN "back" ELSE "start"
    BY <1>2, <1>4 DEF Parallel!Beyond
  <2>3. \A q \in Parallel!Participants : Before(q)'
    <3>1. ASSUME NEW q \in Parallel!Participants, q # p PROVE Before(q)'
      BY <1>2, <1>4, <3>1 DEF Before
    <3>2. Before(p)'
      BY <1>2, <2>2 DEF Before, Released
    <3> QED BY <3>1, <3>2
  <2>4. ~Between(N)' /\ w_at'[N] # "start"
    BY <2>2, <2>3, <1>0, <1>2, <1>4 DEF Before, Between
  <2>5. PlacesOK'
    BY <1>0, <1>2, <1>4, <2>2 DEF PlacesOK, Parallel!Barriers
  <2>6. CallsOK'
    BY <1>0, <1>1, <1>2, <1>4, <2>1, <2>2 DEF CallsOK
  <2>7. OwedOK'
    <3> SUFFICES ASSUME NEW w \in Threads PROVE w_owed'[w] = 0
      BY <2>4 DEF OwedOK
    <3> QED BY <1>0, <1>1, <1>2, <1>4, <2>1 DEF WorkersRoundOK, OwedOK
  <2> QED BY <2>3, <2>5, <2>6, <2>7 DEF WorkersRoundOK, InStep
<1> QED BY <1>1, <1>3, <1>4 DEF Parallel!Barriers
-----------------------------------------------------------------------------
(* A thread that enters another place leaves the halves of the others      *)
(* alone.                                                                  *)
LEMMA EnterSameHalf ==
    ASSUME Parallel!TypeOK, InStep, NEW p \in Parallel!Participants, NEW b, Parallel!Enter(p, b),
           UNCHANGED <<w_gen, w_count, w_generation>>,
           \/ Before(p) /\ b \in {"start", "out", "back"}
           \/ Between(p) /\ b \in {"end", "check", "tick", "join", "gone"}
    PROVE  /\ InStep'
           /\ \A q \in Parallel!Participants : Before(q)' = Before(q) /\ Between(q)' = Between(q)
<1>1. /\ w_at'[p] = b /\ w_step'[p] = "load"
      /\ \A q \in Parallel!Participants \ {p} : w_at'[q] = w_at[q] /\ w_step'[q] = w_step[q]
  BY EnterMoves
<1>2. \A q \in Parallel!Participants \ {p} : Released(q)' = Released(q)
  BY <1>1 DEF Released
<1>3. \A q \in Parallel!Participants \ {p} : Before(q)' = Before(q) /\ Between(q)' = Between(q)
  BY <1>1, <1>2 DEF Before, Between
<1>4. ~Released(p)'
  BY <1>1 DEF Released
<1>5. Before(p)' = Before(p) /\ Between(p)' = Between(p)
  BY <1>1, <1>4 DEF Before, Between
<1>6. \A q \in Parallel!Participants : Before(q)' = Before(q) /\ Between(q)' = Between(q)
  BY <1>3, <1>5
<1>7. InStep'
  BY <1>6, SameHalf
<1> QED BY <1>6, <1>7

(* A released spinner goes on to the half of the round it belongs to.      *)
LEMMA SpinKeepsRound ==
    ASSUME Parallel!TypeOK, WorkersRoundOK, NEW p \in Parallel!Participants, Parallel!Spin(p)
    PROVE  WorkersRoundOK'
<1>0. N \in Parallel!Participants /\ Threads \subseteq Parallel!Participants /\ N \notin Threads
  BY WorkersWellFormed DEF Parallel!Participants, Parallel!WellFormed
<1>1. /\ w_at[p] \in Parallel!Barriers /\ Released(p) /\ Parallel!Enter(p, Parallel!Beyond(p))
      /\ UNCHANGED <<w_gen, w_count, w_generation, w_batch_count, w_shutdown, w_left, w_owed>>
  BY DEF Parallel!Spin, Released, Parallel!Leave, Parallel!barrier, Parallel!calls
<1>2. /\ w_at'[p] = Parallel!Beyond(p) /\ w_step'[p] = "load"
      /\ \A q \in Parallel!Participants \ {p} : w_at'[q] = w_at[q] /\ w_step'[q] = w_step[q]
  BY <1>1, EnterMoves
<1>3. \/ /\ w_at[p] = "start" /\ Between(p)
         /\ Parallel!Beyond(p) = IF p = N THEN IF w_shutdown THEN "join" ELSE "end" ELSE "check"
      \/ w_at[p] = "end" /\ Before(p) /\ Parallel!Beyond(p) = IF p = N THEN "back" ELSE "start"
  BY <1>1 DEF Parallel!Barriers, Before, Between, Parallel!Beyond
<1>4. InStep' /\ \A q \in Parallel!Participants : Before(q)' = Before(q) /\ Between(q)' = Between(q)
  <2>1. \/ Before(p) /\ Parallel!Beyond(p) \in {"start", "out", "back"}
        \/ Between(p) /\ Parallel!Beyond(p) \in {"end", "check", "tick", "join", "gone"}
    BY <1>3
  <2> QED BY <1>1, <2>1, EnterSameHalf DEF WorkersRoundOK
<1>5. PlacesOK'
  BY <1>0, <1>2, <1>3 DEF WorkersRoundOK, PlacesOK, Parallel!Barriers
<1>6. CallsOK'
  BY <1>0, <1>1, <1>2, <1>3 DEF WorkersRoundOK, CallsOK
<1>7. OwedOK'
  <2> SUFFICES ASSUME NEW w \in Threads
               PROVE  /\ Before(N) => w_owed[w] = IF w_at'[N] = "start" THEN Due' ELSE 0
                      /\ Between(N) =>
                            /\ w_at'[w] \in {"start", "check"} => w_owed[w] = Due'
                            /\ w_at'[w] = "tick" => w_owed[w] = w_left[w] /\ ~w_shutdown
                            /\ w_at'[w] = "end" => w_owed[w] = 0 /\ ~w_shutdown
                            /\ w_at'[w] = "gone" => w_owed[w] = 0 /\ w_shutdown
    BY <1>0, <1>1, <1>4 DEF OwedOK
  <2>1. Due' = Due
    BY <1>1 DEF Due, Parallel!Round
  <2>2. CASE p = N
    BY <2>1, <2>2, <1>0, <1>1, <1>2, <1>3 DEF WorkersRoundOK, OwedOK, Before, Between
  <2>3. CASE p # N
    <3>1. Before(N) => w_at[p] = "end" /\ w_at'[N] = w_at[N]
      BY <2>3, <1>0, <1>2, <1>3 DEF WorkersRoundOK, InStep, Before, Between
    <3>2. Between(N) => w_at[p] = "start" /\ w_at'[p] = "check"
      BY <2>3, <1>0, <1>2, <1>3 DEF WorkersRoundOK, InStep, Before, Between
    <3> QED BY <2>1, <2>3, <3>1, <3>2, <1>0, <1>2 DEF WorkersRoundOK, OwedOK
  <2> QED BY <2>2, <2>3
<1> QED BY <1>4, <1>5, <1>6, <1>7 DEF WorkersRoundOK

(* The testbench's own steps: a call gives every worker its edges, and     *)
(* finds none left over.                                                   *)
LEMMA TestbenchKeepsRound ==
    ASSUME Parallel!TypeOK, WorkersRoundOK,
           \/ Parallel!Eval \/ (\E k \in 1..MaxBatch : Parallel!RunCycles(k))
           \/ Parallel!Destroy \/ Parallel!Return \/ Parallel!Join
    PROVE  WorkersRoundOK'
<1>0. N \in Parallel!Participants /\ Threads \subseteq Parallel!Participants /\ N \notin Threads
  BY WorkersWellFormed DEF Parallel!Participants, Parallel!WellFormed
<1>1. ASSUME NEW b \in {"start", "out", "gone"}, Parallel!Enter(N, b),
             UNCHANGED <<w_gen, w_count, w_generation, w_left>>,
             \/ w_at[N] \in {"out", "back"} /\ b \in {"start", "out"}
             \/ w_at[N] = "join" /\ b = "gone" /\ \A w \in Threads : w_at[w] = "gone",
             CallsOK',
             \A w \in Threads : w_at[N] \in {"out", "back"} /\ w_owed[w] = 0
                                     => w_owed'[w] = IF b = "start" THEN Due' ELSE 0,
             w_at[N] = "join" => UNCHANGED <<w_shutdown, w_owed>>
      PROVE  WorkersRoundOK'
  <2>1. /\ w_at'[N] = b /\ w_step'[N] = "load"
        /\ \A q \in Parallel!Participants \ {N} : w_at'[q] = w_at[q] /\ w_step'[q] = w_step[q]
    BY <1>0, <1>1, EnterMoves
  <2>2. \/ Before(N) /\ b \in {"start", "out", "back"}
        \/ Between(N) /\ b \in {"end", "check", "tick", "join", "gone"}
    BY <1>1 DEF Before, Between
  <2>3. /\ InStep'
        /\ \A q \in Parallel!Participants : Before(q)' = Before(q) /\ Between(q)' = Between(q)
    BY <1>0, <1>1, <2>2, EnterSameHalf DEF WorkersRoundOK
  <2>4. PlacesOK'
    BY <1>0, <1>1, <2>1 DEF WorkersRoundOK, PlacesOK, Parallel!Barriers
  <2>5. OwedOK'
    <3> SUFFICES ASSUME NEW w \in Threads
                 PROVE  /\ Before(N)' => w_owed'[w] = IF w_at'[N] = "start" THEN Due' ELSE 0
                        /\ Between(N)' =>
                              /\ w_at'[w] \in {"start", "check"} => w_owed'[w] = Due'
                              /\ w_at'[w] = "tick" => w_owed'[w] = w_left'[w] /\ ~w_shutdown'
                              /\ w_at'[w] = "end" => w_owed'[w] = 0 /\ ~w_shutdown'
                              /\ w_at'[w] = "gone" => w_owed'[w] = 0 /\ w_shutdown'
      BY DEF OwedOK
    <3>1. CASE w_at[N] \in {"out", "back"}
      <4>1. Before(N) /\ ~Between(N) /\ w_owed[w] = 0
        BY <3>1 DEF WorkersRoundOK, OwedOK, Before, Between
      <4> QED BY <1>0, <1>1, <2>1, <2>3, <3>1, <4>1
    <3>2. CASE w_at[N] = "join"
      <4>1. Between(N) /\ ~Before(N)
        BY <3>2 DEF Before, Between
      <4>2. w_owed[w] = 0 /\ w_shutdown /\ w_at'[w] = "gone"
        BY <1>0, <1>1, <2>1, <3>2, <4>1 DEF WorkersRoundOK, OwedOK
      <4> QED BY <1>0, <1>1, <2>1, <2>3, <3>2, <4>1, <4>2
    <3> QED BY <1>1, <3>1, <3>2
  <2> QED BY <1>1, <2>3, <2>4, <2>5 DEF WorkersRoundOK
<1>2. ASSUME w_at[N] = "out" PROVE ~w_shutdown /\ w_batch_count = 0
  BY <1>2 DEF WorkersRoundOK, CallsOK
<1>3. CASE Parallel!Eval
  <2>1. /\ Parallel!Enter(N, "start") /\ w_at'[N] = "start"
        /\ UNCHANGED <<w_gen, w_count, w_generation, w_left, w_batch_count, w_shutdown>>
    BY <1>0, <1>3, EnterMoves DEF Parallel!Eval, Parallel!barrier
  <2>2. Due' = 1 /\ CallsOK'
    BY <1>2, <1>3, <2>1 DEF Parallel!Eval, Due, Parallel!Round, CallsOK
  <2>3. \A w \in Threads : w_owed[w] = 0 => w_owed'[w] = 1
    BY <1>3 DEF Parallel!Eval, Parallel!Clocked
  <2> QED BY <1>1, <1>3, <2>1, <2>2, <2>3 DEF Parallel!Eval
<1>4. ASSUME NEW k \in 1..MaxBatch, Parallel!RunCycles(k) PROVE WorkersRoundOK'
  <2>1. /\ Parallel!Enter(N, "start") /\ w_at'[N] = "start"
        /\ UNCHANGED <<w_gen, w_count, w_generation, w_left, w_shutdown>>
    BY <1>0, <1>4, EnterMoves DEF Parallel!RunCycles, Parallel!barrier
  <2>2. Due' = k /\ CallsOK'
    BY WorkersWellFormed, <1>2, <1>4, <2>1
       DEF Parallel!RunCycles, Due, Parallel!Round, CallsOK, Parallel!WellFormed
  <2>3. \A w \in Threads : w_owed[w] = 0 => w_owed'[w] = k
    BY WorkersWellFormed, <1>4 DEF Parallel!RunCycles, Parallel!Clocked, Parallel!WellFormed
  <2> QED BY <1>1, <1>4, <2>1, <2>2, <2>3 DEF Parallel!RunCycles
<1>5. CASE Parallel!Destroy
  <2>1. /\ Parallel!Enter(N, "start") /\ w_at'[N] = "start" /\ w_shutdown'
        /\ UNCHANGED <<w_gen, w_count, w_generation, w_left, w_batch_count, w_owed>>
    BY <1>0, <1>5, EnterMoves DEF Parallel!Destroy, Parallel!barrier
  <2>2. Due' = 0 /\ CallsOK'
    BY <1>2, <1>5, <2>1 DEF Parallel!Destroy, Due, Parallel!Round, CallsOK
  <2> QED BY <1>1, <1>5, <2>1, <2>2 DEF Parallel!Destroy
<1>6. CASE Parallel!Return
  <2>1. /\ Parallel!Enter(N, "out") /\ w_at'[N] = "out" /\ w_batch_count' = 0 /\ w_at[N] = "back"
        /\ UNCHANGED <<w_gen, w_count, w_generation, w_left, w_shutdown, w_owed>>
    BY <1>0, <1>6, EnterMoves DEF Parallel!Return, Parallel!barrier
  <2>2. CallsOK'
    BY <2>1 DEF WorkersRoundOK, CallsOK
  <2> QED BY <1>1, <2>1, <2>2
<1>7. CASE Parallel!Join
  <2>1. /\ Parallel!Enter(N, "gone") /\ w_at'[N] = "gone" /\ w_at[N] = "join"
        /\ UNCHANGED <<w_gen, w_count, w_generation, w_batch_count, w_left, w_shutdown, w_owed>>
        /\ \A w \in Threads : w_at[w] = "gone" /\ w_at'[w] = "gone"
    BY <1>0, <1>7, EnterMoves DEF Parallel!Join, Parallel!barrier, Parallel!calls
  <2>2. CallsOK'
    BY <2>1 DEF WorkersRoundOK, CallsOK
  <2> QED BY <1>1, <2>1, <2>2
<1> QED BY <1>3, <1>4, <1>5, <1>6, <1>7

(* A worker between the barriers ticks what it owes and no more.           *)
LEMMA WorkerKeepsRound ==
    ASSUME Parallel!TypeOK, WorkersRoundOK, NEW w \in Threads, Parallel!Worker(w)
    PROVE  WorkersRoundOK'
<1>0. /\ N \in Parallel!Participants /\ Threads \subseteq Parallel!Participants
      /\ N \notin Threads /\ w \in Parallel!Participants
  BY WorkersWellFormed DEF Parallel!Participants, Parallel!WellFormed
<1>1. Between(w) /\ Between(N) /\ ~Before(N) /\ w_at[w] \in {"check", "tick"}
  BY <1>0
     DEF Parallel!Worker, Parallel!Check, Parallel!Tick, Parallel!Finish, WorkersRoundOK, InStep,
         Before, Between
<1>2. ASSUME NEW b \in {"gone", "tick", "end"}, Parallel!Enter(w, b),
             UNCHANGED <<w_gen, w_count, w_generation, w_batch_count, w_shutdown, w_owed>>,
             \A v \in Threads \ {w} : w_left'[v] = w_left[v],
             b = "tick" => ~w_shutdown /\ w_owed[w] = w_left'[w],
             b = "end" => ~w_shutdown /\ w_owed[w] = 0,
             b = "gone" => w_shutdown /\ w_owed[w] = 0
      PROVE  WorkersRoundOK'
  <2>1. /\ w_at'[w] = b /\ w_step'[w] = "load"
        /\ \A q \in Parallel!Participants \ {w} : w_at'[q] = w_at[q] /\ w_step'[q] = w_step[q]
    BY <1>0, <1>2, EnterMoves
  <2>2. /\ InStep'
        /\ \A q \in Parallel!Participants : Before(q)' = Before(q) /\ Between(q)' = Between(q)
    BY <1>0, <1>1, <1>2, EnterSameHalf DEF WorkersRoundOK
  <2>3. PlacesOK'
    BY <1>0, <2>1 DEF WorkersRoundOK, PlacesOK, Parallel!Barriers
  <2>4. CallsOK'
    <3>1. w_at'[N] = w_at[N] /\ w_at[N] # "gone"
      BY <1>0, <1>1, <2>1 DEF WorkersRoundOK, CallsOK
    <3> QED BY <1>2, <3>1 DEF WorkersRoundOK, CallsOK
  <2>5. OwedOK'
    <3> SUFFICES ASSUME NEW v \in Threads
                 PROVE  /\ w_at'[v] \in {"start", "check"} => w_owed'[v] = Due'
                        /\ w_at'[v] = "tick" => w_owed'[v] = w_left'[v] /\ ~w_shutdown'
                        /\ w_at'[v] = "end" => w_owed'[v] = 0 /\ ~w_shutdown'
                        /\ w_at'[v] = "gone" => w_owed'[v] = 0 /\ w_shutdown'
      BY <1>0, <1>1, <2>2 DEF OwedOK
    <3>1. CASE v = w
      BY <1>2, <2>1, <3>1
    <3>2. CASE v # w
      <4>1. Due' = Due /\ w_at'[v] = w_at[v] /\ w_left'[v] = w_left[v]
        BY <1>0, <1>2, <2>1, <3>2 DEF Due, Parallel!Round
      <4> QED BY <1>1, <1>2, <4>1 DEF WorkersRoundOK, OwedOK
    <3> QED BY <3>1, <3>2
  <2> QED BY <2>2, <2>3, <2>4, <2>5 DEF WorkersRoundOK
<1>3. CASE Parallel!Check(w)
  <2>1. w_owed[w] = Due
    BY <1>1, <1>3 DEF Parallel!Check, WorkersRoundOK, OwedOK
  <2>2. /\ UNCHANGED <<w_gen, w_count, w_generation, w_batch_count, w_shutdown, w_owed>>
        /\ Parallel!Enter(w, IF w_shutdown THEN "gone" ELSE "tick")
        /\ w_left'[w] = IF w_shutdown THEN w_left[w] ELSE Parallel!Round
        /\ \A v \in Threads \ {w} : w_left'[v] = w_left[v]
    BY <1>3 DEF Parallel!Check, Parallel!barrier, Parallel!TypeOK
  <2>3. CASE w_shutdown
    BY <1>2, <2>1, <2>2, <2>3 DEF Due
  <2>4. CASE ~w_shutdown
    BY <1>2, <2>1, <2>2, <2>4 DEF Due
  <2> QED BY <2>3, <2>4
<1>4. CASE Parallel!Finish(w)
  <2>1. w_owed[w] = 0 /\ ~w_shutdown
    BY <1>1, <1>4 DEF Parallel!Finish, WorkersRoundOK, OwedOK
  <2>2. /\ Parallel!Enter(w, "end")
        /\ UNCHANGED <<w_gen, w_count, w_generation, w_batch_count, w_shutdown, w_owed, w_left>>
    BY <1>4 DEF Parallel!Finish, Parallel!barrier, Parallel!calls
  <2> QED BY <1>2, <2>1, <2>2
<1>5. CASE Parallel!Tick(w)
  <2>1. UNCHANGED <<w_at, w_step, w_gen, w_count, w_generation, w_batch_count, w_shutdown>>
    BY <1>5 DEF Parallel!Tick, Parallel!barrier
  <2>2. \A q \in Parallel!Participants : Before(q)' = Before(q) /\ Between(q)' = Between(q)
    BY <2>1 DEF Before, Between, Released
  <2>3. InStep' /\ PlacesOK' /\ CallsOK'
    BY <2>1, <2>2, SameHalf DEF WorkersRoundOK, PlacesOK, CallsOK
  <2>4. OwedOK'
    <3> SUFFICES ASSUME NEW v \in Threads
                 PROVE  /\ w_at[v] \in {"start", "check"} => w_owed'[v] = Due
                        /\ w_at[v] = "tick" => w_owed'[v] = w_left'[v] /\ ~w_shutdown
                        /\ w_at[v] = "end" => w_owed'[v] = 0 /\ ~w_shutdown
                        /\ w_at[v] = "gone" => w_owed'[v] = 0 /\ w_shutdown
      BY <1>0, <1>1, <2>1, <2>2 DEF OwedOK, Due, Parallel!Round
    <3>1. CASE v = w
      BY <1>1, <1>5, <3>1 DEF Parallel!Tick, WorkersRoundOK, OwedOK, Parallel!TypeOK
    <3>2. CASE v # w
      BY <1>1, <1>5, <3>2 DEF Parallel!Tick, WorkersRoundOK, OwedOK, Parallel!TypeOK
    <3> QED BY <3>1, <3>2
  <2> QED BY <2>3, <2>4 DEF WorkersRoundOK
<1> QED BY <1>3, <1>4, <1>5 DEF Parallel!Worker

(* Every step keeps the barriers consistent.                               *)
LEMMA BarriersStep ==
    ASSUME Parallel!TypeOK, BarriersOK, PlacesOK, Parallel!Next, ~Parallel!Construct
    PROVE  BarriersOK'
<1>0. N \in Parallel!Participants /\ Threads \subseteq Parallel!Participants
  BY DEF Parallel!Participants
<1>1. ASSUME NEW p \in Parallel!Participants, Parallel!LoadGeneration(p) PROVE BarriersOK'
  <2>1. w_step[p] = "load" /\ w_step'[p] = "arrive" /\ w_gen'[p] = w_generation[w_at'[p]]
    BY <1>1 DEF Parallel!LoadGeneration, Parallel!TypeOK
  <2>2. \A q \in Parallel!Participants \ {p} :
              w_at'[q] = w_at[q] /\ w_step'[q] = w_step[q] /\ w_gen'[q] = w_gen[q]
    BY <1>1 DEF Parallel!LoadGeneration, Parallel!TypeOK
  <2> QED BY <1>1, <2>1, <2>2, MoveKeepsBarriers DEF Parallel!LoadGeneration, Parallel!barrier
<1>2. ASSUME NEW p \in Parallel!Participants, NEW b, Parallel!Enter(p, b),
             w_step[p] = "load" \/ Released(p),
             UNCHANGED <<w_gen, w_count, w_generation>>
      PROVE  BarriersOK'
  <2>1. /\ w_step'[p] = "load"
        /\ \A q \in Parallel!Participants \ {p} :
                 w_at'[q] = w_at[q] /\ w_step'[q] = w_step[q] /\ w_gen'[q] = w_gen[q]
    BY <1>2, EnterMoves
  <2> QED BY <1>2, <2>1, MoveKeepsBarriers
<1>3. ASSUME NEW p \in Parallel!Participants, Parallel!Spin(p) PROVE BarriersOK'
  BY <1>2, <1>3 DEF Parallel!Spin, Released, Parallel!Leave, Parallel!barrier
<1>4. CASE \/ Parallel!Eval \/ (\E k \in 1..MaxBatch : Parallel!RunCycles(k))
           \/ Parallel!Destroy \/ Parallel!Return \/ Parallel!Join
  <2>1. w_step[N] = "load"
    BY <1>0, <1>4
       DEF PlacesOK, Parallel!Barriers, Parallel!Eval, Parallel!RunCycles, Parallel!Destroy,
           Parallel!Return, Parallel!Join
  <2>2. \E b \in {"start", "out", "gone"} :
              Parallel!Enter(N, b) /\ UNCHANGED <<w_gen, w_count, w_generation>>
    BY <1>4
       DEF Parallel!Eval, Parallel!RunCycles, Parallel!Destroy, Parallel!Return, Parallel!Join,
           Parallel!barrier
  <2> QED BY <1>0, <1>2, <2>1, <2>2
<1>5. ASSUME NEW w \in Threads, Parallel!Check(w) \/ Parallel!Finish(w) PROVE BarriersOK'
  <2>1. w_step[w] = "load"
    BY <1>0, <1>5 DEF PlacesOK, Parallel!Barriers, Parallel!Check, Parallel!Finish
  <2>2. \E b \in {"gone", "tick", "end"} :
              Parallel!Enter(w, b) /\ UNCHANGED <<w_gen, w_count, w_generation>>
    BY <1>5 DEF Parallel!Check, Parallel!Finish, Parallel!barrier
  <2> QED BY <1>0, <1>2, <2>1, <2>2
<1>6. ASSUME NEW w \in Threads, Parallel!Tick(w) PROVE BarriersOK'
  BY <1>6
     DEF Parallel!Tick, Parallel!barrier, BarriersOK, CountsArrivals, LoadedIsCurrent, LastIsAlone,
         Arrived, Opening
<1> QED
  BY <1>1, <1>3, <1>4, <1>5, <1>6, ArriveKeepsBarriers, ResetKeepsBarriers, OpenKeepsBarriers
  DEF Parallel!Next, Parallel!Wait, Parallel!Testbench, Parallel!Worker

(* The invariant is inductive.                                             *)
LEMMA WorkersStep ==
    ASSUME WorkersInv, [Parallel!Next]_Parallel!vars
    PROVE  WorkersInv'
<1>1. CASE Parallel!Construct
  BY <1>1, ConstructStarts
<1>2. CASE Parallel!Next /\ ~Parallel!Construct
  <2>1. Parallel!TypeOK'
    BY <1>2, WorkersTypeStep DEF WorkersInv
  <2>2. BarriersOK'
    BY <1>2, BarriersStep DEF WorkersInv, WorkersRoundOK
  <2>3. WorkersRoundOK'
    BY <1>2, WaitKeepsRound, OpenKeepsRound, SpinKeepsRound, TestbenchKeepsRound, WorkerKeepsRound
    DEF WorkersInv, Parallel!Next, Parallel!Wait, Parallel!Testbench
  <2> QED BY <2>1, <2>2, <2>3 DEF WorkersInv
<1>3. CASE UNCHANGED Parallel!vars
  BY <1>3
     DEF Parallel!vars, Parallel!barrier, Parallel!calls, WorkersInv, Parallel!TypeOK, BarriersOK,
         CountsArrivals, LoadedIsCurrent, LastIsAlone, Arrived, Opening, WorkersRoundOK, PlacesOK,
         InStep, Before, Between, Released, CallsOK, OwedOK, Due, Parallel!Round
<1> QED BY <1>1, <1>2, <1>3

(* The workers of the thread simulator: for any number of threads and any  *)
(* mix of eval(), run_cycles() and destruction, every worker ticks exactly *)
(* the clocked edges, none is ahead, and when a call returns none touches  *)
(* the design.                                                             *)
THEOREM WorkersDoEdges ==
    LocksSpec => []EdgesDone
<1>1. LocksInit => WorkersInv
  BY WorkersStart DEF LocksInit
<1>2. WorkersInv /\ [LocksNext]_<<resource, mutex_vars, sem_vars, user_vars, sim_vars, worker_vars>>
         => WorkersInv'
  <2> SUFFICES ASSUME WorkersInv,
                      [LocksNext]_<<resource, mutex_vars, sem_vars, user_vars, sim_vars,
                                    worker_vars>>
               PROVE  WorkersInv'
    OBVIOUS
  <2>1. UNCHANGED worker_vars => UNCHANGED Parallel!vars
    BY DEF worker_vars, Parallel!vars, Parallel!barrier, Parallel!calls
  <2>2. Parallel!Next \/ UNCHANGED worker_vars
    BY DEF LocksNext, Mutex, Semaphore, UserArbiter, SimulatedLock, SimulatedEdges
  <2> QED BY <2>1, <2>2, WorkersStep
<1>3. WorkersInv => EdgesDone
  BY InvGivesEdgesDone DEF EdgesDone
<1> QED BY <1>1, <1>2, <1>3, PTL DEF LocksSpec

(* A thread in wait() sees the barrier open only after all have arrived,   *)
(* and the reset of the counter never loses an arrival.                    *)
THEOREM BarriersCount ==
    LocksSpec => [](Parallel!TypeOK /\ CountsArrivals /\ InStep)
<1>1. LocksInit => WorkersInv
  BY WorkersStart DEF LocksInit
<1>2. WorkersInv /\ [LocksNext]_<<resource, mutex_vars, sem_vars, user_vars, sim_vars, worker_vars>>
         => WorkersInv'
  <2> SUFFICES ASSUME WorkersInv,
                      [LocksNext]_<<resource, mutex_vars, sem_vars, user_vars, sim_vars,
                                    worker_vars>>
               PROVE  WorkersInv'
    OBVIOUS
  <2>1. UNCHANGED worker_vars => UNCHANGED Parallel!vars
    BY DEF worker_vars, Parallel!vars, Parallel!barrier, Parallel!calls
  <2>2. Parallel!Next \/ UNCHANGED worker_vars
    BY DEF LocksNext, Mutex, Semaphore, UserArbiter, SimulatedLock, SimulatedEdges
  <2> QED BY <2>1, <2>2, WorkersStep
<1>3. WorkersInv => Parallel!TypeOK /\ CountsArrivals /\ InStep
  BY DEF WorkersInv, BarriersOK, WorkersRoundOK
<1> QED BY <1>1, <1>2, <1>3, PTL DEF LocksSpec
=============================================================================
