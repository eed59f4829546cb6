------------------------------ MODULE Arbiter ------------------------------
(***************************************************************************)
(* A user-declared `arbiter`: the SystemVerilog of emit_arbiter            *)
(* (codegen/arbiter.rs) with its grant pipeline for `latency` above 1, and *)
(* the C++ class of gen_arbiter (sim_codegen/arbiter.rs) driven by the     *)
(* same clock and requests.  Requesters keep valid up until ready.         *)
(***************************************************************************)
EXTENDS Integers, Sequences, FiniteSets

CONSTANTS
    NUM_REQ,
    Latencies,          \* declared latencies under test
    Policies,           \* subset of {"round_robin", "priority", "custom"};
                        \* lru is emitted as the first, weighted as the second
    grant_select(_, _)  \* the bound hook: request mask, last grant mask

Requesters == 0..(NUM_REQ - 1)

VARIABLES
    policy, latency,        \* the declaration
    clk, request_valid,     \* inputs
    rr_ptr_r, last_grant_r, pipe,       \* registers of the circuit
    sim,                    \* fields of the C++ object
    served, asked, waited   \* ready at the last edge; request masks in the
                            \* pipeline; edges a requester has waited
                            \* (counted for round_robin, where it is bounded)

design == <<policy, latency>>
registers == <<rr_ptr_r, last_grant_r, pipe>>
vars == <<design, clk, request_valid, registers, sim, served, asked, waited>>

Grant(valid, requester, ready) == [valid |-> valid, requester |-> requester, ready |-> ready]
NoGrant == Grant(FALSE, 0, {})

First(mask, start) ==
    CHOOSE i \in mask : \A j \in mask : (i - start) % NUM_REQ <= (j - start) % NUM_REQ
Highest(mask) == CHOOSE i \in mask : \A j \in mask : j <= i
GrantOneWithoutWrap(mask, start) ==
    LET ahead == {i \in mask : i >= start}
    IN  IF ahead = {} THEN NoGrant ELSE Grant(TRUE, First(ahead, start), {First(ahead, start)})
GrantOne(mask, start) ==
    IF mask = {} THEN NoGrant ELSE Grant(TRUE, First(mask, start), {First(mask, start)})
GrantMask(mask) == IF mask = {} THEN NoGrant ELSE Grant(TRUE, Highest(mask), mask)

(* The always_comb block of each policy.                                   *)
comb ==
    CASE policy = "round_robin" -> GrantOne(request_valid, rr_ptr_r)
      [] policy = "priority"    -> GrantOne(request_valid, 0)
      [] policy = "custom"      -> GrantMask(grant_select(request_valid, last_grant_r))

(* The output ports: the last of latency - 1 registers, or comb itself.    *)
output == IF latency > 1 THEN pipe[latency - 1] ELSE comb

Shift(p, first) == [s \in DOMAIN p |-> IF s = 1 THEN first ELSE p[s - 1]]

AdvanceToGrantee == comb.requester
AdvancePastGrantee == (comb.requester + 1) % NUM_REQ

Edge ==
    /\ rr_ptr_r' = IF policy = "round_robin" /\ comb.valid THEN AdvancePastGrantee ELSE rr_ptr_r
    /\ last_grant_r' = IF policy = "custom" /\ comb.valid THEN comb.ready ELSE last_grant_r
    /\ pipe' = Shift(pipe, comb)

ResetEdge ==
    rr_ptr_r' = 0 /\ last_grant_r' = {} /\ pipe' = [s \in DOMAIN pipe |-> NoGrant]
-----------------------------------------------------------------------------
(* The C++ object.  chain[1] is what the grant logic drives and            *)
(* chain[latency] the output fields.                                       *)
Object ==
    [clk_prev |-> FALSE, last_grant |-> NUM_REQ - 1, last_grant_onehot |-> {},
     grant_onehot |-> {}, chain |-> [s \in 1..latency |-> NoGrant]]

EvalComb(o, mask) ==
    LET onehot == IF policy = "custom" THEN grant_select(mask, o.last_grant_onehot) ELSE {}
        grant  == CASE policy = "round_robin" -> GrantOne(mask, (o.last_grant + 1) % NUM_REQ)
                    [] policy = "priority"    -> GrantOne(mask, 0)
                    [] policy = "custom"      -> GrantMask(onehot)
    IN  [o EXCEPT !.grant_onehot = onehot, !.chain[1] = grant]

(* Shifted back to front: every stage takes its source's old value.        *)
ShiftFrontToBack(chain) == [s \in DOMAIN chain |-> chain[1]]
ShiftBackToFront(chain) == [s \in DOMAIN chain |-> IF s = 1 THEN chain[1] ELSE chain[s - 1]]

EvalPosedge(o, level, rst) ==
    LET driven == o.chain[1]
        p == [o EXCEPT !.clk_prev = level]
    IN  IF ~(level /\ ~o.clk_prev) THEN p
        ELSE IF rst
        THEN [p EXCEPT !.last_grant = NUM_REQ - 1, !.last_grant_onehot = {},
                       !.chain = [s \in 1..latency |-> IF s = 1 THEN driven ELSE NoGrant]]
        ELSE [p EXCEPT !.last_grant = IF driven.valid THEN driven.requester ELSE @,
                       !.last_grant_onehot = IF driven.valid THEN o.grant_onehot ELSE @,
                       !.chain = ShiftBackToFront(@)]

eval(level, mask, rst) == EvalComb(EvalPosedge(sim, level, rst), mask)
sim_output == sim.chain[latency]
-----------------------------------------------------------------------------
Init ==
    /\ policy \in Policies /\ latency \in Latencies
    /\ clk = FALSE /\ request_valid = {}
    /\ rr_ptr_r = 0 /\ last_grant_r = {}
    /\ pipe = [s \in 1..(latency - 1) |-> NoGrant]
    /\ sim = EvalComb(Object, {})
    /\ served = {} /\ asked = [s \in 1..(latency - 1) |-> {}]
    /\ waited = [i \in Requesters |-> 0]

(* The clock is low and the requesters drive: one that was not served may  *)
(* not withdraw.                                                           *)
Drive ==
    /\ ~clk
    /\ \E mask \in SUBSET Requesters :
          /\ request_valid \ served \subseteq mask
          /\ request_valid' = mask
          /\ sim' = eval(FALSE, mask, FALSE)
    /\ served' = {}
    /\ UNCHANGED <<design, clk, registers, asked, waited>>

Rise ==
    /\ ~clk /\ clk' = TRUE
    /\ Edge
    /\ sim' = eval(TRUE, request_valid, FALSE)
    /\ served' = output.ready
    /\ asked' = Shift(asked, request_valid)
    /\ waited' = [i \in Requesters |->
                     IF policy = "round_robin" /\ i \in request_valid \ output.ready
                     THEN waited[i] + 1 ELSE 0]
    /\ UNCHANGED <<design, request_valid>>

RiseInReset ==
    /\ ~clk /\ clk' = TRUE
    /\ ResetEdge
    /\ sim' = eval(TRUE, request_valid, TRUE)
    /\ served' = Requesters
    /\ asked' = [s \in DOMAIN asked |-> {}]
    /\ waited' = [i \in Requesters |-> 0]
    /\ UNCHANGED <<design, request_valid>>

(* The clock falls, or the parent settles with the clock up.               *)
Fall ==
    /\ clk /\ clk' \in BOOLEAN
    /\ sim' = eval(clk', request_valid, FALSE)
    /\ UNCHANGED <<design, request_valid, registers, served, asked, waited>>

Next == Drive \/ Rise \/ RiseInReset \/ Fall
Spec == Init /\ [][Next]_vars
-----------------------------------------------------------------------------
(* A grant on the ports answers a request made latency - 1 edges earlier,  *)
(* names the requester it readies, and a request is never passed over for  *)
(* nothing: no grant means that nobody had asked (built-in policies).      *)
askedFor == IF latency > 1 THEN asked[latency - 1] ELSE request_valid
GrantsAnswerRequests ==
    /\ output.ready \subseteq askedFor
    /\ output.valid => output.requester \in output.ready
    /\ policy # "custom" => (output.valid <=> askedFor # {}) /\ Cardinality(output.ready) <= 1

(* round_robin: however the others behave, a request is readied after at   *)
(* most NUM_REQ - 1 other grants and the pipeline's latency - 1 edges.     *)
ServedInTime ==
    policy = "round_robin" =>
        \A i \in Requesters : waited[i] <= NUM_REQ - 1 + latency - 1

(* After every call of eval() the C++ object shows the circuit's outputs.  *)
SimAgrees == sim_output = output
=============================================================================
