--------------------------- MODULE SimSynchronizer ---------------------------
(***************************************************************************)
(* The C++ synchronizer class of sim_codegen/synchronizer.rs, in lock step *)
(* with the emitted circuit: every step of the circuit is one call of      *)
(* eval(), every fall of a clock and every settling pass another one.      *)
(***************************************************************************)
EXTENDS Synchronizer

CONSTANT CDC_RANDOM     \* --cdc-random: a destination edge may be skipped

VARIABLES
    clk,        \* levels of <<src_clk, dst_clk>>
    sim,        \* the fields of the C++ object
    owed,       \* pulses in minus pulses seen at the circuit's output
    sim_owed,   \* the same for the C++ object
    window,     \* per gray stage, the values data_in had at its sampling
    quiet       \* destination edges since data_in of kind reset fell

simVars == <<vars, clk, sim, owed, sim_owed, window, quiet>>

(* Field initialisers: all zero, the reset kind included.                  *)
Object ==
    [clk_prev |-> <<FALSE, FALSE>>, stage |-> Filled(Low),
     data_reg |-> Low, data_out_reg |-> Low, req_src |-> Low, ack_src |-> Low,
     ack_dst |-> Low, ack_sync |-> Filled(Low), sync_prev |-> Low,
     data_out |-> Low]

(* The if (rst) block clears both domains at an edge of either clock.      *)
SimReset(c) == [Object EXCEPT !.clk_prev = c.clk_prev, !.data_out = c.data_out]

SimSource(c, rising) ==
    IF ~rising THEN c
    ELSE IF kind = "handshake"
    THEN LET latch == data_in # c.data_reg /\ c.req_src = c.ack_src
             acks  == Shift(c.ack_sync, c.ack_dst)
         IN  [c EXCEPT !.data_reg = IF latch THEN data_in ELSE @,
                       !.req_src = IF latch THEN Invert(@) ELSE @,
                       !.ack_sync = acks, !.ack_src = acks[STAGES]]
    ELSE IF kind = "pulse" /\ data_in = High
    THEN [c EXCEPT !.req_src = Invert(@)]
    ELSE c

(* before is the object as the call found it, c after the source block.    *)
(* handshake samples the source registers of before, pulse those of c.     *)
FreshHandshake(before, c) == c
BeforeHandshake(before, c) == before
PrevAfterShift(c) == c.stage[STAGES - 1]
PrevBeforeShift(c) == c.stage[STAGES]
SimDestination(before, c, rising) ==
    IF ~rising THEN c
    ELSE LET lastStage == c.stage[STAGES]
             from == BeforeHandshake(before, c)
    IN  CASE kind = "ff"    -> [c EXCEPT !.stage = Shift(@, data_in)]
          [] kind = "gray"  -> [c EXCEPT !.stage = Shift(@, bin_to_gray(data_in))]
          [] kind = "pulse" -> [c EXCEPT !.sync_prev = PrevBeforeShift(c),
                                         !.stage = Shift(@, c.req_src)]
          [] kind = "handshake" ->
               [c EXCEPT !.data_out_reg = IF lastStage # c.ack_dst THEN from.data_reg ELSE @,
                         !.ack_dst = lastStage,
                         !.stage = Shift(@, from.req_src)]

(* eval_posedge(): input is data_in, skip the outcome of the LFSR.         *)
EvalPosedge(c, level, input, skip) ==
    LET rising == <<level[1] /\ ~c.clk_prev[1], level[2] /\ ~c.clk_prev[2]>>
        o == [c EXCEPT !.clk_prev = level]
    IN  IF kind = "reset"
        THEN IF input = High THEN [o EXCEPT !.stage = Filled(High)]
             ELSE IF rising[2] /\ ~skip THEN [o EXCEPT !.stage = Shift(@, Low)] ELSE o
        ELSE IF ~rising[1] /\ ~rising[2] THEN o
        ELSE IF rst THEN SimReset(o)
        ELSE SimDestination(o, SimSource(o, rising[1]), rising[2] /\ ~skip)

(* eval_comb(): gray decodes by doubling shifts; n counts the passes of    *)
(* the loop that writes them.                                              *)
Doubling(g) ==
    LET after[n \in 0..WIDTH] ==
            IF n = 0 THEN [b |-> g, shift |-> 1]
            ELSE LET p == after[n - 1]
                 IN  IF p.shift < WIDTH
                     THEN [b |-> Xor(p.b, ShiftRight(p.b, p.shift)), shift |-> 2 * p.shift]
                     ELSE p
    IN  after[WIDTH].b
EvalComb(c) ==
    [c EXCEPT !.data_out =
        CASE kind = "gray"      -> Doubling(c.stage[STAGES])
          [] kind = "handshake" -> c.data_out_reg
          [] kind = "pulse"     -> Xor(c.stage[STAGES], c.sync_prev)
          [] OTHER              -> c.stage[STAGES]]

eval(level, input) ==
    \E skip \in (IF CDC_RANDOM THEN BOOLEAN ELSE {FALSE}) :
        sim' = IF metastable THEN sim
               ELSE EvalComb(EvalPosedge(sim, level, input, skip))
-----------------------------------------------------------------------------
SimInit ==
    /\ Init /\ clk = <<FALSE, FALSE>>
    /\ sim = IF metastable THEN Object
             ELSE EvalComb(EvalPosedge(Object, <<FALSE, FALSE>>, data_in, FALSE))
    /\ owed = 0 /\ sim_owed = 0
    /\ window = Filled({Low}) /\ quiet = 0

(* One pulse is due for each toggle, one is paid for each destination edge *)
(* that finds the output high.                                             *)
Due(n, input, dst, output) ==
    n + (IF input THEN 1 ELSE 0) - (IF dst /\ output = High THEN 1 ELSE 0)

(* Clocks rise: the circuit and the object both see the edges.             *)
Rise(src, dst) ==
    LET level  == <<clk[1] \/ src, clk[2] \/ dst>>
        toggle == src /\ data_in = High
    IN  /\ src => ~clk[1]
        /\ dst => ~clk[2]
        /\ Edges(src, dst)
        /\ clk' = level
        /\ eval(level, data_in)
        /\ IF kind = "pulse" /\ ~rst
           THEN /\ owed' = Due(owed, toggle, dst, data_out)
                /\ sim_owed' = IF metastable THEN 0
                               ELSE Due(sim_owed, toggle, dst, sim.data_out)
           ELSE owed' = 0 /\ sim_owed' = 0
        /\ window' = IF kind # "gray" \/ ~dst THEN window
                     ELSE IF rst THEN Filled({Low})
                     ELSE Shift(window, {data_in, data_in'})
        /\ quiet' = IF kind = "reset" /\ dst /\ data_in = Low /\ quiet < STAGES
                    THEN quiet + 1 ELSE quiet

(* Clocks fall, or the parent settles: eval() without a rising edge.       *)
Settle ==
    /\ \E s, d \in BOOLEAN :
          /\ clk' = <<clk[1] /\ s, clk[2] /\ d>>
          /\ eval(clk', data_in)
    /\ UNCHANGED <<vars, owed, sim_owed, window, quiet>>

Asynchronous ==
    /\ AssertReset \/ ReleaseReset \/ AsyncInput
    /\ eval(clk, data_in')
    /\ quiet' = IF data_in' = High THEN 0 ELSE quiet
    /\ window' = IF rst' THEN Filled({Low}) ELSE window
    /\ owed' = IF rst' THEN 0 ELSE owed
    /\ sim_owed' = IF rst' THEN 0 ELSE sim_owed
    /\ UNCHANGED clk

SimNext == (\E src, dst \in BOOLEAN : Rise(src, dst)) \/ Settle \/ Asynchronous
SimSpec == SimInit /\ [][SimNext]_simVars
SimFairSpec ==
    /\ SimSpec
    /\ WF_simVars(\E dst \in BOOLEAN : Rise(TRUE, dst))
    /\ WF_simVars(\E src \in BOOLEAN : Rise(src, TRUE))
    /\ WF_simVars(clk[1] /\ Settle /\ ~clk'[1]) /\ WF_simVars(clk[2] /\ Settle /\ ~clk'[2])
    /\ WF_simVars(ReleaseReset /\ Asynchronous)
-----------------------------------------------------------------------------
(* kind gray: the output is a value the counter had at one sampling edge,  *)
(* although the bits were sampled independently.                           *)
GrayIsCoherent ==
    kind = "gray" /\ ~rst => \A i \in 1..STAGES : gray_to_bin(chain[i]) \in window[i]

(* kind pulse: a high output is a pulse that was sent and not yet seen,    *)
(* and when nothing is under way every pulse has been seen: spaced pulses  *)
(* are neither lost nor doubled.                                           *)
PulsesConserved ==
    kind = "pulse" /\ ~rst =>
        /\ data_out = High => owed > 0
        /\ (\A i \in 1..STAGES : chain[i] = req_src) => owed = 0

(* kind reset: asserted with its input, released only after STAGES edges   *)
(* of the destination clock without it.                                    *)
ReleaseIsSynchronous ==
    kind = "reset" =>
        /\ data_in = High => data_out = High
        /\ data_out = Low => quiet = STAGES

(* Out of reset the C++ object shows the circuit's output after every      *)
(* call, when the clocks coincide, settling passes included; only kind     *)
(* pulse has a timing of its own.                                          *)
SimAgrees == ~metastable /\ ~rst /\ kind # "pulse" => sim.data_out = data_out

(* The C++ pulse synchronizer: the output is high for at most one          *)
(* destination cycle per source pulse, a "single-cycle pulse".             *)
SimPulsesNotDoubled ==
    kind = "pulse" /\ ~metastable /\ ~rst => (sim.data_out = High => sim_owed > 0)

(* Without --cdc-random, spaced pulses are neither doubled nor lost.       *)
SimPulsesConserved ==
    /\ SimPulsesNotDoubled
    /\ kind = "pulse" /\ ~metastable /\ ~rst =>
          ((\A i \in 1..STAGES : sim.stage[i] = sim.req_src) /\ sim.sync_prev = sim.req_src
               => sim_owed = 0)

(* Gray words are coherent, spaced pulses are neither lost nor doubled,    *)
(* resets are released in step with the destination clock.                 *)
CrossingsAreClean ==
    GrayIsCoherent /\ PulsesConserved /\ SimPulsesConserved /\ ReleaseIsSynchronous
=============================================================================
