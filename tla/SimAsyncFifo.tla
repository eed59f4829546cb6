---------------------------- MODULE SimAsyncFifo ----------------------------
(***************************************************************************)
(* The C++ model of a dual-clock fifo: the is_async paths of gen_fifo in   *)
(* sim_codegen/fifo.rs.  eval() detects the rising edges of wr_clk and     *)
(* rd_clk itself and runs eval_posedge_dual(), push side before pop side,  *)
(* on the output fields of the previous eval_comb(); pointer synchronizers *)
(* are not modelled by the simulator.                                      *)
(***************************************************************************)
EXTENDS Integers

CONSTANTS DEPTH, Data, NoData

VARIABLES
    latency,    \* of the declaration: 0 combinational, 1 registered read port
    mem, wr_ptr, rd_ptr,
    pop_data_r, pop_data_valid,         \* latency 1 only
    clk_prev_wr, clk_prev_rd,
    push_ready, pop_valid, pop_data,    \* output fields
    pushed, popped                      \* words of the last edges

storage == <<mem, wr_ptr, rd_ptr, pop_data_r, pop_data_valid>>
vars == <<latency, storage, clk_prev_wr, clk_prev_rd, push_ready, pop_valid, pop_data,
          pushed, popped>>

NextPtrAtDepth(p) == IF p + 1 >= DEPTH THEN 0 ELSE p + 1
NextPtr(p) == IF p + 1 >= 2 * DEPTH THEN 0 ELSE p + 1
Distance(wr, rd) == IF wr >= rd THEN wr - rd ELSE 2 * DEPTH - rd + wr

Init ==
    /\ latency \in {0, 1}
    /\ mem = [i \in 0..(DEPTH - 1) |-> NoData]
    /\ wr_ptr = 0 /\ rd_ptr = 0
    /\ pop_data_r = NoData /\ pop_data_valid = FALSE
    /\ clk_prev_wr = FALSE /\ clk_prev_rd = FALSE
    /\ push_ready = FALSE /\ pop_valid = FALSE /\ pop_data = NoData
    /\ pushed = NoData /\ popped = NoData

PushSide(push, push_data) ==
    /\ mem' = IF push THEN [mem EXCEPT ![wr_ptr % DEPTH] = push_data] ELSE mem
    /\ wr_ptr' = IF push THEN NextPtr(wr_ptr) ELSE wr_ptr
    /\ pushed' = IF push THEN push_data ELSE NoData

(* The pop side reads the memory and write pointer the push side has just  *)
(* updated.                                                                *)
RegisteredPopSameWord(rd_rising, pop_ready) ==
    LET pop  == rd_rising /\ pop_data_valid /\ pop_ready
        load == rd_rising /\ (~pop_data_valid \/ pop_ready)
    IN  /\ rd_ptr' = IF pop THEN NextPtr(rd_ptr) ELSE rd_ptr
        /\ pop_data_valid' = IF load THEN rd_ptr' # wr_ptr' ELSE pop_data_valid
        /\ pop_data_r' = IF load THEN mem'[rd_ptr % DEPTH] ELSE pop_data_r
        /\ popped' = IF pop THEN pop_data ELSE NoData
RegisteredPop(rd_rising, pop_ready) ==
    LET pop  == rd_rising /\ pop_data_valid /\ pop_ready
        load == rd_rising /\ (~pop_data_valid \/ pop_ready)
    IN  /\ rd_ptr' = IF pop THEN NextPtr(rd_ptr) ELSE rd_ptr
        /\ pop_data_valid' = IF load THEN rd_ptr' # wr_ptr' ELSE pop_data_valid
        /\ pop_data_r' = IF load /\ rd_ptr' # wr_ptr'
                         THEN mem'[rd_ptr' % DEPTH] ELSE pop_data_r
        /\ popped' = IF pop THEN pop_data ELSE NoData

DirectPop(rd_rising, pop_ready) ==
    LET pop == rd_rising /\ pop_ready /\ pop_valid
    IN  /\ rd_ptr' = IF pop THEN NextPtr(rd_ptr) ELSE rd_ptr
        /\ popped' = IF pop THEN pop_data ELSE NoData
        /\ UNCHANGED <<pop_data_r, pop_data_valid>>

PosedgeDual(wr_rising, rd_rising, push_valid, push_data, pop_ready) ==
    /\ PushSide(wr_rising /\ push_valid /\ push_ready, push_data)
    /\ IF latency = 1 THEN RegisteredPop(rd_rising, pop_ready)
       ELSE DirectPop(rd_rising, pop_ready)

ResetDual ==
    /\ wr_ptr' = 0 /\ rd_ptr' = 0 /\ pop_data_valid' = FALSE
    /\ pushed' = NoData /\ popped' = NoData
    /\ UNCHANGED <<mem, pop_data_r>>

EvalComb ==
    LET count == Distance(wr_ptr', rd_ptr')
    IN  /\ push_ready' = ~(count >= DEPTH)
        /\ pop_valid' = IF latency = 1 THEN pop_data_valid' ELSE count # 0
        /\ pop_data' = IF latency = 1 THEN pop_data_r' ELSE mem'[rd_ptr' % DEPTH]

(* eval() with the two clock levels and the inputs the testbench has set.  *)
Eval(wr_clk, rd_clk, rst, push_valid, push_data, pop_ready) ==
    LET wr_rising == wr_clk /\ ~clk_prev_wr
        rd_rising == rd_clk /\ ~clk_prev_rd
    IN  /\ clk_prev_wr' = wr_clk /\ clk_prev_rd' = rd_clk
        /\ \/ /\ ~(wr_rising \/ rd_rising)
              /\ UNCHANGED <<storage, pushed, popped>>
           \/ (wr_rising \/ rd_rising) /\ rst /\ ResetDual
           \/ /\ (wr_rising \/ rd_rising) /\ ~rst
              /\ PosedgeDual(wr_rising, rd_rising, push_valid, push_data, pop_ready)
        /\ EvalComb /\ UNCHANGED latency

Next == \E wr_clk, rd_clk, rst, push_valid, pop_ready \in BOOLEAN, push_data \in Data :
            Eval(wr_clk, rd_clk, rst, push_valid, push_data, pop_ready)

Spec == Init /\ [][Next]_vars
-----------------------------------------------------------------------------
Stored == [i \in 1..Distance(wr_ptr, rd_ptr) |-> mem[(rd_ptr + i - 1) % DEPTH]]

(* The offered word is the head of the stored words, and with latency 1    *)
(* the prefetched register never outlives it.                              *)
HeadIsFresh ==
    /\ pop_valid => Distance(wr_ptr, rd_ptr) > 0 /\ pop_data = mem[rd_ptr % DEPTH]
    /\ Distance(wr_ptr, rd_ptr) <= DEPTH

(* Any sequence of eval() calls implements the elastic queue that the      *)
(* emitted SystemVerilog implements.                                       *)
Elastic == INSTANCE ElasticFifoSpec WITH queue <- Stored
ImplementsElasticQueue == Elastic!Spec
=============================================================================
