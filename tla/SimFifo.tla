------------------------------- MODULE SimFifo -------------------------------
(***************************************************************************)
(* The C++ model of a single-clock fifo or lifo that `arch sim` generates: *)
(* gen_fifo of sim_codegen/fifo.rs.  A testbench drives the clock and the  *)
(* input ports and calls eval(); eval() first runs eval_posedge(), which   *)
(* acts only on a rising edge and reads the output *fields* the previous   *)
(* eval_comb() left, then eval_comb(), which recomputes them.              *)
(*                                                                         *)
(* pushed and popped record the last rising edge; NoData also stands for   *)
(* the zero a field or an array element is constructed with.               *)
(***************************************************************************)
EXTENDS Integers

CONSTANTS
    DEPTH,
    Designs,    \* subset of [kind : {"fifo", "lifo"}, latency : {0, 1}, overflow : BOOLEAN]
    Data, NoData

VARIABLES
    design,                 \* the declaration, chosen once
    mem, wr_ptr, rd_ptr,    \* fifo pointers, in 0..2*DEPTH-1
    sp,                     \* lifo stack pointer
    pop_data_r,             \* latency 1 output register
    clk_prev,
    push_ready, pop_valid, pop_data,   \* output fields
    pushed, popped

storage == <<mem, wr_ptr, rd_ptr, sp, pop_data_r>>
outputs == <<push_ready, pop_valid, pop_data>>
vars == <<design, storage, outputs, clk_prev, pushed, popped>>

KIND == design.kind
LATENCY == design.latency
overflow == design.overflow

NextPtr(p) == IF p + 1 >= 2 * DEPTH THEN 0 ELSE p + 1
Distance(wr, rd) == IF wr >= rd THEN wr - rd ELSE 2 * DEPTH - rd + wr
Count == Distance(wr_ptr, rd_ptr)

(* The constructor: fields are zero, so no word is accepted before the     *)
(* first eval_comb().                                                      *)
Init ==
    /\ design \in Designs
    /\ mem = [i \in 0..(DEPTH - 1) |-> NoData]
    /\ wr_ptr = 0 /\ rd_ptr = 0 /\ sp = 0 /\ pop_data_r = NoData
    /\ clk_prev = FALSE
    /\ push_ready = FALSE /\ pop_valid = FALSE /\ pop_data = NoData
    /\ pushed = NoData /\ popped = NoData

(* eval_comb() run before eval_posedge().                                  *)
EvalCombFirst ==
    /\ push_ready' = IF KIND = "lifo" THEN sp < DEPTH ELSE overflow \/ Count < DEPTH
    /\ pop_valid' = IF KIND = "lifo" THEN sp > 0 ELSE Count # 0
    /\ pop_data' = IF KIND = "lifo" THEN mem[(IF sp > 0 THEN sp - 1 ELSE 0) % DEPTH]
                   ELSE mem[rd_ptr % DEPTH]

(* eval_comb(), on the storage eval_posedge() has just updated.            *)
EvalComb ==
    IF KIND = "lifo"
    THEN /\ push_ready' = (sp' < DEPTH)
         /\ pop_valid' = (sp' > 0)
         /\ pop_data' = mem'[(IF sp' > 0 THEN sp' - 1 ELSE 0) % DEPTH]
    ELSE LET count == Distance(wr_ptr', rd_ptr')
         IN  /\ push_ready' = (overflow \/ ~(count >= DEPTH))
             /\ pop_valid' = (count # 0)
             /\ pop_data' = IF LATENCY = 1 THEN pop_data_r'
                            ELSE mem'[rd_ptr' % DEPTH]

(* The lifo branch: push, then pop, one after the other.                   *)
LifoPosedgePreIncrement(push, push_data, pop) ==
    LET sp1 == IF push THEN sp + 1 ELSE sp
    IN  /\ mem' = IF push THEN [mem EXCEPT ![sp1 % DEPTH] = push_data] ELSE mem
        /\ sp' = IF pop /\ sp1 > 0 THEN sp1 - 1 ELSE sp1
        /\ UNCHANGED <<wr_ptr, rd_ptr, pop_data_r>>
LifoPosedge(push, push_data, pop) ==
    LET sp1 == IF push THEN sp + 1 ELSE sp
    IN  /\ mem' = IF push THEN [mem EXCEPT ![sp % DEPTH] = push_data] ELSE mem
        /\ sp' = IF pop /\ sp1 > 0 THEN sp1 - 1 ELSE sp1
        /\ UNCHANGED <<wr_ptr, rd_ptr, pop_data_r>>

(* The latency-1 branch drops the oldest word on an overflowing push; the  *)
(* latency-0 branch does not look at OVERFLOW.                             *)
DropOldest(push, pop) == LATENCY = 1 /\ overflow /\ Count >= DEPTH /\ push /\ ~pop

(* The latency-1 output register after the edge.                           *)
HeadRegister(push, push_data, pop) ==
    CASE Count = 0 /\ push -> push_data
      [] ~(Count = 0 /\ push) /\ pop ->
           IF Count = 1 THEN (IF push THEN push_data ELSE pop_data_r)
           ELSE mem[(rd_ptr + 1) % DEPTH]
      [] ~(Count = 0 /\ push) /\ ~pop /\ DropOldest(push, pop) ->
           IF DEPTH = 1 THEN push_data ELSE mem[(rd_ptr + 1) % DEPTH]
      [] OTHER -> pop_data_r

FifoPosedge(push, push_data, pop) ==
    /\ mem' = IF push THEN [mem EXCEPT ![wr_ptr % DEPTH] = push_data] ELSE mem
    /\ wr_ptr' = IF push THEN NextPtr(wr_ptr) ELSE wr_ptr
    /\ rd_ptr' = IF pop \/ DropOldest(push, pop) THEN NextPtr(rd_ptr) ELSE rd_ptr
    /\ pop_data_r' = IF LATENCY = 1 THEN HeadRegister(push, push_data, pop)
                     ELSE pop_data_r
    /\ UNCHANGED sp

Posedge(push_valid, push_data, pop_ready) ==
    LET push == push_valid /\ push_ready
        pop  == pop_ready /\ pop_valid
    IN  /\ IF KIND = "lifo" THEN LifoPosedge(push, push_data, pop)
           ELSE FifoPosedge(push, push_data, pop)
        /\ pushed' = IF push THEN push_data ELSE NoData
        /\ popped' = IF pop THEN pop_data ELSE NoData

ResetPosedge ==
    /\ IF KIND = "lifo" THEN sp' = 0 /\ UNCHANGED <<wr_ptr, rd_ptr>>
       ELSE wr_ptr' = 0 /\ rd_ptr' = 0 /\ UNCHANGED sp
    /\ pushed' = NoData /\ popped' = NoData
    /\ UNCHANGED <<mem, pop_data_r>>

(* eval() with clock and inputs as the testbench has set them.             *)
RisesOnLevel(clk) == clk
Rising(clk) == clk /\ ~clk_prev

Eval(clk, rst, push_valid, push_data, pop_ready) ==
    /\ \/ ~Rising(clk) /\ UNCHANGED <<storage, pushed, popped>>
       \/ Rising(clk) /\ rst /\ ResetPosedge
       \/ Rising(clk) /\ ~rst /\ Posedge(push_valid, push_data, pop_ready)
    /\ clk_prev' = clk
    /\ UNCHANGED design
    /\ EvalComb

Next == \E clk, rst, push_valid, pop_ready \in BOOLEAN, push_data \in Data :
            Eval(clk, rst, push_valid, push_data, pop_ready)

Spec == Init /\ [][Next]_vars
-----------------------------------------------------------------------------
StoredWords == [i \in 1..Count |-> mem[(rd_ptr + i - 1) % DEPTH]]

(* Once eval() has run, the fields a testbench samples before an edge are  *)
(* those of the stored words: no edge is decided on a stale field.         *)
FieldsAreFresh ==
    pop_valid => /\ (KIND = "fifo" => Count > 0 /\ pop_data = mem[rd_ptr % DEPTH])
                 /\ (KIND = "lifo" => sp > 0 /\ pop_data = mem[sp - 1])

(* Stepping the model by any sequence of eval() calls, several per clock   *)
(* phase included, is the bounded queue of FifoSpec stepped exactly once   *)
(* on each rising edge.                                                    *)
RisingEdge == clk_prev' /\ ~clk_prev
Queue == INSTANCE FifoSpec WITH overflow <- overflow, queue <- StoredWords
ImplementsQueue ==
    [][KIND = "fifo" => IF RisingEdge THEN Queue!Next ELSE UNCHANGED Queue!vars]_vars

(* The lifo model is the stack of StackSpec, stepped on each rising edge.  *)
Stack == INSTANCE StackSpec WITH stack <- [i \in 1..sp |-> mem[i - 1]]
ImplementsStack ==
    [][KIND = "lifo" => IF RisingEdge THEN Stack!Next ELSE UNCHANGED Stack!vars]_vars

(* The lifo model is that stack on every edge that does not push and pop   *)
(* at once.                                                                *)
StackUnlessBoth ==
    [][KIND = "lifo" /\ (pushed' = NoData \/ popped' = NoData)
          => IF RisingEdge THEN Stack!Next ELSE UNCHANGED Stack!vars]_vars
=============================================================================
