------------------------------ MODULE SyncFifo ------------------------------
(***************************************************************************)
(* The single-clock, latency-0 SystemVerilog FIFO: emit_fifo_sync_body and *)
(* emit_fifo_sync_body_general of codegen/fifo.rs.  One step is one event  *)
(* of the always_ff block.  Combinational outputs are operators of the     *)
(* state; pushed and popped record what the last clock edge transferred.   *)
(***************************************************************************)
EXTENDS FifoPointers

VARIABLES
    mem,        \* the payload array, X until written
    wr_ptr,
    rd_ptr,
    pushed,     \* word accepted by the last edge, NoData if none
    popped      \* word delivered by the last edge, NoData if none

vars == <<mem, wr_ptr, rd_ptr, pushed, popped>>

full       == IsFull(wr_ptr, rd_ptr)
empty      == wr_ptr = rd_ptr
push_ready == OVERFLOW \/ ~full
pop_valid  == ~empty
pop_data   == ReadMem(mem, Idx(rd_ptr))

Init ==
    /\ mem = [i \in Address |-> NoData]
    /\ wr_ptr = 0 /\ rd_ptr = 0
    /\ pushed = NoData /\ popped = NoData

(* rd_ptr moves for a pop, and for a push that overwrites the oldest word. *)
AdvanceReadPopOnly(push, pop_ready) == pop_valid /\ pop_ready
AdvanceRead(push, pop_ready) ==
    \/ push /\ OVERFLOW /\ full /\ ~pop_ready
    \/ pop_valid /\ pop_ready

(* posedge clk with reset inactive                                         *)
Edge(push_valid, push_data, pop_ready) ==
    LET push == push_valid /\ push_ready
        pop  == pop_valid /\ pop_ready
    IN  /\ mem'    = IF push THEN WriteMem(mem, Idx(wr_ptr), push_data) ELSE mem
        /\ wr_ptr' = IF push THEN NextPtr(wr_ptr) ELSE wr_ptr
        /\ rd_ptr' = IF AdvanceRead(push, pop_ready) THEN NextPtr(rd_ptr) ELSE rd_ptr
        /\ pushed' = IF push THEN push_data ELSE NoData
        /\ popped' = IF pop THEN pop_data ELSE NoData

(* The reset branch, taken at a clock edge or, for an asynchronous reset,  *)
(* as soon as the reset is asserted.                                       *)
Reset ==
    /\ wr_ptr' = 0 /\ rd_ptr' = 0
    /\ pushed' = NoData /\ popped' = NoData
    /\ UNCHANGED mem

Next ==
    \/ \E push_valid, pop_ready \in BOOLEAN, push_data \in Data :
           Edge(push_valid, push_data, pop_ready)
    \/ Reset

Spec == Init /\ [][Next]_vars
-----------------------------------------------------------------------------
Count == Distance(wr_ptr, rd_ptr)
Stored == Words(mem, wr_ptr, rd_ptr)

(* Pointers stay in the ring, memory holds words or X.                     *)
TypeOK ==
    /\ mem \in [Address -> Data \cup {NoData}]
    /\ wr_ptr \in Ptr /\ rd_ptr \in Ptr
    /\ pushed \in Data \cup {NoData}
    /\ popped \in Data \cup {NoData}

(* The pointers are never more than DEPTH apart, although the ring they    *)
(* move on is twice that long, and every slot between them was written.    *)
OccupancyInv ==
    /\ Count <= DEPTH
    /\ \A i \in 1..Count : Stored[i] \in Data

(* The circuit behaves as the bounded queue of FifoSpec: every word leaves *)
(* once, in order, nothing is overwritten unless OVERFLOW drops it.        *)
Queue == INSTANCE FifoSpec WITH overflow <- OVERFLOW, queue <- Stored
ImplementsQueue == Queue!Spec
=============================================================================
