------------------------------ MODULE FwftFifo ------------------------------
(***************************************************************************)
(* The single-clock, latency-1 SystemVerilog FIFO (registered first-word   *)
(* fall-through): emit_fifo_sync_fwft_body and                             *)
(* emit_fifo_sync_fwft_body_general of codegen/fifo.rs.  The payload array *)
(* is a block RAM with a registered output (mem_data_r); a registered      *)
(* bypass holds the head while the RAM cannot deliver it yet.  The RAM and *)
(* bypass processes have no reset, the pointers and bypass_valid do.       *)
(***************************************************************************)
EXTENDS FifoPointers

VARIABLES
    mem, wr_ptr, rd_ptr,
    mem_data_r,     \* RAM output register
    bypass_data_r,  \* registered write data
    bypass_valid,   \* the head is in bypass_data_r, not in mem_data_r
    pushed, popped  \* words transferred by the last clock edge

vars == <<mem, wr_ptr, rd_ptr, mem_data_r, bypass_data_r, bypass_valid,
          pushed, popped>>

full        == IsFull(wr_ptr, rd_ptr)
empty       == wr_ptr = rd_ptr
push_ready  == OVERFLOW \/ ~full
pop_valid   == ~empty
pop_data    == IF bypass_valid THEN bypass_data_r ELSE mem_data_r
rd_ptr_next == NextPtr(rd_ptr)
one_entry   == wr_ptr = rd_ptr_next

drop_oldest(do_push, do_pop) == OVERFLOW /\ full /\ do_push /\ ~do_pop

load_bypass(do_push, do_pop) ==
    \/ empty /\ do_push
    \/ one_entry /\ do_pop /\ do_push
    \/ drop_oldest(do_push, do_pop) /\ DEPTH = 1

rd_mem_en_pop_only(do_push, do_pop) == do_pop /\ ~one_entry
rd_mem_en(do_push, do_pop) ==
    \/ do_pop /\ ~one_entry
    \/ drop_oldest(do_push, do_pop) /\ DEPTH # 1

Init ==
    /\ mem = [i \in Address |-> NoData]
    /\ wr_ptr = 0 /\ rd_ptr = 0
    /\ mem_data_r = NoData /\ bypass_data_r = NoData
    /\ bypass_valid = FALSE
    /\ pushed = NoData /\ popped = NoData

(* The two reset-free processes, at every clock edge.                      *)
MemoryProcesses(do_push, push_data, do_pop) ==
    /\ mem' = IF do_push THEN WriteMem(mem, Idx(wr_ptr), push_data) ELSE mem
    /\ mem_data_r' = IF rd_mem_en(do_push, do_pop)
                     THEN ReadMem(mem, Idx(rd_ptr_next)) ELSE mem_data_r
    /\ bypass_data_r' = IF load_bypass(do_push, do_pop)
                        THEN push_data ELSE bypass_data_r

(* bypass_valid is set by load_bypass and cleared by a pop or a drop.      *)
BypassValidSticky(do_push, do_pop) == bypass_valid \/ load_bypass(do_push, do_pop)
BypassValidNext(do_push, do_pop) ==
    \/ load_bypass(do_push, do_pop)
    \/ bypass_valid /\ ~(do_pop \/ drop_oldest(do_push, do_pop))

(* posedge clk with reset inactive                                         *)
Edge(push_valid, push_data, pop_ready) ==
    LET do_push == push_valid /\ push_ready
        do_pop  == pop_valid /\ pop_ready
    IN  /\ MemoryProcesses(do_push, push_data, do_pop)
        /\ bypass_valid' = BypassValidNext(do_push, do_pop)
        /\ wr_ptr' = IF do_push THEN NextPtr(wr_ptr) ELSE wr_ptr
        /\ rd_ptr' = IF do_pop \/ drop_oldest(do_push, do_pop)
                     THEN NextPtr(rd_ptr) ELSE rd_ptr
        /\ pushed' = IF do_push THEN push_data ELSE NoData
        /\ popped' = IF do_pop THEN pop_data ELSE NoData

ResetRegisters ==
    /\ wr_ptr' = 0 /\ rd_ptr' = 0 /\ bypass_valid' = FALSE
    /\ pushed' = NoData /\ popped' = NoData

(* posedge clk with reset active: only the reset-free processes advance.   *)
ResetEdge(push_valid, push_data, pop_ready) ==
    /\ MemoryProcesses(push_valid /\ push_ready, push_data, pop_valid /\ pop_ready)
    /\ ResetRegisters

(* An asynchronous reset asserted between two clock edges.                 *)
AsyncReset == ResetRegisters /\ UNCHANGED <<mem, mem_data_r, bypass_data_r>>

Next ==
    \/ \E push_valid, pop_ready \in BOOLEAN, push_data \in Data :
           \/ Edge(push_valid, push_data, pop_ready)
           \/ ResetEdge(push_valid, push_data, pop_ready)
    \/ AsyncReset

Spec == Init /\ [][Next]_vars
-----------------------------------------------------------------------------
Count == Distance(wr_ptr, rd_ptr)
Stored == Words(mem, wr_ptr, rd_ptr)

(* Whenever a word is offered, the register that pop_data selects holds    *)
(* the word the RAM stores at the head: neither the bypass nor the RAM     *)
(* output register is ever stale, at most DEPTH words are stored and all   *)
(* of their slots were written.                                            *)
HeadInv ==
    /\ Count <= DEPTH
    /\ \A i \in 1..Count : Stored[i] \in Data
    /\ pop_valid => pop_data = ReadMem(mem, Idx(rd_ptr))

(* The registered FIFO has the ready/valid behaviour of the bounded queue, *)
(* as the latency-0 FIFO has: latency 1 costs no cycle on the handshake.   *)
Queue == INSTANCE FifoSpec WITH overflow <- OVERFLOW, queue <- Stored
=============================================================================
