------------------------------- MODULE Fifos -------------------------------
(***************************************************************************)
(* Everything a `fifo` declaration turns into: one of the single-clock     *)
(* SystemVerilog bodies that emit_fifo chooses from, which are latency 0   *)
(* (SyncFifo), latency 1 with and without OVERFLOW (FwftFifo, f_) and the  *)
(* stack (Lifo, l_); or a C++ class that gen_fifo writes, the single-clock *)
(* ones of SimFifo (variables c_) for a few declarations and the           *)
(* dual-clock one of SimAsyncFifo (a_).                                    *)
(***************************************************************************)
EXTENDS SyncFifo

VARIABLES
    body,
    f_mem, f_wr_ptr, f_rd_ptr, f_mem_data_r, f_bypass_data_r, f_bypass_valid,
    f_pushed, f_popped,
    l_mem, l_sp, l_pushed, l_popped

Fwft(overflow) == INSTANCE FwftFifo WITH
    OVERFLOW <- overflow, mem <- f_mem, wr_ptr <- f_wr_ptr, rd_ptr <- f_rd_ptr,
    mem_data_r <- f_mem_data_r, bypass_data_r <- f_bypass_data_r,
    bypass_valid <- f_bypass_valid, pushed <- f_pushed, popped <- f_popped

Stack == INSTANCE Lifo WITH
    mem <- l_mem, sp <- l_sp, pushed <- l_pushed, popped <- l_popped

fwft_vars == <<f_mem, f_wr_ptr, f_rd_ptr, f_mem_data_r, f_bypass_data_r, f_bypass_valid,
               f_pushed, f_popped>>
lifo_vars == <<l_mem, l_sp, l_pushed, l_popped>>
body_vars == <<body, vars, fwft_vars, lifo_vars>>

emit_fifo ==
    /\ body \in {"latency 0", "latency 1", "latency 1, overflow", "lifo"}
    /\ Init /\ Fwft(FALSE)!Init /\ Stack!Init

Latency0 == body = "latency 0" /\ Next /\ UNCHANGED <<fwft_vars, lifo_vars>>
Latency1 == body = "latency 1" /\ Fwft(FALSE)!Next /\ UNCHANGED <<vars, lifo_vars>>
Latency1Overflow ==
    body = "latency 1, overflow" /\ Fwft(TRUE)!Next /\ UNCHANGED <<vars, lifo_vars>>
KindLifo == body = "lifo" /\ Stack!Next /\ UNCHANGED <<vars, fwft_vars>>

BodiesNext == /\ Latency0 \/ Latency1 \/ Latency1Overflow \/ KindLifo
              /\ UNCHANGED body
BodiesSpec == emit_fifo /\ [][BodiesNext]_body_vars
-----------------------------------------------------------------------------
fifo(l, o) == [kind |-> "fifo", latency |-> l, overflow |-> o]
lifo == [kind |-> "lifo", latency |-> 0, overflow |-> FALSE]

(* All but the latency-0 fifo with OVERFLOW, which does not drop words.    *)
CheckedDesigns == {fifo(0, FALSE), fifo(1, FALSE), fifo(1, TRUE), lifo}

VARIABLES
    output,     \* "sv", "class" or "dual-clock class"
    c_design, c_mem, c_wr_ptr, c_rd_ptr, c_sp, c_pop_data_r, clk_prev,
    c_push_ready, c_pop_valid, c_pop_data, c_pushed, c_popped,
    a_latency, a_mem, a_wr_ptr, a_rd_ptr, a_pop_data_r, a_pop_data_valid,
    clk_prev_wr, clk_prev_rd, a_push_ready, a_pop_valid, a_pop_data, a_pushed, a_popped

Class == INSTANCE SimFifo WITH
    Designs <- CheckedDesigns, design <- c_design, mem <- c_mem, wr_ptr <- c_wr_ptr,
    rd_ptr <- c_rd_ptr, sp <- c_sp, pop_data_r <- c_pop_data_r,
    push_ready <- c_push_ready, pop_valid <- c_pop_valid, pop_data <- c_pop_data,
    pushed <- c_pushed, popped <- c_popped

Dual == INSTANCE SimAsyncFifo WITH
    latency <- a_latency, mem <- a_mem, wr_ptr <- a_wr_ptr, rd_ptr <- a_rd_ptr,
    pop_data_r <- a_pop_data_r, pop_data_valid <- a_pop_data_valid,
    push_ready <- a_push_ready, pop_valid <- a_pop_valid, pop_data <- a_pop_data,
    pushed <- a_pushed, popped <- a_popped

class_vars == <<c_design, c_mem, c_wr_ptr, c_rd_ptr, c_sp, c_pop_data_r, clk_prev,
                c_push_ready, c_pop_valid, c_pop_data, c_pushed, c_popped>>
dual_vars == <<a_latency, a_mem, a_wr_ptr, a_rd_ptr, a_pop_data_r, a_pop_data_valid,
               clk_prev_wr, clk_prev_rd, a_push_ready, a_pop_valid, a_pop_data,
               a_pushed, a_popped>>
fifos_vars == <<output, body_vars, class_vars, dual_vars>>

(* Only the variables of the chosen output differ between initial states.  *)
FifosInit ==
    /\ output \in {"sv", "class", "dual-clock class"}
    /\ emit_fifo /\ (output # "sv" => body = "lifo")
    /\ Class!Init /\ (output # "class" => c_design = lifo)
    /\ Dual!Init /\ (output # "dual-clock class" => a_latency = 0)

SystemVerilog == output = "sv" /\ BodiesNext /\ UNCHANGED <<class_vars, dual_vars>>
SingleClock == output = "class" /\ Class!Next /\ UNCHANGED <<body_vars, dual_vars>>
DualClock == output = "dual-clock class" /\ Dual!Next /\ UNCHANGED <<body_vars, class_vars>>

FifosNext == (SystemVerilog \/ SingleClock \/ DualClock) /\ UNCHANGED output
FifosSpec == FifosInit /\ [][FifosNext]_fifos_vars
-----------------------------------------------------------------------------
(* Latency 1: whenever a word is offered, the register that pop_data       *)
(* selects, bypass or RAM output, holds the word stored at the head.       *)
FwftHeadInv == Fwft(FALSE)!HeadInv

(* Latency 1, pushes blocking or dropping the oldest word: the ready/valid *)
(* behaviour of the bounded queue, no cycle later than latency 0.          *)
FwftImplementsQueue ==
    [][/\ body = "latency 1" => [Fwft(FALSE)!Queue!Next]_fwft_vars
       /\ body = "latency 1, overflow" => [Fwft(TRUE)!Queue!Next]_fwft_vars]_body_vars

(* The stack circuit is the bounded stack, push and pop together included. *)
LifoImplementsStack == Stack!ImplementsStack

(* The registered fifo and the stack keep what their abstract              *)
(* specifications promise, whatever is pushed and popped.                  *)
BodiesImplement == FwftImplementsQueue /\ LifoImplementsStack

(* A word offered is the one stored at the head: through the bypass and    *)
(* the RAM register of the latency-1 circuit, in the fields a testbench    *)
(* samples after eval(), and in the prefetch register of the dual-clock    *)
(* class, which never outlives the word.                                   *)
HeadsAreFresh == FwftHeadInv /\ Class!FieldsAreFresh /\ Dual!HeadIsFresh

(* Any sequence of eval() calls, several per clock phase included, steps   *)
(* the bounded queue exactly once on each rising edge, or the stack on     *)
(* edges that do not push and pop at once; the dual-clock class implements *)
(* the elastic queue that the emitted SystemVerilog implements.            *)
ClassesImplement ==
    Class!ImplementsQueue /\ Class!StackUnlessBoth /\ Dual!ImplementsElasticQueue
=============================================================================
