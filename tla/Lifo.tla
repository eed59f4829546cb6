-------------------------------- MODULE Lifo --------------------------------
(***************************************************************************)
(* The SystemVerilog stack: emit_fifo_lifo_body of codegen/fifo.rs (and    *)
(* its twin lifo_ir of construct_formal_ir.rs).  sp counts the words.      *)
(***************************************************************************)
EXTENDS Integers

CONSTANTS DEPTH, Data, NoData

VARIABLES mem, sp, pushed, popped

vars == <<mem, sp, pushed, popped>>

Address == 0..(DEPTH - 1)

full       == sp = DEPTH
empty      == sp = 0
push_ready == ~full
pop_valid  == ~empty
pop_data   == IF empty THEN NoData ELSE mem[sp - 1]

Init == mem = [i \in Address |-> NoData] /\ sp = 0 /\ pushed = NoData /\ popped = NoData

(* Where a push writes, and how sp moves.                                  *)
PushSlotIgnoringPop(pop) == sp
PushSlot(pop) == IF pop THEN sp - 1 ELSE sp
NextSp(push, pop) ==
    CASE push /\ ~pop -> sp + 1
      [] pop /\ ~push -> sp - 1
      [] OTHER        -> sp

Edge(push_valid, push_data, pop_ready) ==
    LET push == push_valid /\ push_ready
        pop  == pop_valid /\ pop_ready
    IN  /\ mem' = IF push THEN [mem EXCEPT ![PushSlot(pop)] = push_data] ELSE mem
        /\ sp' = NextSp(push, pop)
        /\ pushed' = IF push THEN push_data ELSE NoData
        /\ popped' = IF pop THEN pop_data ELSE NoData

Reset == sp' = 0 /\ pushed' = NoData /\ popped' = NoData /\ UNCHANGED mem

Next ==
    \/ \E push_valid, pop_ready \in BOOLEAN, push_data \in Data :
           Edge(push_valid, push_data, pop_ready)
    \/ Reset

Spec == Init /\ [][Next]_vars
-----------------------------------------------------------------------------
(* The circuit is the bounded stack of StackSpec, push and pop together    *)
(* included.                                                               *)
Stack == INSTANCE StackSpec WITH stack <- [i \in 1..sp |-> mem[i - 1]]
ImplementsStack == Stack!Spec
=============================================================================
