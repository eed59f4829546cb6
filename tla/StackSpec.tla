----------------------------- MODULE StackSpec -----------------------------
(***************************************************************************)
(* What a `lifo` promises: a bounded stack with the same handshake as a    *)
(* fifo.  A push and a pop on the same clock edge deliver the old top and  *)
(* replace it by the pushed word.                                          *)
(***************************************************************************)
EXTENDS Naturals, Sequences, SequencesExt

CONSTANTS DEPTH, Data, NoData

VARIABLES
    stack,   \* the stored words, top last
    pushed, popped

vars == <<stack, pushed, popped>>

push_ready == Len(stack) < DEPTH
pop_valid  == stack # <<>>

Init == stack = <<>> /\ pushed = NoData /\ popped = NoData

Edge(push_valid, push_data, pop_ready) ==
    LET push == push_valid /\ push_ready
        pop  == pop_ready /\ pop_valid
        rest == IF pop THEN Front(stack) ELSE stack
    IN  /\ stack'  = IF push THEN Append(rest, push_data) ELSE rest
        /\ pushed' = IF push THEN push_data ELSE NoData
        /\ popped' = IF pop THEN Last(stack) ELSE NoData

Reset == stack' = <<>> /\ pushed' = NoData /\ popped' = NoData

Next ==
    \/ \E push_valid, pop_ready \in BOOLEAN, push_data \in Data :
           Edge(push_valid, push_data, pop_ready)
    \/ Reset

Spec == Init /\ [][Next]_vars
=============================================================================
