------------------------------ MODULE FifoSpec ------------------------------
(***************************************************************************)
(* What a `fifo` construct promises its user: a bounded first-in first-out *)
(* queue with a valid/ready handshake on each side.  The words that cross  *)
(* the two sides are visible (pushed, popped); the queue is internal.      *)
(*                                                                         *)
(* With overflow set, push is never refused and a push into a full queue   *)
(* discards the oldest word.  The mode is a variable that no step changes, *)
(* so that one specification serves designs of both modes.                 *)
(***************************************************************************)
EXTENDS Naturals, Sequences

CONSTANTS
    DEPTH,      \* number of words the queue holds
    Data,       \* payload words
    NoData      \* "no word crossed this side" (not a payload word)

VARIABLES
    overflow,   \* TRUE: drop-oldest mode, FALSE: block when full
    queue,      \* the stored words, oldest first
    pushed,     \* word accepted on the push side by the last clock edge
    popped      \* word delivered on the pop side by the last clock edge

vars == <<overflow, queue, pushed, popped>>

push_ready == overflow \/ Len(queue) < DEPTH
pop_valid  == queue # <<>>

Init == /\ overflow \in BOOLEAN
        /\ queue = <<>> /\ pushed = NoData /\ popped = NoData

(* One clock edge with the given inputs.  Both sides may transfer.         *)
Edge(push_valid, push_data, pop_ready) ==
    LET push == push_valid /\ push_ready
        pop  == pop_ready /\ pop_valid
        drop == push /\ ~pop /\ Len(queue) = DEPTH
        rest == IF pop \/ drop THEN Tail(queue) ELSE queue
    IN  /\ queue'  = IF push THEN Append(rest, push_data) ELSE rest
        /\ pushed' = IF push THEN push_data ELSE NoData
        /\ popped' = IF pop THEN Head(queue) ELSE NoData

Reset == queue' = <<>> /\ pushed' = NoData /\ popped' = NoData

Next ==
    /\ UNCHANGED overflow
    /\ \/ \E push_valid, pop_ready \in BOOLEAN, push_data \in Data :
              Edge(push_valid, push_data, pop_ready)
       \/ Reset

Spec == Init /\ [][Next]_vars
=============================================================================
