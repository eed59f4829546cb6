--------------------------- MODULE ElasticFifoSpec ---------------------------
(***************************************************************************)
(* What a dual-clock `fifo` promises: words cross in order and exactly     *)
(* once, at most DEPTH are in flight, and each side may be told "not now"  *)
(* for longer than strictly needed.  A transfer on one side, on the other, *)
(* or on both at once is one step; when a side is served is left open.     *)
(***************************************************************************)
EXTENDS Naturals, Sequences

CONSTANTS DEPTH, Data, NoData

VARIABLES queue, pushed, popped

vars == <<queue, pushed, popped>>

Init == queue = <<>> /\ pushed = NoData /\ popped = NoData

(* pushed and popped name the words of this step, NoData for none.         *)
Transfer(push_word, pop) ==
    LET rest == IF pop THEN Tail(queue) ELSE queue
    IN  /\ push_word # NoData => Len(queue) < DEPTH
        /\ pop => queue # <<>>
        /\ queue' = IF push_word # NoData THEN Append(rest, push_word) ELSE rest
        /\ pushed' = push_word
        /\ popped' = IF pop THEN Head(queue) ELSE NoData

Reset == queue' = <<>> /\ pushed' = NoData /\ popped' = NoData

Next ==
    \/ \E push_word \in Data \cup {NoData}, pop \in BOOLEAN : Transfer(push_word, pop)
    \/ Reset

Spec == Init /\ [][Next]_vars
=============================================================================
