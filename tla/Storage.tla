------------------------------ MODULE Storage ------------------------------
(***************************************************************************)
(* The storage a design declares: a `fifo` of Fifos, or a `linklist`       *)
(* (variables n_) with its C++ class in lock step.                         *)
(***************************************************************************)
EXTENDS Fifos

CONSTANTS
    NODES, NODE_RANGE,  \* slots of the pool, width of their pointers
    ListDecls,          \* declarations of linked lists
    REQUESTS            \* bound on requests to a list

(* A doubly linked list, two queues that share a pool with nodes taken by  *)
(* alloc, and a list without a tail register.                              *)
CheckedLists ==
    {[heads |-> 1, doubly |-> TRUE, track_tail |-> TRUE,
      ops |-> <<"insert_head", "insert_tail", "insert_after", "delete_head", "next", "prev">>,
      DATA |-> {"a"}],
     [heads |-> 2, doubly |-> FALSE, track_tail |-> TRUE,
      ops |-> <<"alloc", "free", "insert_tail", "delete_head">>, DATA |-> {"a"}],
     [heads |-> 1, doubly |-> FALSE, track_tail |-> FALSE,
      ops |-> <<"insert_head", "insert_after", "delete_head", "delete", "write_data", "read_data">>,
      DATA |-> {"a", "b"}]}

VARIABLES
    construct,      \* "fifo" or "linklist"
    n_decl, n_reg, n_held, n_asked, n_answer, n_reading, n_requests, n_sim

List == INSTANCE SimLinkList WITH
    DEPTH <- NODES, RANGE <- NODE_RANGE, Decls <- ListDecls, OVERLAP <- FALSE,
    decl <- n_decl, reg <- n_reg, held <- n_held, asked <- n_asked, answer <- n_answer,
    reading <- n_reading, requests <- n_requests, sim <- n_sim

ASSUME ListsWellFormed == List!WellFormed

list_vars == <<n_decl, n_reg, n_held, n_asked, n_answer, n_reading, n_requests, n_sim>>

StorageInit ==
    /\ construct \in {"fifo", "linklist"}
    /\ FifosInit /\ (construct # "fifo" => output = "sv" /\ body = "lifo")
    /\ List!SimInit /\ (construct # "linklist" => n_decl = CHOOSE d \in ListDecls : TRUE)
Queues == construct = "fifo" /\ FifosNext /\ UNCHANGED list_vars
Lists == construct = "linklist" /\ List!SimNext /\ UNCHANGED fifos_vars
StorageNext == (Queues \/ Lists) /\ UNCHANGED construct
StorageSpec == StorageInit /\ [][StorageNext]_<<construct, fifos_vars, list_vars>>
-----------------------------------------------------------------------------
(* Free list, lists and handles in flight share out the pool: no slot is   *)
(* handed out twice or lost, whatever was freed and reused; the back links *)
(* and tail registers, patched an edge after the request, mirror the lists.*)
PoolIsExact == List!PoolIsExact /\ List!BackLinksMatch

(* Any sequence of eval() calls steps the specification of the storage     *)
(* once on each rising edge: a queue for a blocking FIFO of either         *)
(* latency and for a latency-1 drop-oldest one, the elastic queue for a    *)
(* dual-clock FIFO, the stack for a LIFO on the edges that do not push     *)
(* and pop at once.  The class of a linklist holds after every call what   *)
(* the SystemVerilog holds.  A LIFO that is pushed and popped at once and  *)
(* a latency-0 drop-oldest FIFO are left out: their classes do not do what *)
(* the circuit does.                                                       *)
ClassesAgree ==
    /\ Class!ImplementsQueue /\ Class!StackUnlessBoth /\ Dual!ImplementsElasticQueue
    /\ [][List!SimAgrees']_list_vars

(* The memories hold exactly the lists that the user's requests built.     *)
ImplementsLists == List!ImplementsLists
=============================================================================
