----------------------------- MODULE ListSpec -----------------------------
(***************************************************************************)
(* What a `linklist` promises: ordered lists of words that share DEPTH     *)
(* nodes, each reached by its handle.  A request has its effect at the     *)
(* clock edge that accepts it; an insertion into a full pool and a         *)
(* deletion from an empty list wait.                                       *)
(***************************************************************************)
EXTENDS Naturals, Sequences, SequencesExt, FiniteSets

CONSTANTS DEPTH, NoData

VARIABLES
    lists,      \* per head, the <<handle, word>> pairs from first to last
    held,       \* handles handed out by alloc
    asked,      \* the request of the last edge
    answer,     \* the word a deletion answered, until its response ends
    reading     \* what a read answered

vars == <<lists, held, asked, answer, reading>>

HandlesOf(list) == {list[i][1] : i \in DOMAIN list}
InUse == held \cup UNION {HandlesOf(lists[h]) : h \in DOMAIN lists}
Fresh == (0..(DEPTH - 1)) \ InUse
PositionOf(handle, list) == CHOOSE i \in DOMAIN list : list[i][1] = handle

Init ==
    /\ \A h \in DOMAIN lists : lists[h] = <<>>
    /\ held = {} /\ answer = NoData /\ reading = NoData

Quiet == answer' \in {answer, NoData}

Insert(r, at) ==
    /\ Quiet /\ UNCHANGED held
    /\ IF Fresh = {} THEN UNCHANGED lists
       ELSE \E x \in Fresh : lists' = [lists EXCEPT ![r.head] = InsertAt(@, at, <<x, r.data>>)]

Unlink(r, at) ==
    /\ UNCHANGED held
    /\ IF lists[r.head] = <<>> THEN UNCHANGED lists /\ Quiet
       ELSE /\ lists' = [lists EXCEPT ![r.head] = RemoveAt(@, at)]
            /\ r.op = "delete_head" => answer' = lists[r.head][at][2]
            /\ r.op = "delete" => Quiet

Write(r) ==
    /\ Quiet /\ UNCHANGED held
    /\ lists' = [h \in DOMAIN lists |-> [i \in DOMAIN lists[h] |->
                    IF lists[h][i][1] = r.handle THEN <<r.handle, r.data>> ELSE lists[h][i]]]

Alloc ==
    /\ Quiet /\ UNCHANGED lists
    /\ IF Fresh = {} THEN UNCHANGED held ELSE \E x \in Fresh : held' = held \cup {x}

(* The word of a node, or the handle after or before it in its list.       *)
Look(r) ==
    /\ UNCHANGED <<lists, held>> /\ Quiet
    /\ \E h \in DOMAIN lists :
          /\ r.handle \in HandlesOf(lists[h])
          /\ LET i == PositionOf(r.handle, lists[h])
             IN  reading' = CASE r.op = "read_data" -> lists[h][i][2]
                              [] r.op = "next"      -> lists[h][i + 1][1]
                              [] r.op = "prev"      -> lists[h][i - 1][1]

Serve(r) ==
    CASE r.op = "insert_head"  -> Insert(r, 1)
      [] r.op = "insert_tail"  -> Insert(r, Len(lists[r.head]) + 1)
      [] r.op = "insert_after" -> Insert(r, PositionOf(r.handle, lists[r.head]) + 1)
      [] r.op = "delete_head"  -> Unlink(r, 1)
      [] r.op = "delete"       -> Unlink(r, PositionOf(r.handle, lists[r.head]))
      [] r.op = "write_data"   -> Write(r)
      [] r.op = "alloc"        -> Alloc
      [] r.op = "free"         -> held' = held \ {r.handle} /\ UNCHANGED lists /\ Quiet
      [] r.op = "none"         -> UNCHANGED <<lists, held>> /\ Quiet
      [] r.op = "reset"        -> /\ lists' = [h \in DOMAIN lists |-> <<>>]
                                  /\ held' = {} /\ answer' = NoData
      [] r.op \in {"read_data", "next", "prev"} -> Look(r)

Next ==
    /\ Serve(asked')
    /\ asked'.op \notin {"read_data", "next", "prev"} => reading' = NoData
Spec == Init /\ [][Next]_vars
=============================================================================
