----------------------------- MODULE LinkList -----------------------------
(***************************************************************************)
(* The SystemVerilog of a `linklist` (codegen/linklist.rs): a node pool    *)
(* with a free list of slots, head, tail and length registers, and one     *)
(* controller per declared operation.  Insertions and deletions take two   *)
(* clock edges, one that accepts and one that links.                       *)
(*                                                                         *)
(* All controllers are in one always_ff: each reads the registers before   *)
(* the edge (old) and of two writes to a register the later one stays      *)
(* (new).  An idle controller's latches are never read and are left out.   *)
(***************************************************************************)
EXTENDS Naturals, Sequences, SequencesExt, FiniteSets

CONSTANTS
    DEPTH,          \* a power of two: pointers index the pool by their low bits
    RANGE,          \* 2^$clog2(DEPTH + 1), the width of pointers and counts
    Decls,          \* declarations [heads, doubly, track_tail, ops, DATA]
    OVERLAP,        \* the user asks for an operation while another one runs
    REQUESTS,       \* bound on requests and resets
    NoData

VARIABLES
    decl,
    reg,        \* the registers and memories
    held,       \* handles the user got from alloc and has not freed
    asked,      \* the request of the last edge
    answer,     \* resp_data of delete_head, while busy or valid
    reading,    \* the response of read_data, next or prev, while valid
    requests    \* how many there were

vars == <<decl, reg, held, asked, answer, reading, requests>>

Handles == 0..(DEPTH - 1)
Heads == 0..(decl.heads - 1)
multi_head == decl.heads > 1

Operations == {"alloc", "free", "insert_head", "insert_tail", "insert_after",
               "delete_head", "delete", "read_data", "write_data", "next", "prev"}
Reads == {"read_data", "next", "prev"}
Insertions == {"insert_head", "insert_tail", "insert_after"}

(* What the constants may be.                                              *)
WellFormed ==
    /\ DEPTH \in Nat \ {0} /\ RANGE \in Nat /\ RANGE > DEPTH /\ RANGE % DEPTH = 0
    /\ OVERLAP \in BOOLEAN /\ REQUESTS \in Nat
    /\ \A d \in Decls :
          /\ d.heads \in Nat \ {0} /\ d.doubly \in BOOLEAN /\ d.track_tail \in BOOLEAN
          /\ d.ops \in Seq(Operations) /\ NoData \notin d.DATA

(* A controller is idle, busy (accepted) or answers (resp_v).              *)
Idle == [phase |-> "idle"]
Answers(handle) == [phase |-> "answers", handle |-> handle]

Cleared(s) ==
    [s EXCEPT !.fl_mem = [i \in Handles |-> i], !.fl_rdp = 0, !.fl_wrp = 0, !.fl_cnt = DEPTH,
              !.head = [h \in Heads |-> 0], !.tail = [h \in Heads |-> 0],
              !.length = [h \in Heads |-> 0],
              !.ctl = [op \in Operations |-> Idle]]

PowerUp ==
    LET zeros == [i \in Handles |-> 0]
    IN  Cleared([fl_mem |-> zeros, fl_rdp |-> 0, fl_wrp |-> 0, fl_cnt |-> 0,
                 data |-> [i \in Handles |-> NoData], next |-> zeros, prev |-> zeros,
                 head |-> 0, tail |-> 0, length |-> 0, ctl |-> 0])

None == [op |-> "none"]
-----------------------------------------------------------------------------
(* The free list, and what the controllers ask of the registers.           *)
Slot(s) == s.fl_mem[s.fl_rdp % DEPTH]
Up(n) == (n + 1) % RANGE
Down(n) == (n + RANGE - 1) % RANGE

IsEmpty(s, h) == IF multi_head THEN s.length[h] = 0 ELSE s.fl_cnt = DEPTH

Accepts(op, r, s) == s.ctl[op].phase # "busy" /\ r.op = op
Busy(op, s) == s.ctl[op].phase = "busy"

Take(old, new) == [new EXCEPT !.fl_rdp = Up(old.fl_rdp), !.fl_cnt = Down(old.fl_cnt)]
GiveBackUncounted(slot, old, new) ==
    [new EXCEPT !.fl_mem[old.fl_wrp % DEPTH] = slot, !.fl_wrp = Up(old.fl_wrp)]
GiveBack(slot, old, new) ==
    [new EXCEPT !.fl_mem[old.fl_wrp % DEPTH] = slot,
                !.fl_wrp = Up(old.fl_wrp), !.fl_cnt = Up(old.fl_cnt)]

Counted(h, length, new) == IF multi_head THEN [new EXCEPT !.length[h] = length] ELSE new
-----------------------------------------------------------------------------
(* One arm per operation of emit_ll_op_controller.                         *)
alloc(r, old, new) ==
    IF r.op = "alloc" /\ old.fl_cnt # 0
    THEN [Take(old, new) EXCEPT !.ctl["alloc"] = Answers(Slot(old))]
    ELSE new

free(r, old, new) == IF r.op = "free" THEN GiveBack(r.handle, old, new) ELSE new

write_data(r, old, new) ==
    IF r.op = "write_data"
    THEN [new EXCEPT !.data[r.handle] = r.data, !.ctl["write_data"] = Answers(r.handle)]
    ELSE new

(* Registered reads of one memory.                                         *)
Read(op, handle, s) ==
    CASE op = "read_data" -> s.data[handle]
      [] op = "next"      -> s.next[handle]
      [] op = "prev"      -> s.prev[handle]
read(op, r, old, new) ==
    IF r.op = op THEN [new EXCEPT !.ctl[op] = Answers(Read(op, r.handle, old))] ELSE new

(* The accepting edge of every insertion: a slot, its word, its latches.   *)
Accept(op, r, old, new) ==
    [Take(old, new) EXCEPT
        !.data[Slot(old)] = r.data,
        !.ctl[op] = [phase |-> "busy", handle |-> Slot(old), head |-> r.head,
                     was_empty |-> IsEmpty(old, r.head),
                     after |-> IF op = "insert_after" THEN r.handle ELSE 0]]

insert_head(r, old, new) ==
    LET op == "insert_head"
        c == old.ctl[op]
        linked == [new EXCEPT
            !.next[c.handle] = old.head[c.head],
            !.prev = IF decl.doubly THEN [@ EXCEPT ![old.head[c.head]] = c.handle] ELSE @,
            !.head[c.head] = c.handle,
            !.tail[c.head] = IF decl.track_tail /\ c.was_empty THEN c.handle ELSE @,
            !.ctl[op] = Answers(c.handle)]
    IN  IF Accepts(op, r, old) /\ old.fl_cnt # 0 THEN Accept(op, r, old, new)
        ELSE IF Busy(op, old) THEN Counted(c.head, Up(old.length[c.head]), linked)
        ELSE new

(* Without a tail register the node goes behind the head.                  *)
PatchedTail(c, old) == c.handle
FirstNode(c, old) == old.head[c.head]
LastNode(c, old) == IF decl.track_tail THEN old.tail[c.head] ELSE old.head[c.head]

insert_tail(r, old, new) ==
    LET op == "insert_tail"
        c == old.ctl[op]
        last == LastNode(c, old)
        linked == [new EXCEPT
            !.next = IF c.was_empty THEN @ ELSE [@ EXCEPT ![last] = c.handle],
            !.prev = IF decl.doubly /\ decl.track_tail THEN [@ EXCEPT ![c.handle] = last] ELSE @,
            !.tail[c.head] = IF decl.track_tail THEN c.handle ELSE @,
            !.head[c.head] = IF c.was_empty THEN c.handle ELSE @,
            !.ctl[op] = Answers(c.handle)]
    IN  IF Accepts(op, r, old) /\ old.fl_cnt # 0 THEN Accept(op, r, old, new)
        ELSE IF Busy(op, old) THEN Counted(c.head, Up(old.length[c.head]), linked)
        ELSE new

(* The new node's next is written by the accepting edge.                   *)
insert_after(r, old, new) ==
    LET op == "insert_after"
        c == old.ctl[op]
        linked == [new EXCEPT
            !.next[c.after] = c.handle,
            !.prev = IF decl.doubly
                     THEN [@ EXCEPT ![c.handle] = c.after, ![old.next[c.handle]] = c.handle]
                     ELSE @,
            !.ctl[op] = Answers(c.handle)]
    IN  IF Accepts(op, r, old) /\ old.fl_cnt # 0
        THEN [Accept(op, r, old, new) EXCEPT !.next[Slot(old)] = old.next[r.handle]]
        ELSE IF Busy(op, old) THEN Counted(c.head, Up(old.length[c.head]), linked)
        ELSE new

delete_head(r, old, new) ==
    LET op == "delete_head"
        c == old.ctl[op]
        advanced == [GiveBack(c.handle, old, new) EXCEPT
            !.head[c.head] = old.next[c.handle],
            !.ctl[op] = Answers(c.handle)]
    IN  IF Accepts(op, r, old) /\ ~IsEmpty(old, r.head)
        THEN [new EXCEPT !.ctl[op] = [phase |-> "busy", handle |-> old.head[r.head],
                                      head |-> r.head]]
        ELSE IF Busy(op, old) THEN Counted(c.head, Down(old.length[c.head]), advanced)
        ELSE new

(* The slot goes back to the free list; no pointer is patched.             *)
delete(r, old, new) ==
    LET op == "delete"
        c == old.ctl[op]
        returned == [GiveBack(c.handle, old, new) EXCEPT !.ctl[op] = Answers(c.handle)]
    IN  IF Accepts(op, r, old)
        THEN [new EXCEPT !.ctl[op] = [phase |-> "busy", handle |-> r.handle, head |-> r.head]]
        ELSE IF Busy(op, old) THEN Counted(c.head, Down(old.length[c.head]), returned)
        ELSE new

Controller(op, r, old, new) ==
    CASE op = "alloc"        -> alloc(r, old, new)
      [] op = "free"         -> free(r, old, new)
      [] op = "insert_head"  -> insert_head(r, old, new)
      [] op = "insert_tail"  -> insert_tail(r, old, new)
      [] op = "insert_after" -> insert_after(r, old, new)
      [] op = "delete_head"  -> delete_head(r, old, new)
      [] op = "delete"       -> delete(r, old, new)
      [] op = "write_data"   -> write_data(r, old, new)
      [] op \in Reads        -> read(op, r, old, new)

(* resp_valid is a pulse: every edge clears it first.                      *)
PulsesEnded(s) ==
    [s EXCEPT !.ctl = [op \in Operations |-> IF Busy(op, s) THEN @[op] ELSE Idle]]

Clocked(r, s) ==
    FoldLeft(LAMBDA new, op : Controller(op, r, s, new), PulsesEnded(s), decl.ops)
-----------------------------------------------------------------------------
(* The lists in the memories: chains of handles from each head, as they    *)
(* are linked now and as they are once the accepted operations are done.   *)
Length(h) ==
    IF multi_head THEN reg.length[h]
    ELSE DEPTH - reg.fl_cnt - Cardinality({op \in Insertions : Busy(op, reg)})

Linked(h) ==
    LET node[i \in 1..Length(h)] == IF i = 1 THEN reg.head[h] ELSE reg.next[node[i - 1]]
    IN  [i \in 1..Length(h) |-> node[i]]

Position(x, chain) == CHOOSE i \in DOMAIN chain : chain[i] = x
Runs(op, h) == Busy(op, reg) /\ reg.ctl[op].head = h

Chain(h) ==
    LET now == Linked(h)
        node(op) == reg.ctl[op].handle
    IN  CASE Runs("insert_head", h)  -> <<node("insert_head")>> \o now
          [] Runs("insert_tail", h)  -> Append(now, node("insert_tail"))
          [] Runs("insert_after", h) ->
                 InsertAt(now, Position(reg.ctl["insert_after"].after, now) + 1,
                          node("insert_after"))
          [] Runs("delete_head", h)  -> Tail(now)
          [] Runs("delete", h)       -> RemoveAt(now, Position(node("delete"), now))
          [] OTHER                   -> now
-----------------------------------------------------------------------------
(* The user: one request per edge, none while an operation is under way    *)
(* unless OVERLAP, but words are read and rewritten at any time; only      *)
(* handles of the lists, and for free those it holds.  The first node has  *)
(* no prev to ask for, the last one no next.  insert_after at the tail is  *)
(* left out: it would not move the tail register.  So is delete of a node  *)
(* with a successor or a tail register: it would stay linked.              *)
Calm == \A op \in Operations : ~Busy(op, reg)
NodesOf(h) == {Linked(h)[i] : i \in 1..Length(h)} \cap {Chain(h)[i] : i \in 1..Len(Chain(h))}

LastOf(h) ==
    {x \in NodesOf(h) : ~decl.track_tail /\ x = Last(Linked(h))}

Structural ==
    [op : {"insert_head", "insert_tail"}, head : Heads, data : decl.DATA]
        \cup [op : {"delete_head"}, head : Heads]
        \cup [op : {"alloc"}]
        \cup [op : {"free"}, handle : held]
        \cup (UNION {[op : {"insert_after"}, head : {h}, data : decl.DATA,
                      handle : IF decl.track_tail THEN NodesOf(h) \ {reg.tail[h]} ELSE NodesOf(h)]
                     : h \in Heads})
        \cup (UNION {[op : {"next"}, handle : NodesOf(h) \ {Last(Linked(h))}]
                     \cup [op : {"prev"}, handle : NodesOf(h) \ {reg.head[h]}]
                     : h \in {i \in Heads : Length(i) > 0}})
        \cup (UNION {[op : {"delete"}, head : {h}, handle : LastOf(h)] : h \in Heads})

Words ==
    LET nodes == UNION {NodesOf(h) : h \in Heads}
    IN  [op : {"write_data"}, handle : nodes, data : decl.DATA]
            \cup [op : {"read_data"}, handle : nodes]

Requests ==
    {None} \cup {r \in Words \cup (IF Calm \/ OVERLAP THEN Structural ELSE {}) :
                    /\ requests < REQUESTS
                    /\ \E i \in DOMAIN decl.ops : decl.ops[i] = r.op}

DeleteAnswer(r, s) ==
    IF Accepts("delete_head", r, s) /\ ~IsEmpty(s, r.head) THEN s.data[s.head[r.head]]
    ELSE IF Busy("delete_head", s) THEN answer ELSE NoData

Edge(r) ==
    /\ reg' = Clocked(r, reg)
    /\ held' = IF r.op = "free" THEN held \ {r.handle}
               ELSE IF r.op = "alloc" /\ reg.fl_cnt # 0 THEN held \cup {Slot(reg)}
               ELSE held
    /\ answer' = DeleteAnswer(r, reg)
    /\ reading' = IF r.op \in Reads THEN reg'.ctl[r.op].handle ELSE NoData
    /\ asked' = r
    /\ requests' = IF r = None THEN requests ELSE requests + 1
    /\ UNCHANGED decl

Reset ==
    /\ reg' = Cleared(reg) /\ held' = {} /\ answer' = NoData /\ reading' = NoData
    /\ asked' = [op |-> "reset"]
    /\ requests < REQUESTS /\ requests' = requests + 1
    /\ UNCHANGED decl

Init ==
    /\ decl \in Decls
    /\ reg = PowerUp /\ held = {} /\ answer = NoData /\ reading = NoData /\ asked = None
    /\ requests = 0

Next == Reset \/ \E r \in Requests : Edge(r)
Spec == Init /\ [][Next]_vars
-----------------------------------------------------------------------------
(* Every slot is in exactly one place, the free list, a chain or the       *)
(* user's hands, and the free count is that of the free list: none leaks,  *)
(* is handed out twice or comes back twice.                                *)
FreeSlots == {reg.fl_mem[(reg.fl_rdp + i) % DEPTH] : i \in 0..(reg.fl_cnt - 1)}
PendingSlots == {reg.ctl[op].handle : op \in {o \in Insertions : Busy(o, reg)}}
ChainSlots(h) == {Linked(h)[i] : i \in 1..Length(h)}
PoolIsExact ==
    /\ Cardinality(FreeSlots) = reg.fl_cnt
    /\ \A h \in Heads : Cardinality(ChainSlots(h)) = Length(h)
    /\ UNION {FreeSlots, PendingSlots, held, UNION {ChainSlots(h) : h \in Heads}} = Handles
    /\ LET sizes[h \in 0..decl.heads] ==
               IF h = 0 THEN reg.fl_cnt + Cardinality(PendingSlots) + Cardinality(held)
               ELSE Length(h - 1) + sizes[h - 1]
       IN  sizes[decl.heads] = DEPTH

(* The tail register names the last node of its chain, and in a doubly     *)
(* linked list each node's prev names the node before it.                  *)
BackLinksMatch ==
    \A h \in Heads : LET now == Linked(h) IN
        /\ decl.track_tail /\ now # <<>> => reg.tail[h] = Last(now)
        /\ decl.doubly => \A i \in 2..Len(now) : reg.prev[now[i]] = now[i - 1]

(* The memories and registers are the lists the user asked for: operations *)
(* that wait, slots that are reused and words left in freed nodes never    *)
(* show.                                                                   *)
Pairs(h) == LET c == Chain(h) IN [i \in 1..Len(c) |-> <<c[i], reg.data[c[i]]>>]
Lists == INSTANCE ListSpec WITH lists <- [h \in Heads |-> Pairs(h)]
ImplementsLists == Lists!Spec
=============================================================================
