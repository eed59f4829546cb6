---------------------------- MODULE SimLinkList ----------------------------
(***************************************************************************)
(* The C++ class of a `linklist` (sim_codegen/linklist.rs), clocked with   *)
(* the SystemVerilog of LinkList.  eval_posedge runs the controllers one   *)
(* after the other and each statement sees the ones before it: where a     *)
(* value is read before it is overwritten, the order in the code matters.  *)
(* The class always keeps a tail.                                          *)
(***************************************************************************)
EXTENDS LinkList, Integers

VARIABLE sim

SimTake(s) == [s EXCEPT !.fl_rdp = Up(@), !.fl_cnt = @ - 1]
SimGiveBack(slot, s) ==
    [s EXCEPT !.fl_mem[s.fl_wrp % DEPTH] = slot, !.fl_wrp = Up(@), !.fl_cnt = @ + 1]
SimCounted(h, by, s) == IF multi_head THEN [s EXCEPT !.length[h] = @ + by] ELSE s
SimDone(op, s) == [s EXCEPT !.ctl[op] = Answers(@.handle)]

sim_alloc(r, s) ==
    IF r.op = "alloc" /\ s.fl_cnt # 0
    THEN [SimTake(s) EXCEPT !.ctl["alloc"] = Answers(Slot(s))]
    ELSE s

sim_free(r, s) == IF r.op = "free" THEN SimGiveBack(r.handle, s) ELSE s

sim_write_data(r, s) ==
    IF r.op = "write_data"
    THEN [s EXCEPT !.data[r.handle] = r.data, !.ctl["write_data"] = Answers(r.handle)]
    ELSE s

sim_read(op, r, s) ==
    IF r.op = op THEN [s EXCEPT !.ctl[op] = Answers(Read(op, r.handle, s))] ELSE s

(* was_empty is latched before the slot is counted out.                    *)
SimAcceptCountedFirst(op, r, s) ==
    LET taken == SimTake(s)
        stored == [taken EXCEPT !.data[Slot(s)] = r.data]
    IN  [stored EXCEPT !.ctl[op] = [phase |-> "busy", handle |-> Slot(s), head |-> r.head,
                                    was_empty |-> IsEmpty(stored, r.head),
                                    after |-> IF op = "insert_after" THEN r.handle ELSE 0]]
SimAccept(op, r, s) ==
    LET stored == [s EXCEPT !.data[Slot(s)] = r.data]
        latched == [stored EXCEPT
            !.ctl[op] = [phase |-> "busy", handle |-> Slot(s), head |-> r.head,
                         was_empty |-> IsEmpty(stored, r.head),
                         after |-> IF op = "insert_after" THEN r.handle ELSE 0]]
    IN  SimTake(latched)

sim_insert_head(r, s) ==
    LET op == "insert_head"
        c == s.ctl[op]
        s1 == [s EXCEPT !.next[c.handle] = s.head[c.head]]
        s2 == IF decl.doubly THEN [s1 EXCEPT !.prev[s1.head[c.head]] = c.handle] ELSE s1
        s3 == [s2 EXCEPT !.head[c.head] = c.handle]
        s4 == IF c.was_empty THEN [s3 EXCEPT !.tail[c.head] = c.handle] ELSE s3
    IN  IF Accepts(op, r, s) /\ s.fl_cnt # 0 THEN SimAccept(op, r, s)
        ELSE IF Busy(op, s) THEN SimDone(op, SimCounted(c.head, 1, s4))
        ELSE s

sim_insert_tail(r, s) ==
    LET op == "insert_tail"
        c == s.ctl[op]
        s1 == IF c.was_empty THEN s ELSE [s EXCEPT !.next[s.tail[c.head]] = c.handle]
        s2 == IF decl.doubly THEN [s1 EXCEPT !.prev[c.handle] = s1.tail[c.head]] ELSE s1
        s3 == [s2 EXCEPT !.tail[c.head] = c.handle]
        s4 == IF c.was_empty THEN [s3 EXCEPT !.head[c.head] = c.handle] ELSE s3
    IN  IF Accepts(op, r, s) /\ s.fl_cnt # 0 THEN SimAccept(op, r, s)
        ELSE IF Busy(op, s) THEN SimDone(op, SimCounted(c.head, 1, s4))
        ELSE s

sim_insert_after(r, s) ==
    LET op == "insert_after"
        c == s.ctl[op]
        s1 == [s EXCEPT !.next[c.after] = c.handle]
        s2 == IF decl.doubly THEN [s1 EXCEPT !.prev[c.handle] = c.after] ELSE s1
        s3 == IF decl.doubly THEN [s2 EXCEPT !.prev[s2.next[c.handle]] = c.handle] ELSE s2
    IN  IF Accepts(op, r, s) /\ s.fl_cnt # 0
        THEN [SimAccept(op, r, s) EXCEPT !.next[Slot(s)] = s.next[r.handle]]
        ELSE IF Busy(op, s) THEN SimDone(op, SimCounted(c.head, 1, s3))
        ELSE s

sim_delete_head(r, s) ==
    LET op == "delete_head"
        c == s.ctl[op]
        s1 == SimGiveBack(c.handle, s)
        s2 == [s1 EXCEPT !.head[c.head] = s1.next[c.handle]]
    IN  IF Accepts(op, r, s) /\ ~IsEmpty(s, r.head)
        THEN [s EXCEPT !.ctl[op] = [phase |-> "busy", handle |-> s.head[r.head], head |-> r.head]]
        ELSE IF Busy(op, s) THEN SimDone(op, SimCounted(c.head, -1, s2))
        ELSE s

sim_delete(r, s) ==
    LET op == "delete"
        c == s.ctl[op]
    IN  IF Accepts(op, r, s)
        THEN [s EXCEPT !.ctl[op] = [phase |-> "busy", handle |-> r.handle, head |-> r.head]]
        ELSE IF Busy(op, s) THEN SimDone(op, SimCounted(c.head, -1, SimGiveBack(c.handle, s)))
        ELSE s

SimController(op, r, s) ==
    CASE op = "alloc"        -> sim_alloc(r, s)
      [] op = "free"         -> sim_free(r, s)
      [] op = "insert_head"  -> sim_insert_head(r, s)
      [] op = "insert_tail"  -> sim_insert_tail(r, s)
      [] op = "insert_after" -> sim_insert_after(r, s)
      [] op = "delete_head"  -> sim_delete_head(r, s)
      [] op = "delete"       -> sim_delete(r, s)
      [] op = "write_data"   -> sim_write_data(r, s)
      [] op \in Reads        -> sim_read(op, r, s)

eval_posedge(r, s) == FoldLeft(LAMBDA t, op : SimController(op, r, t), PulsesEnded(s), decl.ops)

SimInit == Init /\ sim = PowerUp
SimNext ==
    \/ Reset /\ sim' = Cleared(sim)
    \/ \E r \in Requests : Edge(r) /\ sim' = eval_posedge(r, sim)
SimSpec == SimInit /\ [][SimNext]_<<vars, sim>>
-----------------------------------------------------------------------------
(* The class and the SystemVerilog hold the same lists, free slots and     *)
(* answers after every edge, so they are ready for the same requests; the  *)
(* tail the class keeps beyond those of the declaration is not compared.   *)
SimAgrees == [sim EXCEPT !.tail = reg.tail] = reg /\ (decl.track_tail => sim.tail = reg.tail)
=============================================================================
