------------------------------ MODULE Pipeline ------------------------------
(***************************************************************************)
(* The SystemVerilog of a `pipeline`: emit_pipeline of                     *)
(* codegen/pipeline.rs.  One step is a rising edge of the clock: the       *)
(* stages sample the ports in and each other, and the next port values are *)
(* driven.  A stage whose body waits is a small FSM.                       *)
(*                                                                         *)
(* An operand is <<stage, register>>, <<0, port>> or a literal <<-1, v>>;  *)
(* a condition is an operand, true when it is not 0; a statement assigns   *)
(* an operand to a register.  A stage is a record of                       *)
(*   groups   the waits of its body, each with the statements before it    *)
(*            and those of its do..until body                              *)
(*   trailing the statements after the last wait, or the whole body        *)
(*   stall    its `stall when` condition, if any                           *)
(*   resets   the registers that declare a reset value, 0                  *)
(***************************************************************************)
EXTENDS Integers, Sequences, FiniteSets

CONSTANT Decls      \* pipelines under test

VARIABLES
    decl, in, stage,
    clk         \* parity of the edges so far

vars == <<decl, in, stage, clk>>

N == Len(decl.stages)
Stages == 1..N
Body(s) == decl.stages[s]
IsWait(s) == Body(s).groups # <<>>
WellFormed ==
    \A d \in Decls :
        /\ d.stages # <<>>
        /\ \A i, j \in DOMAIN d.stages :
              d.stages[i].groups # <<>> /\ d.stages[j].groups # <<>> => i = j

(* Port values.  The memory behind a wait-stage answers what it was asked. *)
Ports == [rst : decl.ports.rst, data_in : decl.ports.data_in, start : decl.ports.start,
          kill : decl.ports.kill, hold : decl.ports.hold, freeze : decl.ports.freeze,
          go : decl.ports.go]
Served(st) ==
    LET w == CHOOSE s \in Stages : IsWait(s)
    IN  IF st[w].fsm # 0 THEN st[w].x ELSE IF w = 1 THEN in.data_in ELSE st[w - 1].x

Read(st, from) ==
    CASE from[1] = -1 -> from[2]
      [] from[1] = 0  -> IF from[2] = "answer" THEN Served(st) ELSE in[from[2]]
      [] OTHER        -> st[from[1]][from[2]]
Holds(st, conditions) == \E c \in conditions : Read(st, c) # 0

Set(register, v) == [to |-> register, from |-> <<-1, v>>]
Copy(register, from) == [to |-> register, from |-> from]

Init ==
    /\ decl \in Decls
    /\ in \in {p \in Ports : p.rst = 0}
    /\ stage = [s \in Stages |-> [valid_r |-> 0, fsm |-> 0, x |-> 0, y |-> 0]]
    /\ clk = 0
-----------------------------------------------------------------------------
(* <prefix>_stall: local condition, busy FSM, global condition, and the    *)
(* stall of the stage below.                                               *)
OwnStall(st, s) == Holds(st, Body(s).stall) \/ st[s].fsm # 0 \/ Holds(st, decl.stall)
StallLocal(st, s) == OwnStall(st, s)
Stall(st, s) == \E t \in s..N : OwnStall(st, t)

(* The assignments of an ordinary stage: a stalled stage makes none, and a *)
(* stage below a stalled one takes a bubble.                               *)
StageStepsNoBubble(st, s) ==
    IF Stall(st, s) THEN <<>>
    ELSE <<IF s = 1 THEN Set("valid_r", 1) ELSE Copy("valid_r", <<s - 1, "valid_r">>)>>
         \o Body(s).trailing
StageSteps(st, s) ==
    IF Stall(st, s) THEN <<>>
    ELSE <<IF s = 1 THEN Set("valid_r", 1)
           ELSE IF Stall(st, s - 1) THEN Set("valid_r", 0)
           ELSE Copy("valid_r", <<s - 1, "valid_r">>)>>
         \o Body(s).trailing

(* The assignments of a wait-stage.  State 0 is idle: it takes what the    *)
(* stage above holds, and skips the first wait if its condition is true.   *)
(* State k waits for the condition of group k.  On its way into a group    *)
(* either path makes the assignments before it.                            *)
EnterNext(s, k) ==
    IF k = Len(Body(s).groups)
    THEN Body(s).trailing \o <<Set("fsm", 0), Set("valid_r", 1)>>
    ELSE Body(s).groups[k + 1].pre \o <<Set("fsm", k + 1)>>
SkipNextWithoutPre(s) ==
    IF Len(Body(s).groups) = 1 THEN Body(s).trailing \o <<Set("valid_r", 1)>>
    ELSE <<Set("fsm", 2)>>
SkipNext(s) ==
    IF Len(Body(s).groups) = 1 THEN Body(s).trailing \o <<Set("valid_r", 1)>>
    ELSE Body(s).groups[2].pre \o <<Set("fsm", 2)>>

WaitStepsSticky(st, s) ==
    LET groups == Body(s).groups
        k == st[s].fsm
        met(g) == Read(st, groups[g].cond) # 0
    IN  IF k > 0
        THEN groups[k].hold \o (IF met(k) THEN Body(s).trailing \o <<Set("valid_r", 1)>> ELSE <<>>)
        ELSE IF s > 1 /\ st[s - 1].valid_r = 0 THEN <<>>
        ELSE groups[1].pre
             \o (IF met(1) THEN SkipNext(s) ELSE <<Set("fsm", 1)>> \o groups[1].hold)
WaitSteps(st, s) ==
    LET groups == Body(s).groups
        k == st[s].fsm
        met(g) == Read(st, groups[g].cond) # 0
    IN  IF k > 0
        THEN groups[k].hold \o (IF met(k) THEN EnterNext(s, k) ELSE <<>>)
        ELSE IF s > 1 /\ st[s - 1].valid_r = 0 THEN <<>>
        ELSE groups[1].pre
             \o (IF met(1) THEN SkipNext(s) ELSE <<Set("fsm", 1)>> \o groups[1].hold)

Steps(st, s) == IF IsWait(s) THEN WaitSteps(st, s) ELSE StageSteps(st, s)

(* Nonblocking assignment: all right-hand sides are read before the edge,  *)
(* and the last assignment to a register wins.                             *)
Clocked(st, s, statements) ==
    [r \in DOMAIN st[s] |->
        LET writes == {i \in DOMAIN statements : statements[i].to = r}
        IN  IF writes = {} THEN st[s][r]
            ELSE Read(st, statements[CHOOSE i \in writes : \A j \in writes : j <= i].from)]

(* The flush directives override the stages: a bubble, an idle FSM, and    *)
(* with `clear` the reset values.                                          *)
Fired(st) == {i \in DOMAIN decl.flushes : Read(st, decl.flushes[i].cond) # 0}
Cleared(record, s) ==
    [r \in DOMAIN record |-> IF r \in Body(s).resets THEN 0 ELSE record[r]]
FlushKeepingFsm(record, s) == [record EXCEPT !.valid_r = 0]
FlushStage(record, s) == [record EXCEPT !.valid_r = 0, !.fsm = 0]
Flush(st, s, record) ==
    LET hits == {i \in Fired(st) : decl.flushes[i].target = s}
        bubble == IF hits = {} THEN record ELSE FlushStage(record, s)
    IN  IF \E i \in hits : decl.flushes[i].clear THEN Cleared(bubble, s) ELSE bubble

(* The reset port: control registers, and the data registers that declare  *)
(* a reset; `reset none` registers keep updating.                          *)
Reset(record, s) == [Cleared(record, s) EXCEPT !.valid_r = 0, !.fsm = 0]

Edge(st) ==
    [s \in Stages |->
        LET updated == Flush(st, s, Clocked(st, s, Steps(st, s)))
        IN  IF in.rst = 1 THEN Reset(updated, s) ELSE updated]

(* An asynchronous reset also acts as soon as the port rises.              *)
Settled(st) == IF decl.async /\ in'.rst = 1 THEN [s \in Stages |-> Reset(st[s], s)] ELSE st

Clock ==
    /\ UNCHANGED decl /\ clk' = 1 - clk
    /\ in' \in Ports
    /\ stage' = Settled(Edge(stage))

(* The clock keeps running.                                                *)
Ticks == []<>(clk = 0) /\ []<>(clk = 1)
Spec == Init /\ [][Clock]_vars /\ Ticks
-----------------------------------------------------------------------------
(* The items under way, oldest first.  A wait-stage holds the item it      *)
(* works on; its valid_r is then left over from the one before.            *)
Occupied(s) == stage[s].fsm # 0 \/ stage[s].valid_r = 1
InFlight ==
    LET below(s) == Cardinality({t \in s..N : Occupied(t)})
    IN  [i \in 1..below(1) |->
            stage[CHOOSE s \in Stages : Occupied(s) /\ below(s) = i].x]

Blocked == \E s \in Stages : OwnStall(stage, s)
Entering == IF Blocked \/ in.start = 0 THEN <<>> ELSE <<in.data_in>>
Leaving == Occupied(N) /\ ~OwnStall(stage, N)

(* Every item taken in by the first stage leaves the last one once and in  *)
(* order, whatever stages stall and however long a stage waits, unless a   *)
(* flush drops it, at most one per stage flushed; the registers of one     *)
(* stage belong to one item.                                               *)
StaysTogether ==
    \A w, s \in Stages :
        IsWait(w) /\ s >= w /\ stage[s].fsm = 0 /\ stage[s].valid_r = 1 => stage[s].y = stage[s].x
ItemsFlow ==
    LET line == (IF Leaving THEN Tail(InFlight) ELSE InFlight) \o Entering
        hit == {decl.flushes[i].target : i \in Fired(stage)}
    IN  IF in.rst = 1 \/ (decl.async /\ in'.rst = 1) THEN InFlight' = <<>>
        ELSE \E drop \in SUBSET DOMAIN line :
                /\ Cardinality(drop) <= Cardinality(hit)
                /\ Len(InFlight') = Len(line) - Cardinality(drop)
                /\ \A i \in DOMAIN line \ drop :
                      InFlight'[Cardinality((1..i) \ drop)] = line[i]
ItemsInOrder == [][ItemsFlow /\ StaysTogether']_vars

(* Once stalls, flushes and resets end, items keep leaving as long as each *)
(* wait's condition keeps coming: no stage waits on another for ever.      *)
ItemsLeave ==
    <>[](in.rst = 0 /\ in.kill = 0 /\ in.hold = 0 /\ in.freeze = 0 /\ in.start = 1)
      /\ []<>(in.go = 1)
    => []<>Leaving
=============================================================================
