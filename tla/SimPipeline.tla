---------------------------- MODULE SimPipeline ----------------------------
(***************************************************************************)
(* The C++ class of a `pipeline`: gen_pipeline of sim_codegen/pipeline.rs, *)
(* in lock step with the SystemVerilog.  Every clock cycle is two calls of *)
(* eval(), at the rise and at the fall; assignments act at once.  Decls is *)
(* a set of declarations made of those in PipelineDecls.                   *)
(***************************************************************************)
EXTENDS Pipeline, PipelineDecls, SequencesExt

VARIABLE sim        \* the fields of the object: _clk_prev and the stages

sim_vars == <<vars, sim>>

SimInit ==
    /\ Init
    /\ sim = [clk_prev |-> 0, stage |-> stage]

(* Blocking assignment, statement by statement.                            *)
Assigned(c, s, statements) ==
    FoldLeft(LAMBDA o, st : [o EXCEPT ![s][st.to] = Read(o, st.from)], c, statements)

(* The stages run last to first, so that each finds the one above as it    *)
(* was before the edge.  The stalls were computed before (old).            *)
sim_wait_stage(c, s) == Assigned(c, s, WaitSteps(c, s))
sim_stage(old, c, s) == Assigned(c, s, StageSteps(old, s))
UpdatesForward(old) ==
    FoldLeft(LAMBDA c, s : IF IsWait(s) THEN sim_wait_stage(c, s) ELSE sim_stage(old, c, s),
             old, [i \in Stages |-> i])
Updates(old) ==
    FoldLeft(LAMBDA c, s : IF IsWait(s) THEN sim_wait_stage(c, s) ELSE sim_stage(old, c, s),
             old, [i \in Stages |-> N + 1 - i])

(* A flush clears valid_r only, and reads its condition after the updates. *)
SimFlush(c) ==
    [s \in Stages |->
        IF \E i \in Fired(c) : decl.flushes[i].target = s
        THEN [c[s] EXCEPT !.valid_r = 0] ELSE c[s]]

_do_reset(c) == [s \in Stages |-> Reset(c[s], s)]

EvalPosedge(o, level, rst) ==
    LET rising == level = 1 /\ o.clk_prev = 0
        start == IF decl.async /\ rst = 1 THEN _do_reset(o.stage) ELSE o.stage
        edge == SimFlush(Updates(start))
    IN  [clk_prev |-> level,
         stage |-> IF ~rising THEN start ELSE IF rst = 1 THEN _do_reset(edge) ELSE edge]

(* The pipelines that the class is run for: no `clear` flush, no flush of  *)
(* a wait-stage or on a register, and no statement or wait that reads what *)
(* its own stage or a later one holds.  On the others it does otherwise    *)
(* than the SystemVerilog.                                                 *)
Statements(s) ==
    UNION {Range(Body(s).groups[g].pre) \cup Range(Body(s).groups[g].hold) :
               g \in DOMAIN Body(s).groups} \cup Range(Body(s).trailing)
Simulable ==
    /\ \A f \in Range(decl.flushes) : ~f.clear /\ ~IsWait(f.target) /\ f.cond[1] = 0
    /\ \A s \in Stages :
          /\ \A a \in Statements(s) : a.from[1] < s
          /\ \A g \in Range(Body(s).groups) : g.cond[1] < s

SimClock ==
    /\ Clock
    /\ sim' = IF Simulable THEN EvalPosedge(EvalPosedge(sim, 1, in.rst), 0, in'.rst) ELSE sim
SimSpec == SimInit /\ [][SimClock]_sim_vars /\ Ticks
-----------------------------------------------------------------------------
(* The C++ object holds what the circuit holds after every cycle.          *)
SimAgrees == Simulable => sim.stage = stage
=============================================================================
