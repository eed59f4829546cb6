------------------------------ MODULE Lowering ------------------------------
(***************************************************************************)
(* What sequential source is lowered to: the FSM of a `thread` without     *)
(* calls (ThreadFsm) or its coroutines in the simulator (SimThread), or    *)
(* the stages of a `pipeline` (Pipeline, variables p_).                    *)
(***************************************************************************)
EXTENDS MCThreads, SimThread, PipelineDecls

VARIABLES
    lowered,    \* "thread", "coroutine" or "pipeline"
    p_decl, p_in, p_stage, p_clk, p_sim

Pipe == INSTANCE SimPipeline WITH
    Decls <- CheckedPipelines, decl <- p_decl, in <- p_in, stage <- p_stage, clk <- p_clk,
    sim <- p_sim

pipe_vars == <<p_decl, p_in, p_stage, p_clk, p_sim>>

ASSUME PipelinesWellFormed == Pipe!WellFormed

LoweringInit ==
    /\ lowered \in {"thread", "coroutine", "pipeline"}
    /\ Init
    /\ CASE lowered = "thread"    -> prog \in DOMAIN Bodies
         [] lowered = "coroutine" -> Supported(Programs[prog]) /\ prog \notin FsmOnly
         [] OTHER -> prog = "handshake"
    /\ SimInit(IF lowered = "coroutine" THEN prog ELSE "handshake")
    /\ Pipe!SimInit
    /\ lowered # "pipeline" =>
          p_decl = TwoWaits /\ p_in = CHOOSE ports \in Pipe!Ports : ports.go = 0
Thread == lowered = "thread" /\ Next /\ UNCHANGED <<sim_vars, pipe_vars>>
Coroutine == lowered = "coroutine" /\ SimNext /\ UNCHANGED pipe_vars
Pipeline == lowered = "pipeline" /\ Pipe!SimClock /\ UNCHANGED <<vars, sim_vars>>
LoweringNext == (Thread \/ Coroutine \/ Pipeline) /\ UNCHANGED lowered

(* The fairness of ThreadFsm and Pipeline, for what there is; the          *)
(* coroutines have that of ThreadFsm, for a simulator keeps ticking.       *)
LoweringSpec ==
    /\ LoweringInit /\ [][LoweringNext]_<<lowered, vars, sim_vars, pipe_vars>>
    /\ \A bit \in {0, 1} :
          /\ []<>(lowered \in {"thread", "coroutine"} => (due = 1) = (bit = 1))
          /\ []<>(lowered = "pipeline" => p_clk = bit)
-----------------------------------------------------------------------------
(* While its inputs keep coming, a thread never stops: the assignment that *)
(* ends every pass through its body is made again and again.               *)
ThreadsRecur == lowered \in {"thread", "coroutine"} => PassesRecur

(* Every item that a pipeline takes in leaves it once and in order,        *)
(* whatever stages stall and however long a stage waits, unless a flush    *)
(* drops it; the registers of one stage belong to one item.  The C++ class *)
(* of the pipeline holds what the SystemVerilog holds.                     *)
ItemsInOrder == Pipe!ItemsInOrder /\ [][Pipe!SimAgrees']_pipe_vars

(* Once stalls, flushes and resets end, items keep leaving as long as each *)
(* wait's condition keeps coming.                                          *)
ItemsLeave == lowered = "pipeline" => Pipe!ItemsLeave
=============================================================================
