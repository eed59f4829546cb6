--------------------------- MODULE PipelineDecls ---------------------------
(***************************************************************************)
(* The pipelines that are checked, as the records that Pipeline describes. *)
(***************************************************************************)
Port(p) == <<0, p>>
Gets(register, from) == [to |-> register, from |-> from]
Plain(statements) ==
    [groups |-> <<>>, trailing |-> statements, stall |-> {}, resets |-> {"x", "y"}]
From(s) == <<Gets("x", <<s, "x">>), Gets("y", <<s, "y">>)>>
WaitFor(pre, hold) == [pre |-> pre, hold |-> hold, cond |-> Port("go")]
FlushOn(target, cond, clear) == [target |-> target, cond |-> cond, clear |-> clear]
Quiet == [rst |-> {0}, data_in |-> {1, 2}, start |-> {1}, kill |-> {0}, hold |-> {0},
          freeze |-> {0}, go |-> {1}]

Fetch == Plain(<<Gets("x", Port("data_in"))>>)
Gated == Plain(<<Gets("x", Port("data_in")), Gets("valid_r", Port("start"))>>)
Access == [Plain(<<Gets("y", Port("answer"))>>) EXCEPT
              !.groups = <<WaitFor(<<Gets("x", <<1, "x">>)>>, <<>>)>>]

(* The cpu_pipeline example: a stalled stage above, flushes from a port.   *)
Hazards ==
    [stages |-> <<Gated, [Plain(<<Gets("x", <<1, "x">>)>>) EXCEPT !.stall = {Port("hold")}],
                  Plain(<<Gets("x", <<2, "x">>)>>)>>,
     stall |-> {}, async |-> FALSE,
     flushes |-> <<FlushOn(1, Port("kill"), FALSE), FlushOn(2, Port("kill"), FALSE)>>,
     ports |-> [Quiet EXCEPT !.start = {0, 1}, !.kill = {0, 1}, !.hold = {0, 1}]]

(* A stall of the last stage and of all, and an asynchronous reset that    *)
(* the last stage's registers do not have.                                 *)
Frozen ==
    [stages |-> <<Fetch, Plain(<<Gets("x", <<1, "x">>)>>),
                  [Plain(<<Gets("x", <<2, "x">>)>>) EXCEPT !.stall = {Port("hold")}, !.resets = {}]>>,
     stall |-> {Port("freeze")}, async |-> TRUE, flushes |-> <<>>,
     ports |-> [Quiet EXCEPT !.rst = {0, 1}, !.hold = {0, 1}, !.freeze = {0, 1}]]

(* CachedPipe of thread_pipeline_spec.md, with and without its flushes.    *)
Cached ==
    [stages |-> <<Fetch, Access, Plain(From(2))>>, stall |-> {}, async |-> FALSE,
     flushes |-> <<>>, ports |-> [Quiet EXCEPT !.rst = {0, 1}, !.go = {0, 1}]]
CachedPipe ==
    [Cached EXCEPT !.flushes = <<FlushOn(1, Port("kill"), TRUE), FlushOn(2, Port("kill"), FALSE)>>,
                   !.ports.kill = {0, 1}, !.ports.rst = {0}]

(* Two waits in the first stage; and a wait followed by a do..until.       *)
Work(pre, hold) ==
    [stages |-> <<[Plain(<<>>) EXCEPT
                      !.groups = <<WaitFor(<<Gets("x", Port("data_in"))>>, <<>>), WaitFor(pre, hold)>>],
                  Plain(From(1))>>,
     stall |-> {}, async |-> FALSE, flushes |-> <<>>, ports |-> [Quiet EXCEPT !.go = {0, 1}]]
TwoWaits == Work(<<Gets("y", Port("answer"))>>, <<>>)
WaitAndPoll == Work(<<>>, <<Gets("y", Port("answer"))>>)

CheckedPipelines == {Hazards, Frozen, Cached, CachedPipe, TwoWaits, WaitAndPoll}

(* A wait-stage above a stage that stalls.                                 *)
Backpressured ==
    {[Cached EXCEPT !.stages[3].stall = {Port("hold")}, !.ports.hold = {0, 1}, !.ports.rst = {0}]}
=============================================================================
