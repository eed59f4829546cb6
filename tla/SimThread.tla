----------------------------- MODULE SimThread -----------------------------
(***************************************************************************)
(* The same bodies in the thread simulator (sim_codegen/thread_sim.rs):    *)
(* partition cuts a body into segments, each ended by a wait; a coroutine  *)
(* runs them under a ThreadScheduler (runtime/arch_thread_rt.h), and so    *)
(* does one more for every branch of a fork, or of an if that waits.  What *)
(* it does at an edge is explained by the source text of ThreadFsm.        *)
(* Locks are in SimLocks.                                                  *)
(***************************************************************************)
EXTENDS ThreadFsm

VARIABLES
    code,           \* 0: the segments of the thread, b: of its branch b
    slot,           \* of the same coroutines
    resumed,        \* coroutines that have run in this tick
    ticking,        \* a tick is under way
    sampled, shown, \* inputs and driven outputs of its edge
    made            \* assignments made in it

sim_vars == <<code, slot, resumed, ticking, sampled, shown, made>>
circuit == <<prog, fsm, state, cnt, loop_cnt>>
-----------------------------------------------------------------------------
(* A segment: assignments on entry, outputs held, the wait, assignments    *)
(* after it, and the last turn of the `for` around it.                     *)
Terminal == [kind |-> "terminal"]
new_segment == [entry |-> <<>>, hold |-> <<>>, wait |-> Terminal, post |-> <<>>, last |-> 0]
Unflushed(seg) == seg.entry # <<>> \/ seg.hold # <<>>
Mixed(s) == s.op = "if" /\ assigns(<<s>>, "seq") # <<>> /\ assigns(<<s>>, "comb") # <<>>

(* partition: the segment being filled, those closed, the branches met so  *)
(* far, and whether every statement is supported.                          *)
Close(p, wait) == [p EXCEPT !.segs = Append(@, [p.cur EXCEPT !.wait = wait]), !.cur = new_segment]
Inside(p, inner) == [p EXCEPT !.branches = Append(inner.branches, inner.segs), !.ok = @ /\ inner.ok]
Unless(p, unsupported) == [p EXCEPT !.ok = @ /\ ~unsupported]

(* A `do` holds its outputs and makes its assignments when it ends.        *)
HoldUntil(p, s) ==
    Close([Unless(p, \/ Unflushed(p.cur) \/ contains_wait(s.body)
                     \/ \E i \in DOMAIN s.body : Mixed(s.body[i]))
              EXCEPT !.cur.hold = assigns(s.body, "comb"), !.cur.post = assigns(s.body, "seq")],
          [kind |-> "until", cond |-> s.cond])

(* Assignments at the end belong to the wait before them, if that can take *)
(* them; held outputs need a cycle of their own.                           *)
TrailingSegment(p) ==
    LET n == Len(p.segs)
        takes == n > 0 /\ p.segs[n].wait.kind \in {"until", "cycles", "if"}
    IN  IF ~Unflushed(p.cur) THEN Unless(p, n = 0)
        ELSE IF p.cur.hold = <<>> /\ takes THEN [p EXCEPT !.segs[n].post = @ \o p.cur.entry]
        ELSE Close(p, Terminal)

RECURSIVE partition(_, _)
partition(body, branches) ==
    LET OfStatement(p, s) ==
          CASE s.op = "seq"  -> [p EXCEPT !.cur.entry = @ \o assigns(<<s>>, "seq")]
            [] s.op = "comb" -> [p EXCEPT !.cur.hold = @ \o assigns(<<s>>, "comb")]
            [] s.op = "if" /\ ~contains_wait(<<s>>) ->
                  Unless([p EXCEPT !.cur.entry = @ \o assigns(<<s>>, "seq"),
                                   !.cur.hold = @ \o assigns(<<s>>, "comb")], Mixed(s))
            [] s.op = "if" /\ contains_wait(<<s>>) ->
                  LET then == Inside(p, partition(s.then, p.branches))
                      else == Inside(then, partition(s.else, then.branches))
                  IN  Close(else, [kind |-> "if", cond |-> s.cond,
                                   then |-> Len(then.branches), else |-> Len(else.branches)])
            [] s.op = "until"  -> Close(p, [kind |-> "until", cond |-> s.cond])
            [] s.op = "cycles" -> Close(p, [kind |-> "cycles", n |-> s.n])
            [] s.op = "for" ->
                  LET inner == partition(s.body, p.branches)
                      fits == inner.ok /\ Len(inner.segs) = 1
                      pending == SelectSeq(p.cur.entry, LAMBDA put : put.when = True)
                  IN  IF ~fits THEN Unless(p, TRUE)
                      ELSE Unless([p EXCEPT !.segs = Append(@, [inner.segs[1] EXCEPT !.last = s.end]),
                                            !.branches = inner.branches],
                                  p.cur.hold # <<>> \/ pending # <<>> \/ ~contains_wait(s.body))
            [] s.op = "fork" ->
                  LET Branch(q, body_b) ==
                          LET r == Inside(q, partition(body_b, q.branches))
                          IN  [r EXCEPT !.forked = Append(@, Len(r.branches))]
                      q == FoldLeft(Branch, [p EXCEPT !.forked = <<>>], s.branches)
                  IN  Close(Unless(q, Unflushed(p.cur)), [kind |-> "fork", all |-> q.forked])
            [] s.op = "do" -> HoldUntil(p, s)
    IN  TrailingSegment(FoldLeft(OfStatement, [cur |-> new_segment, segs |-> <<>>, branches |-> branches,
                                      forked |-> <<>>, ok |-> TRUE], body))

(* A branch may not fork.                                                  *)
Supported(body) ==
    LET p == partition(body, <<>>)
    IN  /\ p.ok
        /\ \A b \in DOMAIN p.branches : \A i \in DOMAIN p.branches[b] :
              p.branches[b][i].wait.kind # "fork"
Compiled(body) ==
    LET p == partition(body, <<>>)
    IN  [b \in 0..Len(p.branches) |-> IF b = 0 THEN p.segs ELSE p.branches[b]]
-----------------------------------------------------------------------------
Coroutines == DOMAIN code
Slot(kind) == [kind |-> kind, seg |-> 1, turn |-> 0, started |-> FALSE, cycles |-> 0, awaits |-> {}]
Segment(b) == code[b][slot[b].seg]
Env == [inputs |-> sampled, cnt |-> 0, loop_cnt |-> loop_cnt]
Made(stmts) == Puts(Executed(stmts, Env))

(* eval(): a coroutine that is not done drives its segment's outputs.      *)
Driven(inputs) ==
    UNION {Puts(Executed(Segment(b).hold, [Env EXCEPT !.inputs = inputs])) :
              b \in {d \in Coroutines : slot[d].kind # "done"}}

(* The branches a wait launches.                                           *)
Launches(wait) ==
    CASE wait.kind = "fork" -> ToSet(wait.all)
      [] wait.kind = "if"   -> {IF Holds(wait.cond, Env) THEN wait.then ELSE wait.else}
      [] OTHER -> {}

(* Coroutine b goes to turn t of segment i, makes its entry assignments    *)
(* and suspends.  A branch ends with a terminal segment, after a cycle if  *)
(* that holds outputs; the thread waits for one before its loop goes on.   *)
Suspended(b, i, t) ==
    LET wait == code[b][i].wait
        suspend(kind, n) == [kind |-> kind, seg |-> i, turn |-> t, started |-> TRUE, cycles |-> n,
                             awaits |-> Launches(wait)]
    IN  CASE wait.kind \in {"until", "if", "fork"} -> suspend("until", 0)
          [] wait.kind = "cycles" -> suspend("cycles", wait.n)
          [] wait.kind = "terminal" /\ (b = 0 \/ code[b][i].hold # <<>>) -> suspend("cycles", 1)
          [] OTHER -> Slot("done")

GoTo(b, i, t, before) ==
    LET launched == Launches(code[b][i].wait)
    IN  /\ slot' = [d \in Coroutines |->
                       IF d = b THEN Suspended(b, i, t)
                       ELSE IF d \in launched THEN Slot("ready") ELSE slot[d]]
        /\ made' = made \cup before \cup Made(code[b][i].entry)

(* The coroutine goes on: the assignments after its wait, then the loop's  *)
(* next turn, the next segment or the thread's first; a branch ends.       *)
GoOn(b) ==
    LET s == slot[b]
        after == Made(Segment(b).post)
        n == Len(code[b])
    IN  IF ~s.started THEN GoTo(b, 1, 0, {})
        ELSE IF s.turn < Segment(b).last THEN GoTo(b, s.seg, s.turn + 1, after)
        ELSE IF s.seg < n THEN GoTo(b, s.seg + 1, 0, after)
        ELSE IF b = 0 THEN GoTo(b, 1, 0, after)
        ELSE slot' = [slot EXCEPT ![b] = Slot("done")] /\ made' = made \cup after
-----------------------------------------------------------------------------
(* tick_begin, tick_run.  An if or a fork waits for the coroutines it has  *)
(* launched.                                                               *)
AnyDone(b) == slot[b].awaits = {} \/ \E d \in slot[b].awaits : slot[d].kind = "done"
AllDone(b) == \A d \in slot[b].awaits : slot[d].kind = "done"
Pred(b, inputs) ==
    IF Segment(b).wait.kind = "until"
    THEN Holds(Segment(b).wait.cond, [Env EXCEPT !.inputs = inputs]) ELSE AllDone(b)

Waited(b, inputs) ==
    LET s == slot[b]
    IN  CASE s.kind = "cycles" -> [s EXCEPT !.cycles = @ - 1,
                                            !.kind = IF s.cycles = 1 THEN "ready" ELSE @]
          [] s.kind = "until" /\ Pred(b, inputs) -> [s EXCEPT !.kind = "ready"]
          [] OTHER -> s

Begin(inputs) ==
    /\ ~ticking /\ ticking' = TRUE
    /\ sampled' = inputs /\ shown' = Driven(inputs)
    /\ slot' = [b \in Coroutines |-> Waited(b, inputs)]
    /\ resumed' = {} /\ made' = {}
    /\ UNCHANGED <<code, circuit, due, fired, source>>

Runnable == {b \in Coroutines : slot[b].kind = "ready" /\ b \notin resumed}
Resume(b) ==
    /\ ticking /\ b \in Runnable /\ \A d \in Runnable : b <= d
    /\ GoOn(b)
    /\ resumed' = resumed \cup {b}
    /\ UNCHANGED <<code, ticking, sampled, shown, circuit, due, fired, source>>

Woken == {b \in Coroutines \ resumed : slot[b].kind = "until" /\ Pred(b, sampled)}
Wake ==
    /\ ticking /\ Runnable = {} /\ Woken # {}
    /\ slot' = [b \in Coroutines |-> IF b \in Woken THEN [slot[b] EXCEPT !.kind = "ready"] ELSE slot[b]]
    /\ UNCHANGED <<code, resumed, ticking, sampled, shown, made, circuit, due, fired, source>>

Settled ==
    /\ ticking /\ Runnable = {} /\ Woken = {}
    /\ ticking' = FALSE
    /\ fired' = made
    /\ source' = Explained([puts |-> made, driven |-> shown] @@ Env)
    /\ due' = IF InputOrder[due] \in sampled THEN (due % Len(InputOrder)) + 1 ELSE due
    /\ sampled' = {} /\ shown' = {} /\ made' = {} /\ resumed' = {}
    /\ UNCHANGED <<code, slot, circuit>>

(* The constructor's tick takes the thread to its first wait.              *)
SimInit(name) ==
    /\ code = Compiled(Programs[name])
    /\ slot = [b \in Coroutines |-> Slot(IF b = 0 THEN "ready" ELSE "done")]
    /\ resumed = {} /\ ticking = TRUE /\ sampled = {} /\ shown = {} /\ made = {}

SimNext == \/ \E inputs \in SUBSET Inputs : Begin(inputs)
           \/ (\E b \in Coroutines : Resume(b)) \/ Wake \/ Settled
=============================================================================
