--------------------------- MODULE ThreadLowering ---------------------------
(***************************************************************************)
(* How elaborate/threads.rs turns the body of a `thread` into the states   *)
(* of a finite-state machine.  A body is a sequence of statements, records *)
(* told apart by op; a state is numbered from 0, as in the code, and holds *)
(* what ThreadFsmState holds.  An assignment is only a label: what matters *)
(* is on which clock edge it happens.  Left out: lock (see ThreadLock),    *)
(* return and the TLM statements.                                          *)
(***************************************************************************)
EXTENDS Integers, Sequences, SequencesExt

(* Expressions over the inputs, the loop counters and the wait counter.    *)
True == [k |-> "true"]
None == [k |-> "none"]
Input(c) == [k |-> "input", input |-> c]
Below(loop, end) == [k |-> "below", loop |-> loop, end |-> end]
CntZero == [k |-> "cnt_zero"]
Not(e) == [k |-> "not", of |-> e]
And(a, b) == [k |-> "and", left |-> a, right |-> b]
Or(a, b) == [k |-> "or", left |-> a, right |-> b]

(* env has the inputs that are high, loop_cnt and cnt.                     *)
RECURSIVE Holds(_, _)
Holds(e, env) ==
    CASE e.k = "true"     -> TRUE
      [] e.k = "input"    -> e.input \in env.inputs
      [] e.k = "below"    -> env.loop_cnt[e.loop] < e.end
      [] e.k = "cnt_zero" -> env.cnt = 0
      [] e.k = "not"      -> ~Holds(e.of, env)
      [] e.k = "and"      -> Holds(e.left, env) /\ Holds(e.right, env)
      [] e.k = "or"       -> Holds(e.left, env) \/ Holds(e.right, env)

AnyOf(exprs) == FoldLeft(Or, Head(exprs), Tail(exprs))
AllOf(exprs) == IF exprs = <<>> THEN True ELSE FoldLeft(And, Head(exprs), Tail(exprs))

(* A guarded statement of a state: an assignment (put), a loop counter's   *)
(* start or increment, the wait counter's load or decrement, or goto.      *)
Do(what, arg) == [when |-> True, what |-> what, arg |-> arg]
Guarded(e, stmts) == [i \in DOMAIN stmts |-> [stmts[i] EXCEPT !.when = And(e, @)]]

State(comb, seq) ==
    [comb |-> comb, seq |-> seq, cond |-> None, cycles |-> 0, multi |-> <<>>,
     no_fold |-> FALSE, folded |-> FALSE, exit_seq |-> <<>>, exit_target |-> -1]
IsConditional(s) == s.cond # None
Counted(s) == s.cycles > 0
Branches(s) == s.multi # <<>>

Arm(e, target) == [when |-> e, to |-> target]
Retarget(states, moved) ==
    [i \in DOMAIN states |->
        [states[i] EXCEPT !.multi = [j \in DOMAIN @ |-> [@[j] EXCEPT !.to = moved[@]]]]]

RECURSIVE contains_wait(_)
contains_wait(body) ==
    \E i \in DOMAIN body :
        LET s == body[i]
        IN  CASE s.op \in {"until", "cycles", "do"} -> TRUE
              [] s.op = "if"   -> contains_wait(s.then) \/ contains_wait(s.else)
              [] s.op = "fork" -> \E b \in DOMAIN s.branches : contains_wait(s.branches[b])
              [] s.op = "for"  -> contains_wait(s.body)
              [] OTHER         -> FALSE

(* The assignments of a body without waits; an if becomes guards.          *)
RECURSIVE assigns(_, _)
assigns(body, op) ==
    FlattenSeq([i \in DOMAIN body |->
        CASE body[i].op = op   -> <<Do("put", body[i].id)>>
          [] body[i].op = "if" -> Guarded(body[i].cond, assigns(body[i].then, op))
                                  \o Guarded(Not(body[i].cond), assigns(body[i].else, op))
          [] OTHER -> <<>>])

(* Where partition_thread_body_impl stands: states so far, assignments not *)
(* yet in one, the fast region (state and guard), the state that may not   *)
(* take trailing assignments, the flag of issue 306, the next loop id.     *)
Cursor(loops) ==
    [states |-> <<>>, comb |-> <<>>, seq |-> <<>>, fast |-> <<>>, no_merge |-> -1,
     no_fold |-> FALSE, loops |-> loops]
Pending(c) == c.comb # <<>> \/ c.seq # <<>>
Push(c, s) == [c EXCEPT !.states = Append(@, s)]

merge_fast_region_assigns(c) ==
    LET f == c.fast[1]
    IN  [c EXCEPT !.states[f.at + 1].comb = @ \o Guarded(f.guard, c.comb),
                  !.states[f.at + 1].seq = @ \o Guarded(f.guard, c.seq),
                  !.comb = <<>>, !.seq = <<>>, !.fast = <<>>]

flush_pending_thread_state(c) ==
    IF ~Pending(c) THEN [c EXCEPT !.fast = <<>>]
    ELSE IF c.fast # <<>> THEN merge_fast_region_assigns(c)
    ELSE [Push(c, State(c.comb, c.seq)) EXCEPT !.comb = <<>>, !.seq = <<>>]

(* `wait until`: pending register assignments get a state of their own,    *)
(* outputs are driven in it and in the wait.                               *)
WaitUntil(c, s) ==
    LET early == IF c.fast = <<>> THEN c
                 ELSE [merge_fast_region_assigns(c) EXCEPT !.comb = c.comb]
        skid  == IF early.seq = <<>> THEN early
                 ELSE Push(early, [State(early.comb, early.seq) EXCEPT !.no_fold = early.no_fold])
    IN  [Push(skid, [State(early.comb, <<>>) EXCEPT !.cond = s.cond])
            EXCEPT !.comb = <<>>, !.seq = <<>>, !.no_fold = FALSE]

(* `wait N cycle`: a counting state, unless N is 1 and a state was just    *)
(* closed, whose exit takes the cycle.                                     *)
WaitCycles(c, s) ==
    LET flushed == flush_pending_thread_state(c)
        had_flush == Pending(c) \/ c.fast # <<>>
    IN  IF s.n # 1 \/ ~had_flush
        THEN [Push(flushed, [State(<<>>, <<>>) EXCEPT !.cycles = s.n]) EXCEPT !.no_fold = FALSE]
        ELSE IF c.fast # <<>>
        THEN [flushed EXCEPT !.no_merge = c.fast[1].at, !.no_fold = TRUE]
        ELSE flushed

(* The exit of state idx becomes a jump.                                   *)
redirect_fallthrough_to(states, idx, target) ==
    LET s == states[idx + 1]
        jump == CASE IsConditional(s) -> Arm(s.cond, target)
                  [] Counted(s)       -> Arm(CntZero, target)
                  [] OTHER            -> Arm(True, target)
    IN  IF \E i \in DOMAIN s.multi : s.multi[i].to = target THEN states
        ELSE IF Branches(s) THEN [states EXCEPT ![idx + 1].multi = Append(@, Arm(True, target))]
        ELSE [states EXCEPT ![idx + 1].multi = <<jump>>, ![idx + 1].cond = None]

(* Branch states of an if lie in from..(to - 1): whatever leaves there     *)
(* goes to rejoin.                                                         *)
RejoinUnmapped(states, from, to, rejoin) ==
    IF from = to THEN states ELSE redirect_fallthrough_to(states, to - 1, rejoin)
Rejoin(states, from, to, rejoin) ==
    IF from = to THEN states
    ELSE LET own == SubSeq(states, from + 1, to)
             out == [t \in Int |-> IF t = to THEN rejoin ELSE t]
         IN  redirect_fallthrough_to(
                 SubSeq(states, 1, from) \o Retarget(own, out)
                     \o SubSeq(states, to + 1, Len(states)),
                 to - 1, rejoin)
-----------------------------------------------------------------------------
(* partition_thread_body_impl: the states of body, loop ids from loops on. *)
RECURSIVE partition_thread_body(_, _)

Appended(c, body) ==
    IF body = <<>> THEN c
    ELSE LET p == partition_thread_body(body, c.loops)
             shift == [t \in Int |-> t + Len(c.states)]
         IN  [c EXCEPT !.states = @ \o Retarget(p.states, shift), !.loops = p.loops]

(* if/else with waits: a dispatching state, the two branches, and both     *)
(* leave for the state after them.                                         *)
DispatchAndRejoin(c, s) ==
    LET flushed   == flush_pending_thread_state(c)
        dispatch  == Len(flushed.states)
        with_then == Appended(Push(flushed, State(<<>>, <<>>)), s.then)
        with_else == Appended(with_then, s.else)
        then_base == dispatch + 1
        else_base == Len(with_then.states)
        rejoin    == Len(with_else.states)
        joined    == Rejoin(Rejoin(with_else.states, then_base, else_base, rejoin),
                            else_base, rejoin, rejoin)
        entry(base, end) == IF base = end THEN rejoin ELSE base
    IN  [with_else EXCEPT !.states =
            [joined EXCEPT ![dispatch + 1].multi =
                <<Arm(s.cond, entry(then_base, else_base)),
                  Arm(Not(s.cond), entry(else_base, rejoin))>>]]

(* if / elsif / else behind a wait: each body with the guard that leads to *)
(* it.                                                                     *)
RECURSIVE flatten_thread_ifelse_chain(_, _)
flatten_thread_ifelse_chain(s, prior) ==
    LET other == And(prior, Not(s.cond))
    IN  <<[guard |-> And(prior, s.cond), body |-> s.then]>>
        \o IF Len(s.else) = 1 /\ s.else[1].op = "if"
           THEN flatten_thread_ifelse_chain(s.else[1], other)
           ELSE <<[guard |-> other, body |-> s.else]>>

try_hoist_initial_thread_state(states) ==
    /\ states # <<>>
    /\ LET first == states[1]
       IN  /\ first.comb = <<>> /\ first.seq # <<>>
           /\ ~IsConditional(first) /\ ~Counted(first) /\ ~Branches(first)
    /\ \A i \in 2..Len(states) : \A j \in DOMAIN states[i].multi : states[i].multi[j].to # 0

(* The wait's exit does the dispatch, and the first assignments of each    *)
(* branch when they have a state of their own.                             *)
CanFuse(c) ==
    c.states # <<>> /\ LET w == Last(c.states) IN IsConditional(w) /\ ~Counted(w) /\ ~Branches(w)

try_fuse_wait_ifelse(c, s) ==
    LET at == Len(c.states)
        chain == flatten_thread_ifelse_chain(s, Last(c.states).cond)
        Lay(acc, arm) ==
            LET base == Len(acc.cur.states)
                p == IF arm.body = <<>> THEN Cursor(acc.cur.loops)
                     ELSE partition_thread_body(arm.body, acc.cur.loops)
                hoist == try_hoist_initial_thread_state(p.states)
                shift == [t \in Int |-> IF hoist THEN t - 1 + base ELSE t + base]
                own == IF hoist THEN Tail(p.states) ELSE p.states
            IN  [cur  |-> [acc.cur EXCEPT !.states = @ \o Retarget(own, shift), !.loops = p.loops],
                 arms |-> Append(acc.arms,
                            [guard |-> arm.guard, base |-> base, end |-> base + Len(own),
                             seq |-> IF hoist THEN Guarded(arm.guard, p.states[1].seq) ELSE <<>>])]
        laid == FoldLeft(Lay, [cur |-> c, arms |-> <<>>], chain)
        rejoin == Len(laid.cur.states)
        Join(states, arm) == Rejoin(states, arm.base, arm.end, rejoin)
        joined == FoldLeft(Join, laid.cur.states, laid.arms)
        arms == laid.arms
    IN  [laid.cur EXCEPT !.fast = <<>>, !.states =
            [joined EXCEPT
                ![at].seq = @ \o FlattenSeq([i \in DOMAIN arms |-> arms[i].seq]),
                ![at].cond = None,
                ![at].multi = [i \in DOMAIN arms |->
                    Arm(arms[i].guard,
                        IF arms[i].base = arms[i].end THEN rejoin ELSE arms[i].base)]]]

(* `if not X; wait until X; end if`: one state, left in the cycle X holds. *)
fast_wait_if_condition(s) ==
    /\ s.else = <<>> /\ Len(s.then) = 1
    /\ s.then[1].op = "until" /\ s.cond = Not(s.then[1].cond)

IfElse(c, s) ==
    IF ~Pending(c) /\ fast_wait_if_condition(s)
    THEN [Push(c, [State(<<>>, <<>>) EXCEPT !.cond = s.then[1].cond])
             EXCEPT !.fast = <<[at |-> Len(c.states), guard |-> s.then[1].cond]>>]
    ELSE IF ~contains_wait(<<s>>)
    THEN [c EXCEPT !.comb = @ \o assigns(<<s>>, "comb"), !.seq = @ \o assigns(<<s>>, "seq")]
    ELSE IF ~Pending(c) /\ CanFuse(c) THEN try_fuse_wait_ifelse(c, s)
    ELSE DispatchAndRejoin(c, s)
-----------------------------------------------------------------------------
(* lower_fork_join: a state for every combination of the branches' states, *)
(* each with a last one for done; the one where all are done is the state  *)
(* after the fork.  at and idx are the branches' states and their indices, *)
(* act the branches not yet done; a mask is the set of those that leave.   *)
In(mask, b) == (mask \div 2^(b - 1)) % 2 = 1

ForkArm(at, idx, weight, act, mask) ==
    LET conds == SelectSeq([b \in DOMAIN act |-> b], LAMBDA b : IsConditional(at[act[b]]))
        pos == SelectSeq(conds, LAMBDA b : In(mask, b))
        neg == SelectSeq(conds, LAMBDA b : ~In(mask, b))
        leave == {act[b] : b \in {x \in DOMAIN act : In(mask, x)}}
        Encode(m, i) == m + weight[i] * (idx[i] + IF i \in leave THEN 1 ELSE 0)
    IN  Arm(FoldLeft(LAMBDA g, b : And(g, Not(at[act[b]].cond)),
                     AllOf([j \in DOMAIN pos |-> at[act[pos[j]]].cond]), neg),
            FoldLeft(Encode, 0, [i \in DOMAIN idx |-> i]))

ForkArms(at, idx, weight, act) ==
    LET top == 2^Len(act) - 1
        Legal(mask) == \A b \in DOMAIN act : In(mask, b) \/ IsConditional(at[act[b]])
        masks == SelectSeq([j \in 1..top |-> top + 1 - j], Legal)
    IN  [j \in DOMAIN masks |-> ForkArm(at, idx, weight, act, masks[j])]

ForkState(parts, idx, weight) ==
    LET at == [i \in DOMAIN parts |-> parts[i][idx[i] + 1]]
        act == SelectSeq([i \in DOMAIN parts |-> i], LAMBDA i : idx[i] < Len(parts[i]) - 1)
        Seq1(s) == IF IsConditional(s) THEN Guarded(s.cond, s.seq) ELSE s.seq
    IN  [State(FlattenSeq([i \in DOMAIN at |-> at[i].comb]),
               FlattenSeq([i \in DOMAIN at |-> Seq1(at[i])]))
            EXCEPT !.multi = ForkArms(at, idx, weight, act)]

Product(parts) ==
    LET weight == [i \in 1..(Len(parts) + 1) |->
                      FoldLeft(LAMBDA m, b : m * Len(b), 1, SubSeq(parts, 1, i - 1))]
        index(p) == [i \in DOMAIN parts |-> (p \div weight[i]) % Len(parts[i])]
    IN  [p \in 1..(weight[Len(parts) + 1] - 1) |-> ForkState(parts, index(p - 1), weight)]

lower_fork_join(branches, loops) ==
    LET Part(acc, body) ==
            LET p == partition_thread_body(body, acc.loops)
            IN  [loops |-> p.loops, list |-> Append(acc.list, Append(p.states, State(<<>>, <<>>)))]
        parts == FoldLeft(Part, [loops |-> loops, list |-> <<>>], branches)
    IN  [states |-> Product(parts.list), loops |-> parts.loops]

ForkJoin(c, s) ==
    LET flushed == flush_pending_thread_state(c)
        fork == lower_fork_join(s.branches, c.loops)
        shift == [t \in Int |-> t + Len(flushed.states)]
    IN  [flushed EXCEPT !.states = @ \o Retarget(fork.states, shift), !.loops = fork.loops]

(* lower_thread_for: whatever leaves the body counts the iteration, and    *)
(* goes back to its first state or past it.                                *)
LoopBack(s, exit, loop, end, past) ==
    [s EXCEPT !.cond = None,
              !.seq = Append(@, [Do("inc", loop) EXCEPT !.when = exit]),
              !.multi = SelectSeq(@, LAMBDA a : a.to < past)
                        \o <<Arm(And(exit, Below(loop, end)), 0),
                             Arm(And(exit, Not(Below(loop, end))), past)>>]
LeavingArms(s, past) ==
    LET out == SelectSeq(s.multi, LAMBDA a : a.to >= past) IN [i \in DOMAIN out |-> out[i].when]

LoopBackLast(states, loop, end) ==
    LET past == Len(states)
        Cascade(i) ==
            LET s == states[i]
                out == LeavingArms(s, past)
            IN  IF out # <<>> THEN LoopBack(s, AnyOf(out), loop, end, past)
                ELSE IF i < past THEN s
                ELSE LoopBack(s, IF IsConditional(s) THEN s.cond ELSE True, loop, end, past)
    IN  [i \in DOMAIN states |-> Cascade(i)]

lower_thread_for(body, loop, end) ==
    LET p == partition_thread_body(body, loop + 1)
    IN  [states |-> LoopBackLast(p.states, loop, end), loops |-> p.loops]

For(c, s) ==
    LET start == <<Do("start", c.loops)>>
        last == Len(c.states)
        merges == /\ ~Pending(c) /\ c.fast = <<>> /\ last > 0
                  /\ ~Branches(c.states[last]) /\ c.no_merge # last - 1
        begun == IF merges THEN [c EXCEPT !.states[last].seq = @ \o start]
                 ELSE flush_pending_thread_state([c EXCEPT !.seq = @ \o start])
        loop == lower_thread_for(s.body, c.loops, s.end)
        shift == [t \in Int |-> t + Len(begun.states)]
    IN  [begun EXCEPT !.states = @ \o Retarget(loop.states, shift), !.loops = loop.loops]

(* `do ... until`: the body's assignments happen in every cycle of the     *)
(* wait.                                                                   *)
DoUntil(c, s) ==
    LET comb == assigns(s.body, "comb")
        seq == assigns(s.body, "seq")
        f == c.fast[1]
    IN  IF ~Pending(c) /\ c.fast # <<>>
        THEN [c EXCEPT !.states[f.at + 1].comb = @ \o Guarded(f.guard, comb),
                       !.states[f.at + 1].seq = @ \o Guarded(f.guard, seq),
                       !.states[f.at + 1].cond = And(f.guard, s.cond),
                       !.fast = <<>>]
        ELSE Push(flush_pending_thread_state(c), [State(comb, seq) EXCEPT !.cond = s.cond])

Statement(c, s) ==
    CASE s.op = "comb"   -> [c EXCEPT !.comb = Append(@, Do("put", s.id))]
      [] s.op = "seq"    -> [c EXCEPT !.seq = Append(@, Do("put", s.id))]
      [] s.op = "until"  -> WaitUntil(c, s)
      [] s.op = "cycles" -> WaitCycles(c, s)
      [] s.op = "if"     -> IfElse(c, s)
      [] s.op = "fork"   -> ForkJoin(c, s)
      [] s.op = "for"    -> For(c, s)
      [] s.op = "do"     -> DoUntil(c, s)

(* Assignments after the last wait: on the exits of a two-way last state   *)
(* (a for loop's) and of every state that leaves where it does, on the     *)
(* exit of a conditional one, or in a state of their own.                  *)
Trailing(c) ==
    LET n == Len(c.states)
        mergeable == c.comb = <<>> /\ n > 0 /\ c.no_merge # n - 1
        ends == Last(c.states)
        exits(i) == IF i = n THEN <<ends.multi[2].when>> ELSE LeavingArms(c.states[i], n)
        with(i) == IF exits(i) = <<>> THEN c.states[i]
                   ELSE [c.states[i] EXCEPT !.seq = @ \o Guarded(AnyOf(exits(i)), c.seq)]
    IN  IF ~Pending(c) THEN c
        ELSE IF mergeable /\ Len(ends.multi) = 2
        THEN [c EXCEPT !.states = [i \in 1..n |-> with(i)]]
        ELSE IF mergeable /\ IsConditional(ends)
        THEN [c EXCEPT !.states[n].seq = @ \o Guarded(ends.cond, c.seq)]
        ELSE Push(c, [State(c.comb, c.seq) EXCEPT !.no_fold = c.no_fold])

partition_thread_body(body, loops) ==
    LET c == FoldLeft(Statement, Cursor(loops), body)
    IN  Trailing(IF c.fast # <<>> THEN flush_pending_thread_state(c) ELSE c)
=============================================================================
