----------------------------- MODULE ThreadFsm -----------------------------
(***************************************************************************)
(* The circuit lower_module_threads (elaborate/threads.rs) builds from the *)
(* states of ThreadLowering, clock edge by clock edge with any inputs,     *)
(* next to the positions in the source text that explain the assignments   *)
(* it has made so far.  Threads are repeating (not `once`) and without     *)
(* `default when`.                                                         *)
(***************************************************************************)
EXTENDS ThreadLowering, FiniteSets, TLC

CONSTANTS
    Programs,       \* the bodies under test, by name
    Inputs,         \* the inputs they read
    CNT_RANGE,      \* 2^32 in the circuit: values of _cnt
    LOOP_RANGE      \* 2^cnt_width: values of a _loop_cnt

VARIABLES
    prog,           \* the body
    fsm,            \* the states of the circuit built from it
    due,            \* the input, by its place in InputOrder, that is to be raised next
    state, cnt, loop_cnt,   \* the registers
    fired,          \* assignments made at the last edge
    source          \* where the source text may be

vars == <<prog, fsm, due, state, cnt, loop_cnt, fired, source>>

Loops == 0..1
InputOrder == SetToSeq(Inputs)

thread_natural_next_state(si, n) == IF si + 1 < n THEN si + 1 ELSE 0
thread_resolve_target(t, n) == IF t >= n THEN 0 ELSE t

(* Assignments behind a `wait until` move onto its exit when only the wait *)
(* leads to them.                                                          *)
IsAction(s) == ~IsConditional(s) /\ ~Counted(s) /\ ~Branches(s)
SoleEntry(states, si) == \A i \in DOMAIN states : \A j \in DOMAIN states[i].multi :
                             states[i].multi[j].to # si
MayFold(states, si) ==
    LET w == states[si + 1]
        a == states[si + 2]
    IN  /\ IsConditional(w) /\ ~Counted(w) /\ ~Branches(w)
        /\ w.exit_seq = <<>> /\ w.seq = <<>> /\ ~w.folded
        /\ IsAction(a) /\ ~a.folded /\ a.seq # <<>> /\ ~a.no_fold
        /\ SoleEntry(states, si + 1)

fold_wait_until_exit_assignments(states) ==
    LET n == Len(states)
        Fold(ss, si) ==
            IF ~MayFold(ss, si) THEN ss
            ELSE [ss EXCEPT ![si + 1].exit_seq = ss[si + 2].seq,
                            ![si + 1].exit_target = thread_natural_next_state(si + 1, n),
                            ![si + 2].seq = <<>>, ![si + 2].folded = TRUE]
    IN  FoldLeft(Fold, states, [i \in 1..(n - 1) |-> i - 1])

(* Every edge of the table into a counted wait loads the counter.          *)
LexicalEdgesInto(states, si, w) ==
    IF thread_natural_next_state(si, Len(states)) # w THEN <<>> ELSE <<True>>
EdgesInto(states, si, w) ==
    LET n == Len(states)
        s == states[si + 1]
        out == SelectSeq(s.multi, LAMBDA a : thread_resolve_target(a.to, n) = w)
        natural == IF thread_natural_next_state(si, n) # w THEN <<>>
                   ELSE <<IF IsConditional(s) THEN s.cond ELSE IF Counted(s) THEN CntZero ELSE True>>
    IN  IF Branches(s) THEN [i \in DOMAIN out |-> out[i].when] ELSE natural
counter_loads(states) ==
    LET loads(si, w) ==
            IF ~Counted(states[w + 1]) THEN <<>>
            ELSE LET edges == EdgesInto(states, si, w)
                 IN  [i \in DOMAIN edges |->
                        [Do("load", states[w + 1].cycles - 1) EXCEPT !.when = edges[i]]]
    IN  [i \in DOMAIN states |->
            [states[i] EXCEPT !.seq = @ \o FlattenSeq([w \in DOMAIN states |-> loads(i - 1, w - 1)])]]

Lowered(body) ==
    counter_loads(fold_wait_until_exit_assignments(partition_thread_body(body, 0).states))

At(si) == fsm[si + 1]
NextState(si) ==
    IF At(si).exit_target >= 0 THEN At(si).exit_target
    ELSE thread_natural_next_state(si, Len(fsm))

(* A conditional successor that drives outputs is active already in the    *)
(* cycle its predecessor is left.                                          *)
Overlaps(si) ==
    LET next == At(NextState(si))
    IN  /\ IsConditional(At(si)) /\ ~Branches(At(si))
        /\ NextState(si) # si /\ ~next.folded
        /\ IsConditional(next) /\ ~Branches(next) /\ ~Counted(next)
        /\ next.comb # <<>>

CountdownUnlessBranching(s) == IF Counted(s) /\ ~Branches(s) THEN <<Do("dec", 0)>> ELSE <<>>
Countdown(s) == IF Counted(s) THEN <<Do("dec", 0)>> ELSE <<>>

Transition(si) ==
    LET s == At(si)
        go == <<Do("goto", NextState(si))>>
    IN  IF Branches(s)
        THEN [i \in DOMAIN s.multi |->
                 [Do("goto", thread_resolve_target(s.multi[i].to, Len(fsm)))
                     EXCEPT !.when = s.multi[i].when]]
        ELSE IF IsConditional(s) THEN Guarded(s.cond, s.exit_seq \o go)
        ELSE IF Counted(s) THEN Guarded(CntZero, go)
        ELSE go

StateBody(si) == At(si).seq \o Countdown(At(si)) \o Transition(si)
EdgeBody(si) ==
    StateBody(si) \o IF Overlaps(si) THEN Guarded(At(si).cond, StateBody(NextState(si))) ELSE <<>>
Outputs(si) ==
    At(si).comb \o IF Overlaps(si) THEN Guarded(At(si).cond, At(NextState(si)).comb) ELSE <<>>

Executed(stmts, env) == SelectSeq(stmts, LAMBDA s : Holds(s.when, env))
Puts(stmts) == {stmts[i].arg : i \in {j \in DOMAIN stmts : stmts[j].what = "put"}}

(* Nonblocking assignments: old values are read, the last write stays.     *)
Register(old, stmts, Write(_, _)) == FoldLeft(Write, old, stmts)
StateWrite(v, s) == IF s.what = "goto" THEN s.arg ELSE v
CntWrite(v, s) ==
    CASE s.what = "load" -> s.arg
      [] s.what = "dec"  -> (cnt - 1) % CNT_RANGE
      [] OTHER           -> v
LoopWrite(v, s) ==
    CASE s.what = "start" -> [v EXCEPT ![s.arg] = 0]
      [] s.what = "inc"   -> [v EXCEPT ![s.arg] = (loop_cnt[s.arg] + 1) % LOOP_RANGE]
      [] OTHER            -> v
-----------------------------------------------------------------------------
(* The source text.  A position is the statements to come and the outputs  *)
(* assigned since the last wait.  see is what the edge shows: the          *)
(* assignments made, the outputs driven, the inputs.  Moves are the        *)
(* statements that may be executed at the edge; did are their assignments. *)
Position(rest, held) == [rest |-> rest, held |-> held]
Move(rest, held, did) == [to |-> Position(rest, held), did |-> did]

RECURSIVE Moves(_, _)
Moves(pos, see) ==
    IF pos.rest = <<>> THEN {}
    ELSE
    LET s == Head(pos.rest)
        after == Tail(pos.rest)
        must(body, op) == Puts(Executed(assigns(body, op), see))
    IN  CASE s.op = "seq"  -> IF s.id \in see.puts THEN {Move(after, pos.held, {s.id})} ELSE {}
          [] s.op = "comb" -> {Move(after, pos.held \cup {s.id}, {})}
          [] s.op = "until" ->
                IF Holds(s.cond, see) /\ pos.held \subseteq see.driven
                THEN {Move(after, {}, {})} ELSE {}
          [] s.op = "cycles" -> {Move(<<[op |-> "delay", n |-> s.n]>> \o after, {}, {})}
          [] s.op = "delay" -> {}
          [] s.op = "if" ->
                {Move((IF Holds(s.cond, see) THEN s.then ELSE s.else) \o after,
                      IF contains_wait(<<s>>) THEN {} ELSE pos.held, {})}
          [] s.op = "for" -> {Move(FlattenSeq([i \in 1..(s.end + 1) |-> s.body]) \o after, {}, {})}
          [] s.op = "do" ->
                IF must(s.body, "seq") \subseteq see.puts /\ must(s.body, "comb") \subseteq see.driven
                THEN {Move(IF Holds(s.cond, see) THEN after ELSE pos.rest, {}, must(s.body, "seq"))}
                ELSE {}
          [] s.op = "fork" ->
                {Move(<<[op |-> "join",
                         branches |-> [b \in DOMAIN s.branches |-> Position(s.branches[b], {})]]>>
                      \o after, {}, {})}
          [] s.op = "join" ->
                IF \A b \in DOMAIN s.branches : s.branches[b].rest = <<>>
                THEN {Move(after, {}, {})}
                ELSE UNION {{Move(<<[s EXCEPT !.branches[b] = m.to]>> \o after, {}, m.did) :
                                m \in Moves(s.branches[b], see)} : b \in DOMAIN s.branches}

(* A clock edge passes: `wait N cycle` has one less to go.                 *)
RECURSIVE Aged(_)
Aged(rest) ==
    IF rest = <<>> THEN rest
    ELSE LET s == Head(rest)
         IN  CASE s.op = "delay" ->
                    (IF s.n = 1 THEN <<>> ELSE <<[s EXCEPT !.n = @ - 1]>>) \o Tail(rest)
               [] s.op = "join" ->
                    <<[s EXCEPT !.branches = [b \in DOMAIN @ |->
                           [@[b] EXCEPT !.rest = Aged(@)]]]>> \o Tail(rest)
               [] OTHER -> rest

(* All positions reached from found, with the assignments made on the way; *)
(* at its end the body starts again.                                       *)
RECURSIVE Reached(_, _, _)
Reached(found, new, see) ==
    LET from(x) ==
            IF x.pos.rest = <<>> THEN {[x EXCEPT !.pos = Position(Programs[prog], {})]}
            ELSE {[pos |-> m.to, did |-> x.did \cup m.did] : m \in Moves(x.pos, see)}
        next == (UNION {from(x) : x \in new}) \ found
    IN  IF next = {} THEN found ELSE Reached(found \cup next, next, see)

Explained(see) ==
    LET start == {[pos |-> [p EXCEPT !.rest = Aged(@)], did |-> {}] : p \in source}
    IN  {x.pos : x \in {y \in Reached(start, start, see) : y.did = see.puts}}
-----------------------------------------------------------------------------
Init ==
    /\ prog \in DOMAIN Programs /\ fsm = Lowered(Programs[prog]) /\ due = 1
    /\ state = 0 /\ cnt = 0 /\ loop_cnt = [l \in Loops |-> 0]
    /\ fired = {}
    /\ source = {Position(Programs[prog], {})}

Edge(inputs) ==
    LET env == [inputs |-> inputs, cnt |-> cnt, loop_cnt |-> loop_cnt]
        made == Executed(EdgeBody(state), env)
        see == [puts |-> Puts(made), driven |-> Puts(Executed(Outputs(state), env))] @@ env
    IN  /\ state' = Register(state, made, StateWrite)
        /\ cnt' = Register(cnt, made, CntWrite)
        /\ loop_cnt' = Register(loop_cnt, made, LoopWrite)
        /\ fired' = Puts(made)
        /\ source' = Explained(see)
        /\ due' = IF InputOrder[due] \in inputs THEN (due % Len(InputOrder)) + 1 ELSE due
        /\ UNCHANGED <<prog, fsm>>

Next == \E inputs \in SUBSET Inputs : Edge(inputs)

(* The clock runs, and whoever drives an input raises it again and again,  *)
(* not necessarily together with another.                                  *)
Raised == []<>(due = 1) /\ []<>(due # 1)
FairSpec == Init /\ [][Next]_vars /\ Raised
-----------------------------------------------------------------------------
(* What the circuit, or the simulator, does is an execution of the body:   *)
(* every assignment is made once, in program order, waits are passed only  *)
(* on edges where their condition holds and with their outputs driven, a   *)
(* counted wait is not cut short, a join waits for all branches, a loop    *)
(* runs its number of times.                                               *)
FollowsProgram == source # {}

(* A counted wait lasts as many edges as it says: whatever edge leads into *)
(* it loads the counter, every edge in it counts down, and it is left at   *)
(* zero, not earlier.  A wait of one state may follow itself.  Two ways in *)
(* fail: FoldedBeforeCount (the run thread_fold) and CountAfterCount.      *)
WaitsTakeTheirCycles ==
    [][LET here == fsm[state + 1]
           next == fsm[state' + 1]
           counts == Counted(here) /\ cnt > 0
       IN  /\ counts => state' = state
           /\ Counted(next) => cnt' = IF counts THEN cnt - 1 ELSE next.cycles - 1]_vars

(* While its inputs keep coming, a thread never stops: the assignment that *)
(* ends every pass through its body is made again and again.               *)
PassesRecur == []<>("end" \in fired)
=============================================================================
