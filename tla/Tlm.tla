-------------------------------- MODULE Tlm --------------------------------
(***************************************************************************)
(* One tlm_method between an initiator and its targets: the drivers, the   *)
(* decoded connect and the targets that elaborate/tlm.rs generates.        *)
(*                                                                         *)
(* A link says what stands on either side of the method's wires:           *)
(*   initiator "cohort"   lower_tlm_initiator_cohort: n workers or         *)
(*                        fork branches of one direct call each            *)
(*             "fork"     inline_lower_tlm_fork_join_all: n calls          *)
(*                        `d <= fork p.m(a)` and a `join all`              *)
(*             "group"    inline_lower_tlm_initiator_group: n threads      *)
(*                        whose calls are in a lock, or one thread         *)
(*             "port"     a handwritten initiator outside this compiler    *)
(*   target    "thread"   inline_lower_tlm_target                          *)
(*             "lanes"    lower_indexed_tlm_target_group, a lane per tag   *)
(*             "decoded"  lower_decoded_tlm_connect to two target threads, *)
(*                        of which those in `missing` lack the method      *)
(*             "pool"     a target outside this compiler that may hold     *)
(*                        many calls; it answers in order unless tagged    *)
(* A step is one clock edge, or a reset.                                   *)
(***************************************************************************)
EXTENDS Integers, Sequences, FiniteSets, Functions, SequencesExt

CONSTANTS
    Links,          \* records [initiator, n, tagged, policy, delay, tail, target,
                    \*          missing, body, joins]
    Nothing         \* no request, no answer

(* What the constants may be.  The calls of a fork group become due in     *)
(* program order; lanes need tags, and a decoded connect a blocking method.*)
WellFormed ==
    \A l \in Links :
        /\ l.initiator \in {"cohort", "fork", "group", "port"}
        /\ l.target \in {"thread", "lanes", "decoded", "pool"}
        /\ l.n \in Nat \ {0} /\ l.tagged \in BOOLEAN
        /\ l.delay \in [1..l.n -> Nat] /\ \A i, j \in 1..l.n : i <= j => l.delay[i] <= l.delay[j]
        /\ l.target = "lanes" => l.tagged
        /\ l.target = "decoded" => ~l.tagged
        /\ l.missing \subseteq {0, 1} /\ (l.target # "decoded" => l.missing = {})
        /\ Nothing \notin [who : -1..(l.n - 1), addr : -1..1, tag : 0..(l.n - 1)]

VARIABLES
    link,
    state,          \* of each call: "issue", "wait", "done" (fork), "compute" (group)
    order,          \* issue-order fifo of cohort and fork: fifo, head, tail, occ
    age, tail_done, \* of the fork group
    rr_ptr,         \* of the group's request arbiter
    route, err_valid,   \* registers of the decoded connect
    unit,           \* target threads and lanes: st "entry", "body", "respond", and latched
    hold, arb,      \* response hold of the lanes, and their response arbiter
    pool,           \* calls inside the external target
    addr, answer,   \* of each call: its argument, its destination register
    clk,            \* parity of the clock edges so far
    stalled,        \* request and response offered and not accepted at the last edge
    joined          \* calls answered since all of them last were

registers == <<state, order, age, tail_done, rr_ptr, route, err_valid, unit, hold, arb>>
vars == <<link, registers, pool, addr, answer, clk, stalled, joined>>

Calls == 0..(link.n - 1)
Blocking == ~link.tagged
Units == CASE link.target = "thread" -> {0} [] link.target = "decoded" -> {0, 1}
           [] link.target = "lanes" -> Calls [] OTHER -> {}
Address == IF link.target = "decoded" THEN {0, 1} ELSE {0}
InState(s) == {i \in Calls : state[i] = s}
Waiting == InState("wait")
FromZero(set, start, n) == {i \in set : \A j \in set : i <= j}
FromScan(set, start, n) == {i \in set : \A j \in set : (i - start) % n <= (j - start) % n}
Highest(set) == {i \in set : \A j \in set : j <= i}
Lowest(set) == {i \in set : \A j \in set : i <= j}

Reset0 ==
    [state |-> [i \in Calls |-> IF link.initiator = "group" THEN "compute" ELSE "issue"],
     order |-> [fifo |-> [i \in Calls |-> 0], head |-> 0, tail |-> 0, occ |-> 0],
     unit |-> [u \in Units |-> [st |-> "entry", latched |-> Nothing]],
     hold |-> [valid |-> FALSE, idx |-> 0],
     arb |-> [hold_valid |-> FALSE, owner |-> 0, rr |-> 0]]
-----------------------------------------------------------------------------
(* The initiator's request: which call is granted, and what it drives.  A  *)
(* cohort and a fork group grant the first call in program order; a group  *)
(* whose lock is mutex<round_robin> scans from rr_ptr.  A handwritten      *)
(* initiator chooses, and keeps its choice while it is stalled.            *)
HasRoom == order.occ < link.n
Aged(i) == link.delay[i + 1] <= age
wants == CASE link.initiator = "cohort" -> IF HasRoom THEN InState("issue") ELSE {}
           [] link.initiator = "fork" -> IF HasRoom THEN {i \in InState("issue") : Aged(i)} ELSE {}
           [] OTHER -> InState("issue")
grants(pick) ==
    CASE link.initiator = "port" ->
             IF stalled.req # Nothing THEN {stalled.req.who} ELSE pick \cap wants
      [] link.initiator = "group" /\ link.policy = "round_robin" ->
             FromScan(wants, rr_ptr, link.n)
      [] OTHER -> Lowest(wants)
req_tag(i) == IF link.tagged /\ link.initiator # "group" THEN i ELSE 0
Request(i) == [who |-> i, addr |-> addr[i], tag |-> req_tag(i)]
request(pick) == IF grants(pick) = {} THEN Nothing
                 ELSE Request(CHOOSE i \in grants(pick) : TRUE)

(* The targets' side of the request.  A unit takes what it sees in its     *)
(* entry state; the initiator sees the ready of the unit selected by       *)
(* address or tag.  The connect answers itself for a missing method, and   *)
(* is not ready before that answer is taken.                               *)
selected(req) == CASE link.target = "decoded" -> req.addr
                   [] link.target = "lanes" -> req.tag
                   [] OTHER -> 0
Entry(u) == unit[u].st = "entry"
Accepts(u, req) == req # Nothing /\ selected(req) = u /\ u \notin link.missing /\ Entry(u)
req_ready(req, pool_ready) ==
    CASE link.target = "pool" -> pool_ready
      [] link.target = "decoded" ->
             ~err_valid /\ (selected(req) \in link.missing \/ Entry(selected(req)))
      [] OTHER -> Entry(selected(req))

(* The response.  The lanes share one response channel through a lock      *)
(* arbiter, whose release input is left open; a lane that is offered and   *)
(* not accepted is held.  The connect shows the target route points to.    *)
Error == [who |-> -1, addr |-> -1, tag |-> 0]
responding == {u \in Units : unit[u].st = "respond"}
arb_req_always == responding
arb_req == IF hold.valid THEN {} ELSE responding
arb_grant(release) ==
    IF arb.hold_valid /\ arb.owner \in arb_req /\ ~release THEN {arb.owner}
    ELSE IF link.policy = "round_robin" THEN FromScan(arb_req, arb.rr, link.n)
    ELSE Lowest(arb_req)
held_lane == IF hold.valid THEN {hold.idx} ELSE {}
offering(release) ==
    CASE link.target = "lanes" -> (held_lane \cup arb_grant(release)) \cap responding
      [] link.target = "decoded" -> {route} \cap responding
      [] OTHER -> responding
response(offer, release) ==
    CASE link.target = "pool" -> IF offer \in DOMAIN pool THEN pool[offer] ELSE Nothing
      [] link.target = "decoded" /\ err_valid -> Error
      [] OTHER -> IF offering(release) = {} THEN Nothing
                  ELSE unit[CHOOSE u \in offering(release) : TRUE].latched

rsp_ready(port_ready) == CASE link.initiator \in {"cohort", "fork"} -> order.occ > 0
                           [] link.initiator = "group" -> Waiting # {}
                           [] OTHER -> port_ready

(* Who takes a response: the call at the head of the issue order, the one  *)
(* with the tag, or, in a group, whoever waits.                            *)
pops(rsp) == link.initiator \in {"cohort", "fork"} /\ rsp # Nothing /\ order.occ > 0
oldest == order.fifo[order.head]
addressee_in_order(rsp) == {oldest} \cap Waiting
addressee(rsp) ==
    CASE link.initiator = "group" -> {i \in Waiting : link.tagged => rsp.tag = 0}
      [] link.initiator # "group" /\ (link.tagged \/ link.initiator = "port") ->
             {i \in Waiting : rsp.tag = i}
      [] link.initiator = "cohort" /\ Blocking -> {oldest}
      [] link.initiator = "fork" /\ Blocking -> {oldest} \cap Waiting
takers(rsp, port_ready) ==
    IF rsp = Nothing \/ ~rsp_ready(port_ready) THEN {} ELSE addressee(rsp)
-----------------------------------------------------------------------------
(* The registers of the initiator at an edge at which the calls in issued  *)
(* are accepted and those in returned answered.  go: the group's threads   *)
(* whose next statement is a call.                                         *)
NextIdx(p) == IF p = link.n - 1 THEN 0 ELSE p + 1
OccPushFirst(push, pop) == IF push THEN order.occ + 1 ELSE IF pop THEN order.occ - 1 ELSE order.occ
OccNext(push, pop) == CASE push /\ ~pop -> order.occ + 1
                        [] pop /\ ~push -> order.occ - 1
                        [] OTHER -> order.occ
OrderEdge(issued, popped) ==
    order' = [fifo |-> [i \in Calls |-> IF issued # {} /\ i = order.tail
                                        THEN CHOOSE c \in issued : TRUE ELSE order.fifo[i]],
              tail |-> IF issued # {} THEN NextIdx(order.tail) ELSE order.tail,
              head |-> IF popped THEN NextIdx(order.head) ELSE order.head,
              occ |-> OccNext(issued # {}, popped)]

Returned(i, go) == CASE link.initiator = "fork" -> "done"
                     [] link.initiator = "group" /\ i \notin go -> "compute"
                     [] OTHER -> "issue"
AllDone == InState("done") = Calls
RestartOnAny == InState("done") # {}
Restart == AllDone /\ (link.tail => tail_done)
CallEdge(issued, returned, go) ==
    state' = [i \in Calls |->
                 CASE i \in returned -> Returned(i, go)
                   [] i \in issued \ returned -> "wait"
                   [] Restart \/ (state[i] = "compute" /\ i \in go) -> "issue"
                   [] OTHER -> state[i]]
JoinEdge ==
    /\ tail_done' = (link.tail /\ AllDone /\ ~tail_done)
    /\ age' = CASE Restart -> 0
                [] ~AllDone /\ age < link.delay[link.n] -> age + 1
                [] OTHER -> age
GrantEdge(issued) ==
    rr_ptr' = IF link.initiator = "group" /\ link.policy = "round_robin" /\ issued # {}
              THEN NextIdx(CHOOSE i \in issued : TRUE) ELSE rr_ptr

(* The registers of the connect and of the targets.                        *)
ConnectEdge(req, fires, taken) ==
    LET on == link.target = "decoded" /\ fires
    IN  /\ route' = IF on THEN selected(req) ELSE route
        /\ err_valid' = ((on /\ selected(req) \in link.missing) \/ (err_valid /\ ~taken))
Accepted(req) == [st |-> IF link.body THEN "body" ELSE "respond", latched |-> req]
UnitEdge(req, offered, taken, finished) ==
    unit' = [u \in Units |->
                CASE Accepts(u, req) -> Accepted(req)
                  [] unit[u].st = "body" /\ u \in finished -> [unit[u] EXCEPT !.st = "respond"]
                  [] u \in offered /\ taken -> [unit[u] EXCEPT !.st = "entry"]
                  [] OTHER -> unit[u]]
LanesEdge(release, ready) ==
    LET granted == arb_grant(release)
        lane == CHOOSE u \in granted : TRUE
        held == /\ link.target = "lanes" /\ granted # {}
    IN  /\ hold' = CASE hold.valid /\ ready -> [hold EXCEPT !.valid = FALSE]
                     [] held /\ ~ready -> [valid |-> TRUE, idx |-> lane]
                     [] OTHER -> hold
        /\ arb' = IF held THEN [hold_valid |-> ~release, owner |-> lane,
                                rr |-> IF link.policy = "round_robin" THEN NextIdx(lane) ELSE 0]
                  ELSE [arb EXCEPT !.hold_valid = FALSE]

(* A clock edge.  Inputs: the port's choice and ready, the pool's ready    *)
(* and the call it answers, the bodies that finish, the open release.      *)
Edge(pick, ready, offer, finished, release, go) ==
    LET req   == request(pick)
        rsp   == response(offer, release)
        fires == req # Nothing /\ req_ready(req, ready)
        taken == rsp_ready(ready)
        returned == takers(rsp, ready)
        issued   == IF fires THEN grants(pick) ELSE {}
    IN  /\ CallEdge(issued, returned, go) /\ JoinEdge /\ GrantEdge(issued)
        /\ IF link.initiator \in {"cohort", "fork"} THEN OrderEdge(issued, pops(rsp))
           ELSE UNCHANGED order
        /\ ConnectEdge(req, fires, taken)
        /\ UnitEdge(req, offering(release), taken, finished)
        /\ LanesEdge(release, taken)
        /\ pool' = LET kept == IF rsp # Nothing /\ taken /\ link.target = "pool"
                               THEN RemoveAt(pool, offer) ELSE pool
                   IN  IF fires /\ link.target = "pool" THEN Append(kept, req) ELSE kept
        /\ answer' = [i \in Calls |-> IF i \in returned THEN rsp ELSE answer[i]]
        /\ addr' \in {a \in [Calls -> Address] : \A i \in Calls \ returned : a[i] = addr[i]}
        /\ stalled' = [req |-> IF fires THEN Nothing ELSE req,
                       rsp |-> IF taken THEN Nothing ELSE rsp]
        /\ joined' = IF link.joins /\ joined \cup returned # Calls THEN joined \cup returned ELSE {}
        /\ clk' = 1 - clk /\ UNCHANGED link

Cleared ==
    /\ state = Reset0.state /\ order = Reset0.order
    /\ age = 0 /\ tail_done = FALSE /\ rr_ptr = 0
    /\ route = 0 /\ err_valid = FALSE
    /\ unit = Reset0.unit /\ hold = Reset0.hold /\ arb = Reset0.arb /\ pool = <<>>
    /\ stalled = [req |-> Nothing, rsp |-> Nothing] /\ joined = {}
Init ==
    /\ link \in Links /\ clk = 0 /\ Cleared
    /\ addr \in [Calls -> Address] /\ answer = [i \in Calls |-> Nothing]
Reset ==
    /\ UNCHANGED <<link, addr, answer, clk>>
    /\ state' = Reset0.state /\ order' = Reset0.order
    /\ age' = 0 /\ tail_done' = FALSE /\ rr_ptr' = 0
    /\ route' = 0 /\ err_valid' = FALSE
    /\ unit' = Reset0.unit /\ hold' = Reset0.hold /\ arb' = Reset0.arb /\ pool' = <<>>
    /\ stalled' = [req |-> Nothing, rsp |-> Nothing] /\ joined' = {}

Picks == IF link.initiator = "port" THEN {{}} \cup {{i} : i \in Calls} ELSE {{}}
Readies == IF link.initiator = "port" \/ link.target = "pool" THEN BOOLEAN ELSE {TRUE}
Offers == IF pool # <<>> /\ Blocking THEN {0, 1} ELSE 0..Len(pool)
Bodies == {u \in Units : unit[u].st = "body"}
Releases == IF link.target = "lanes" THEN BOOLEAN ELSE {FALSE}
Going == IF link.initiator = "group" THEN SUBSET (Waiting \cup InState("compute")) ELSE {{}}

Clocked ==
    \E pick \in Picks, ready \in Readies, offer \in Offers, finished \in SUBSET Bodies,
       release \in Releases, go \in Going : Edge(pick, ready, offer, finished, release, go)
Next == Clocked \/ Reset
Spec == Init /\ [][Next]_vars

(* An external target or port is ready again and again, target bodies end, *)
(* an external target answers every call it holds unless an answer is      *)
(* being refused, and reset is not pulsed forever.                         *)
Environment ==
    /\ []<>(link.target = "pool" => stalled.req = Nothing)
    /\ []<>(link.initiator = "port" => stalled.rsp = Nothing)
    /\ \A u \in 0..2 : []<>(u \in Units => unit[u].st # "body")
    /\ \A i \in 0..2 : []<>((\E k \in DOMAIN pool : pool[k].who = i) => stalled.rsp # Nothing)
    /\ <>[][~Reset]_vars
FairSpec == Spec /\ []<><<clk' # clk>>_vars /\ Environment
-----------------------------------------------------------------------------
(* Where the requests of waiting calls are: target threads, lanes and the  *)
(* external target; the connect remembers one that it answers itself.      *)
Inside == {<<"unit", u>> : u \in {v \in Units : ~Entry(v)}}
              \cup {<<"pool", k>> : k \in DOMAIN pool}
Held(place) == IF place[1] = "unit" THEN unit[place[2]].latched ELSE pool[place[2]]
Own(i) == IF link.target = "decoded" /\ addr[i] \in link.missing THEN Error ELSE Request(i)

(* Every waiting call is in exactly one place, with the argument it was    *)
(* made with, and nothing else is there: no request is lost, taken twice   *)
(* or left behind.  The issue order counts the waiting calls and, on a     *)
(* blocking method, lists them in the order the target will answer.        *)
CallsConserved ==
    /\ \A i \in Waiting : Own(i) # Error =>
           \E p \in Inside : Held(p) = Request(i) /\ \A q \in Inside : Held(q).who = i => q = p
    /\ \A p \in Inside : Held(p).who \in Waiting
    /\ err_valid <=> \E i \in Waiting : Own(i) = Error
    /\ link.initiator \in {"cohort", "fork"} => order.occ = Cardinality(Waiting)
    /\ link.initiator \in {"cohort", "fork"} /\ Blocking /\ link.target = "pool" =>
           \A k \in DOMAIN pool : order.fifo[(order.head + k - 1) % link.n] = pool[k].who

(* A call returns only while it waits, one at a time, and with the answer  *)
(* to its own request, whatever the order in which answers come back.      *)
AnswersMatch ==
    [][\A i \in Calls :
           /\ state[i] = "wait" /\ state'[i] # "wait" => answer'[i] = Own(i) \/ Cleared'
           /\ answer'[i] # answer[i] => state[i] = "wait"]_vars

(* _auto_tlm_*_req_stable: a request that is not accepted stays, with its  *)
(* arguments and tag; who stands for the arguments of a call.              *)
ReqStable == stalled.req # Nothing => \E pick \in Picks : request(pick) = stalled.req

(* _auto_tlm_*_rsp_stable: a response that is not accepted stays, although *)
(* lanes with a better claim finish in the meantime.                       *)
RspStable == stalled.rsp # Nothing =>
                 \A release \in Releases : response(0, release) = stalled.rsp

(* Both; requests of fork groups, whose calls become due one after the     *)
(* other, and of single calls only.                                        *)
HandshakesStable == RspStable /\ (link.initiator = "fork" \/ link.n = 1 => ReqStable)

(* fork and join: no call is issued again before all have been answered.   *)
JoinIsBarrier ==
    [][link.joins => \A i \in joined : state[i] = "issue" => state'[i] = "issue"]_vars

(* Every accepted call returns; and every call of a fork group, or of a    *)
(* group under a round-robin lock, is accepted: infinitely often a call is *)
(* not waiting, and not asking.                                            *)
CallsReturn ==
    \A i \in 0..2 :
        /\ []<>(i \in Calls => state[i] # "wait")
        /\ []<>(/\ i \in Calls
                /\ \/ link.initiator = "fork"
                   \/ link.initiator = "group" /\ link.policy = "round_robin"
                => state[i] # "issue")
=============================================================================
