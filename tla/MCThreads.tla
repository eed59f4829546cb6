----------------------------- MODULE MCThreads -----------------------------
(***************************************************************************)
(* Bodies for ThreadFsm: each construct, the pairs of constructs whose     *)
(* states are merged, and every kind of edge into a counted wait.          *)
(***************************************************************************)
EXTENDS ThreadFsm

a == Input("a")
b == Input("b")
c == Input("c")

set(id) == [op |-> "seq", id |-> id]
drive(id) == [op |-> "comb", id |-> id]
until(e) == [op |-> "until", cond |-> e]
cycles(n) == [op |-> "cycles", n |-> n]
if(e, then, else) == [op |-> "if", cond |-> e, then |-> then, else |-> else]
fork(branches) == [op |-> "fork", branches |-> branches]
for(end, body) == [op |-> "for", end |-> end, body |-> body]
do(body, e) == [op |-> "do", body |-> body, cond |-> e]

Bodies == [
    handshake |-> <<set("x"), drive("v"), until(a), set("y"), drive("w"), until(b), set("end")>>,
    counted   |-> <<set("x"), cycles(1), set("y"), cycles(3), until(a), cycles(2), set("end")>>,
    dispatch  |-> <<set("x"), if(a, <<set("y"), until(b), set("z")>>, <<cycles(2)>>), set("end")>>,
    nested    |-> <<if(a, <<if(b, <<cycles(2), set("x")>>, <<>>)>>, <<set("y"), until(c)>>),
                    if(b, <<set("z")>>, <<>>), set("end")>>,
    fused     |-> <<until(a), if(b, <<set("x"), cycles(1), set("y")>>,
                                 <<if(c, <<set("z"), until(a)>>, <<cycles(2)>>)>>), set("end")>>,
    folded_if |-> <<until(a), set("x"), if(b, <<until(c)>>, <<set("y"), cycles(2)>>), set("end")>>,
    fast      |-> <<if(Not(a), <<until(a)>>, <<>>), set("x"), cycles(1), set("y"), drive("v"),
                    until(b), set("end")>>,
    fast_loop |-> <<if(Not(a), <<until(a)>>, <<>>), for(1, <<set("y"), until(b)>>), set("end")>>,
    hold      |-> <<do(<<drive("v"), set("x")>>, a), set("y"), do(<<drive("w")>>, b), set("end")>>,
    hold_loop |-> <<do(<<drive("v"), set("x")>>, a), for(1, <<set("y"), until(b)>>), set("end")>>,
    loop      |-> <<until(a), for(2, <<set("x"), until(b), set("y")>>), set("end")>>,
    loops     |-> <<for(1, <<set("x"), for(1, <<until(a), set("y")>>), set("z")>>), until(b),
                    set("end")>>,
    loop_if   |-> <<set("x"), for(1, <<if(a, <<until(b), set("y")>>, <<set("z"), until(c)>>)>>),
                    set("end")>>,
    if_loop   |-> <<set("x"), if(a, <<for(1, <<set("y"), until(b)>>)>>, <<until(c)>>), set("end")>>,
    join      |-> <<set("x"), fork(<< <<set("y"), until(a), set("z")>>, <<drive("v"), until(b)>> >>),
                    set("end")>>,
    join3     |-> <<fork(<< <<until(a)>>, <<until(b), set("x")>>, <<set("y"), until(c)>> >>),
                    until(a), set("end")>>,
    held      |-> <<do(<<drive("v")>>, a), set("y"), until(c), do(<<drive("w")>>, b), set("end")>>,
    loop_wait |-> <<until(a), for(2, <<set("x"), until(b), set("y")>>), until(c), set("end")>>,
    if_if     |-> <<set("w"), if(a, <<set("x"), if(b, <<cycles(2), set("y")>>, <<until(c)>>)>>,
                                 <<until(b), set("z")>>), cycles(1), set("end")>>,
    if_join   |-> <<if(a, <<fork(<< <<until(a), set("y")>>, <<until(b)>> >>)>>, <<until(c)>>),
                    set("end")>>,
    wrap      |-> <<cycles(1), set("x"), until(a), cycles(2), until(b), set("end")>>,
    wrap_loop |-> <<cycles(1), for(1, <<set("x"), until(a), cycles(2), until(b)>>), set("end")>>,
    overlap   |-> <<until(a), drive("v"), until(b), cycles(2), set("end")>>,
    loop_back |-> <<until(a), for(1, <<cycles(2), set("x"), until(b)>>), set("end")>>,
    rejoin    |-> <<if(a, <<until(b), set("x")>>, <<>>), cycles(2), set("end")>>,
    joined    |-> <<fork(<< <<until(a)>>, <<set("x"), until(b)>> >>), cycles(2), set("end")>>
]

(* lower_fork_join keeps only the `wait until` of a branch; the simulator  *)
(* keeps every wait.  It runs what follows a `for` in every turn, and the  *)
(* register assignments of a `do` only when that ends.                     *)
RichBranches == [
    join_if |-> <<until(c), fork(<< <<set("x"), if(a, <<until(b), set("y")>>,
                                          <<cycles(2), drive("v"), until(c)>>)>>,
                        <<drive("w"), until(b), set("z"), drive("u")>> >>), set("end")>>
]
AllBodies == Bodies @@ RichBranches
FsmOnly == {"loop", "hold", "hold_loop"}

(* `wait until a; x <= ...; wait 3 cycle; end <= ...;`                      *)
FoldedBeforeCount == [folded |-> <<until(a), set("x"), cycles(3), set("end")>>]

(* `wait until a; wait 2 cycle; wait 3 cycle; end <= ...;`: the decrement   *)
(* of the first wait is emitted after the load of the second, and stays.    *)
CountAfterCount == [counts |-> <<until(a), cycles(2), cycles(3), set("end")>>]

(* `wait until a; if b x <= ...; wait 1 cycle; end if; end <= ...;`         *)
ShortBranch == [short |-> <<until(a), if(b, <<set("x"), cycles(1)>>, <<>>), set("end")>>]
=============================================================================
