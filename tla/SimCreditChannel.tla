-------------------------- MODULE SimCreditChannel --------------------------
(***************************************************************************)
(* The C++ fields and statements that sim_credit_channel.rs adds to the    *)
(* classes of the two modules of a CreditChannel, driven by the same       *)
(* inputs.  An eval() runs the posedge updates, which read the valid field *)
(* of the last comb update, and then the comb updates.                     *)
(***************************************************************************)
EXTENDS CreditChannel

VARIABLES
    sim_sender,         \* [credit, can_send]
    sim_receiver        \* [buf, head, tail, occ, valid, data]

sim_vars == <<vars, sim_sender, sim_receiver>>

(* emit_comb_updates: can_send is recomputed even if it is registered.     *)
CombSender(s) == [s EXCEPT !.can_send = s.credit # 0]
CombReceiver(r) == [r EXCEPT !.valid = r.occ # 0, !.data = r.buf[r.head]]

PosedgeSender(s, send_valid, credit_return) ==
    [s EXCEPT !.credit = IF send_valid /\ ~credit_return THEN @ - 1
                         ELSE IF ~send_valid /\ credit_return THEN @ + 1 ELSE @]

OccPushWins(o, push, pop_fire) == IF push THEN o + 1 ELSE IF pop_fire THEN o - 1 ELSE o
OccAfter(o, push, pop_fire) ==
    IF push /\ ~pop_fire THEN o + 1 ELSE IF ~push /\ pop_fire THEN o - 1 ELSE o

PosedgeReceiver(r, push, word, pop) ==
    LET pop_fire == pop /\ r.valid
    IN  [r EXCEPT !.buf = IF push THEN [@ EXCEPT ![r.tail] = word] ELSE @,
                  !.tail = IF push THEN Step(@) ELSE @,
                  !.head = IF pop_fire THEN Step(@) ELSE @,
                  !.occ = OccAfter(@, push, pop_fire)]

ResetSender(s) == [s EXCEPT !.credit = DEPTH]
ResetReceiver(r) == [r EXCEPT !.head = 0, !.tail = 0, !.occ = 0]

SimInit ==
    /\ Init
    /\ sim_sender = [credit |-> DEPTH, can_send |-> TRUE]
    /\ sim_receiver = [buf |-> [i \in 0..(DEPTH - 1) |-> NoData], head |-> 0, tail |-> 0,
                       occ |-> 0, valid |-> FALSE, data |-> NoData]

SimEdge(send, arrive, pop, back) ==
    LET word == IF arrive THEN Head(link \o <<send>>) ELSE NoData
    IN  /\ Edge(send, arrive, pop, back)
        /\ sim_sender' = CombSender(PosedgeSender(sim_sender, send # NoData, back))
        /\ sim_receiver' = CombReceiver(PosedgeReceiver(sim_receiver, arrive, word, pop))

(* A clock edge with the reset asserted: the class looks at the reset on a *)
(* rising edge only, so this is the one reset the two have in common.      *)
SimReset ==
    /\ Reset
    /\ sim_sender' = CombSender(ResetSender(sim_sender))
    /\ sim_receiver' = CombReceiver(ResetReceiver(sim_receiver))

SimNext ==
    \/ \E send \in Words, arrive, pop, back \in BOOLEAN : SimEdge(send, arrive, pop, back)
    \/ SimReset

SimSpec == SimInit /\ [][SimNext]_sim_vars
SimFairSpec == SimSpec /\ WF_vars(Arrive) /\ WF_vars(Pop) /\ WF_vars(Back)
-----------------------------------------------------------------------------
(* The classes answer can_send, valid and data as the circuit does.        *)
SimAgrees ==
    /\ sim_sender.can_send = can_send
    /\ sim_receiver.valid = valid
    /\ valid => sim_receiver.data = data
=============================================================================
