------------------------------ MODULE Channels ------------------------------
(***************************************************************************)
(* What the compiler writes between two modules that do not share a        *)
(* handshake cycle by cycle: a credit channel, or a synchronizer           *)
(* (variables y_) between two clocks, each with its C++ counterpart; or    *)
(* the drivers, connects and targets of a tlm_method (t_).                 *)
(***************************************************************************)
EXTENDS SimCreditChannel

CONSTANTS
    STAGES, WIDTH,      \* of the synchronizer
    Links               \* what may stand on either side of a method

(* typecheck demands two flip-flops; NoData stands for no word.            *)
ASSUME SynchronizerAssumption ==
    /\ STAGES \in Nat /\ STAGES >= 2 /\ WIDTH \in Nat \ {0}
    /\ \A w \in SUBSET (0..(WIDTH - 1)) : w # NoData

VARIABLES
    connection,     \* "credit_channel", "synchronizer" or "tlm_method"
    y_kind, y_async, y_metastable, y_rst, y_cleared, y_data_in, y_data_reg, y_req_src,
    y_ack_sync, y_chain, y_ack_dst, y_data_out_reg, y_gap, y_pushed, y_popped,
    y_clk, y_sim, y_owed, y_sim_owed, y_window, y_quiet,
    t_link, t_state, t_order, t_age, t_tail_done, t_rr_ptr, t_route, t_err_valid, t_unit,
    t_hold, t_arb, t_pool, t_addr, t_answer, t_clk, t_stalled, t_joined

Sync == INSTANCE SimSynchronizer WITH
    Kinds <- {"ff", "gray", "handshake", "reset", "pulse"},
    Samplings <- BOOLEAN, CDC_RANDOM <- FALSE,
    kind <- y_kind, async <- y_async, metastable <- y_metastable, rst <- y_rst,
    cleared <- y_cleared, data_in <- y_data_in, data_reg <- y_data_reg,
    req_src <- y_req_src, ack_sync <- y_ack_sync, chain <- y_chain, ack_dst <- y_ack_dst,
    data_out_reg <- y_data_out_reg, gap <- y_gap, pushed <- y_pushed, popped <- y_popped,
    clk <- y_clk, sim <- y_sim, owed <- y_owed, sim_owed <- y_sim_owed,
    window <- y_window, quiet <- y_quiet

sync_vars == <<y_kind, y_async, y_metastable, y_rst, y_cleared, y_data_in, y_data_reg,
               y_req_src, y_ack_sync, y_chain, y_ack_dst, y_data_out_reg, y_gap, y_pushed,
               y_popped, y_clk, y_sim, y_owed, y_sim_owed, y_window, y_quiet>>

Method == INSTANCE Tlm WITH
    Nothing <- NoData, link <- t_link, state <- t_state, order <- t_order, age <- t_age,
    tail_done <- t_tail_done, rr_ptr <- t_rr_ptr, route <- t_route,
    err_valid <- t_err_valid, unit <- t_unit, hold <- t_hold, arb <- t_arb, pool <- t_pool,
    addr <- t_addr, answer <- t_answer, clk <- t_clk, stalled <- t_stalled, joined <- t_joined

ASSUME LinksWellFormed == Method!WellFormed

tlm_vars == <<t_link, t_state, t_order, t_age, t_tail_done, t_rr_ptr, t_route, t_err_valid,
              t_unit, t_hold, t_arb, t_pool, t_addr, t_answer, t_clk, t_stalled, t_joined>>

Between(initiator, n, tagged, policy, target) ==
    [initiator |-> initiator, n |-> n, tagged |-> tagged, policy |-> policy,
     delay |-> [i \in 1..n |-> 0], tail |-> FALSE, target |-> target, missing |-> {},
     body |-> TRUE, joins |-> initiator = "fork"]

(* Every initiator and every target, blocking and tagged methods, both     *)
(* policies, a fork group with delays and a tail, and a decoded target     *)
(* without the method.                                                     *)
OneThread == Between("group", 1, FALSE, "priority", "decoded")
CheckedLinks ==
    {Between("cohort", 3, FALSE, "priority", "pool"),
     Between("cohort", 2, FALSE, "priority", "thread"),
     Between("cohort", 2, TRUE, "priority", "lanes"),
     Between("cohort", 2, TRUE, "priority", "pool"),
     Between("cohort", 3, TRUE, "round_robin", "lanes"),
     [Between("fork", 3, FALSE, "priority", "pool") EXCEPT !.delay = <<0, 1, 3>>, !.tail = TRUE],
     Between("fork", 2, TRUE, "priority", "lanes"),
     Between("group", 3, FALSE, "round_robin", "thread"),
     Between("group", 2, FALSE, "priority", "thread"),
     Between("group", 1, TRUE, "priority", "pool"),
     OneThread, [OneThread EXCEPT !.missing = {1}],
     Between("port", 2, TRUE, "priority", "lanes"),
     [Between("port", 3, TRUE, "round_robin", "lanes") EXCEPT !.body = FALSE]}

ChannelsInit ==
    /\ connection \in {"credit_channel", "synchronizer", "tlm_method"}
    /\ SimInit /\ (connection # "credit_channel" => ~registered)
    /\ Sync!SimInit
    /\ connection # "synchronizer" => y_kind = "ff" /\ ~y_async /\ ~y_metastable

    /\ Method!Init
    /\ connection # "tlm_method" =>
          t_link = (CHOOSE l \in Links : TRUE) /\ t_addr = [i \in Method!Calls |-> 0]

Credits == connection = "credit_channel" /\ SimNext /\ UNCHANGED <<sync_vars, tlm_vars>>
Crossing == connection = "synchronizer" /\ Sync!SimNext /\ UNCHANGED <<sim_vars, tlm_vars>>
Clocked == connection = "tlm_method" /\ Method!Clocked /\ UNCHANGED <<sim_vars, sync_vars>>
ResetMethod == connection = "tlm_method" /\ Method!Reset /\ UNCHANGED <<sim_vars, sync_vars>>
ChannelsNext == (Credits \/ Crossing \/ Clocked \/ ResetMethod) /\ UNCHANGED connection

(* The wires of the credit channel deliver and its receiver consumes; both *)
(* clocks of the synchronizer keep ticking and its reset is released; the  *)
(* clock of a method runs, among what Tlm says of its environment.         *)
ChannelsSpec ==
    /\ ChannelsInit /\ [][ChannelsNext]_<<connection, sim_vars, sync_vars, tlm_vars>>
    /\ LET fair(A) == connection = "credit_channel" /\ A
       IN  WF_vars(fair(Arrive)) /\ WF_vars(fair(Pop)) /\ WF_vars(fair(Back))
    /\ LET fair(A) == connection = "synchronizer" /\ A
       IN  /\ WF_sync_vars(fair(\E dst \in BOOLEAN : Sync!Rise(TRUE, dst)))
           /\ WF_sync_vars(fair(\E src \in BOOLEAN : Sync!Rise(src, TRUE)))
           /\ WF_sync_vars(fair(y_clk[1] /\ Sync!Settle /\ ~y_clk'[1]))
           /\ WF_sync_vars(fair(y_clk[2] /\ Sync!Settle /\ ~y_clk'[2]))
           /\ WF_sync_vars(fair(Sync!ReleaseReset /\ Sync!Asynchronous))
    /\ \A bit \in {0, 1} : []<>(connection = "tlm_method" => t_clk = bit)
    /\ Method!Environment
-----------------------------------------------------------------------------
(* kind gray: the output is a value the counter had at one sampling edge,  *)
(* although the bits were sampled independently.  kind pulse, circuit and  *)
(* C++ class: a high output is a spaced pulse that was sent and not yet    *)
(* seen, and when nothing is under way every pulse has been seen.  kind    *)
(* reset: asserted with its input, released only after STAGES edges of the *)
(* destination clock without it.                                           *)
CrossingsAreClean == Sync!CrossingsAreClean

(* After every call of eval() the C++ objects show what the circuits       *)
(* show: the credit channel always; a synchronizer of kind ff, gray,       *)
(* handshake or reset out of reset and without --cdc-random, coincident    *)
(* edges of its two clocks included.  Kind pulse has a timing of its own   *)
(* in C++, so it is left out here; CrossingsAreClean speaks of it.         *)
ClassesAgree == SimAgrees /\ Sync!SimAgrees

(* kind handshake: every word latched is captured once and in order, and   *)
(* never sampled while it changes.                                         *)
HandshakeIsChannel == Sync!HandshakeIsChannel /\ Sync!StableWhenSampled

(* An input that stays put appears at the output and stays there.          *)
InputArrives == Sync!InputArrives

(* Every waiting call of a method is held in exactly one place, with its   *)
(* own argument, and the issue order lists the waiting calls.              *)
CallsConserved == Method!CallsConserved

(* _auto_tlm_*_req_stable and _auto_tlm_*_rsp_stable, the former of fork   *)
(* groups and single calls: what is offered and not accepted stays.        *)
HandshakesStable == Method!HandshakesStable

(* A call returns only while it waits, and with the answer to its own      *)
(* request, whatever the order in which answers come back; and no call of  *)
(* a fork group is issued again before all have been answered.             *)
AnswersMatch == Method!AnswersMatch /\ Method!JoinIsBarrier

(* Every accepted call returns, and every call of a fork group, or of a    *)
(* group under a round-robin lock, is accepted.                            *)
CallsReturn == Method!CallsReturn
=============================================================================
