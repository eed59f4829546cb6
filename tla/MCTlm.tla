------------------------------- MODULE MCTlm -------------------------------
(***************************************************************************)
(* A link for Tlm on which the lowering does not keep what is written.     *)
(***************************************************************************)
EXTENDS Tlm

(* Two threads whose calls are in a lock, and two targets behind a decode. *)
LockedDecoded ==
    {[initiator |-> "group", n |-> 2, tagged |-> FALSE, policy |-> "round_robin",
      delay |-> <<0, 0>>, tail |-> FALSE, target |-> "decoded", missing |-> {}, body |-> TRUE,
      joins |-> FALSE]}
=============================================================================
