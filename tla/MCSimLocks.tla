----------------------------- MODULE MCSimLocks -----------------------------
(***************************************************************************)
(* The locks of the thread simulator by themselves: a round-robin mutex    *)
(* between three threads.                                                  *)
(***************************************************************************)
EXTENDS SimLocks

OneMutex == {[policy |-> "round_robin", slots |-> 1, credit |-> 1, tight |-> FALSE,
              preempt |-> FALSE]}

(* No hook: the policy is not custom.                                      *)
NoHook(mask, last) == {}
=============================================================================
