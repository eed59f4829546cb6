--------------------------- MODULE ThreadLockWait ---------------------------
(***************************************************************************)
(* ThreadLock with a count, for every thread waiting at the lock, of the   *)
(* releases it has watched since it began to wait; and hooks for policy    *)
(* custom.                                                                 *)
(***************************************************************************)
EXTENDS ThreadLock

(* A one-hot hook: the highest requester, the last grantee only if alone.  *)
HighestOther(mask, last) ==
    LET others == IF mask \ last = {} THEN mask ELSE mask \ last
    IN  {t \in others : \A u \in others : u <= t}

(* A hook that hands the request mask back.                                *)
RequestMask(mask, last) == mask

VARIABLE watched

(* A thread keeps waiting over a step that starts in its first body state  *)
(* without a grant and ends there.                                         *)
StillWaiting(t) == pc[t] = 1 /\ t \notin grant /\ pc'[t] = 1

CountReleases ==
    watched' = [t \in Threads |->
        IF StillWaiting(t) THEN watched[t] + Cardinality(release' \ {t}) ELSE 0]

WaitInit == Init /\ watched = [t \in Threads |-> 0]
WaitNext == Next /\ CountReleases
WaitSpec == WaitInit /\ [][WaitNext]_<<vars, watched>>
-----------------------------------------------------------------------------
(* Round robin: a waiting thread is granted by the N-1st release it        *)
(* watches, for every other thread passes it at most once.                 *)
BoundedWait ==
    \A t \in Threads : pc[t] = 1 /\ t \notin grant => watched[t] < N - 1
=============================================================================
