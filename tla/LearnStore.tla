----------------------------- MODULE LearnStore -----------------------------
(***************************************************************************)
(* The failure-learning store (learn.rs): ~/.arch/learn, shared by every   *)
(* arch process of a user.  Processes call the store from learn_wrap       *)
(* (record_failure, record_success_if_pending), from the front end         *)
(* (harvest_features) and from the learn-* and advise commands, may be     *)
(* killed at any time, and exclude each other only by flock on .lock.      *)
(*                                                                         *)
(* A step is a system call that other processes can tell from the next.    *)
(* The order of the lines of events.jsonl matters to nobody, so the file   *)
(* is the set of its terminated lines and the unterminated last one, if    *)
(* any, which a process killed between the two writes of writeln! leaves   *)
(* behind.  A file has one documented construct, hence one feature event.  *)
(***************************************************************************)
EXTENDS Integers, FiniteSets

CONSTANTS
    Procs,      \* arch processes
    Files,      \* source paths outside the temporary directories
    MaxCalls,   \* bound: calls made by all processes together
    None

ASSUME LearnStoreAssumption ==
    /\ MaxCalls \in Nat
    /\ None \notin Procs

VARIABLES
    lines, tail,        \* events.jsonl
    pending,            \* pending/<hash>.json of each source file
    index,              \* index.json: the events it was built from, or None
    counts,             \* retrieval_counts.json
    flock,              \* the process that holds flock on .lock, or None
    proc,               \* each process: its next step and the locals of its call
    calls,              \* calls made so far
    stored,             \* history: events written on a line of their own
    pruned, halfPruned, \* history: events prune removed; index not removed yet
    bumps               \* history: completed bumps of each event

log == <<lines, tail>>
history == <<stored, pruned, halfPruned, bumps>>
vars == <<log, pending, index, counts, flock, proc, calls, history>>

CallIds == 1..MaxCalls

(* A line holds the events written on it, one unless text was appended to  *)
(* an unterminated line.  json_to_event parses the first object of a line. *)
AllLines == lines \cup tail
Heads(ls) == {l.head : l \in ls}
Content(l) == {l.head} \cup l.rest

(* A process between two calls.  victim, view, hit and seen are what a     *)
(* call has read: an expired record, lines, the event to count, counters.  *)
NoCounts == [i \in CallIds |-> 0]
Idle == [pc |-> "idle", call |-> "none", file |-> None, id |-> 0,
         victim |-> None, view |-> {}, hit |-> 0, seen |-> NoCounts]

Init ==
    /\ lines = {} /\ tail = {}
    /\ pending \in [Files -> {"none", "fresh"}]
    /\ index = None /\ counts = NoCounts
    /\ flock = None
    /\ proc = [p \in Procs |-> Idle] /\ calls = 0
    /\ stored = {} /\ pruned = {} /\ halfPruned = FALSE /\ bumps = NoCounts

At(p, label) == proc[p].pc = label
Goto(p, label) == proc' = [proc EXCEPT ![p].pc = label]
Return(p) == proc' = [proc EXCEPT ![p] = Idle]

(* A call begins.                                                          *)
Begin(p, name, f, hit, label) ==
    /\ At(p, "idle") /\ calls < MaxCalls
    /\ calls' = calls + 1
    /\ proc' = [proc EXCEPT ![p] = [Idle EXCEPT !.pc = label, !.call = name,
                                                !.file = f, !.id = calls + 1, !.hit = hit]]
    /\ UNCHANGED <<log, pending, index, counts, flock, history>>

(* record_failure, and record_success_if_pending past its first look at    *)
(* the pending record.                                                     *)
RecordFailure(p, f) == Begin(p, "failure", f, 0, "sweep")
RecordSuccess(p, f) ==
    /\ pending[f] # "none"
    /\ Begin(p, "success", f, 0,
             IF pending[f] = "expired" THEN "drop_pending" ELSE "read_pending")

(* The calls that go to the lock first.  advise has read the events before *)
(* and counts the hit it shows; harvest_features found room in the store.  *)
HarvestFeatures(p, f) == Begin(p, "harvest", f, 0, "lock")
BuildIndex(p) == Begin(p, "index", None, 0, "lock")
Prune(p) == Begin(p, "prune", None, 0, "lock")
Advise(p) == \E hit \in Heads(AllLines) : Begin(p, "advise", None, hit.id, "lock")

(* The pending records: sweep_pending looks at the age of a record and     *)
(* then removes whatever is there; the sweep may be skipped, and a full    *)
(* store takes no record.                                                  *)
Sweep(p) ==
    /\ At(p, "sweep")
    /\ \/ \E g \in Files :
            /\ pending[g] = "expired"
            /\ proc' = [proc EXCEPT ![p].pc = "sweep_remove", ![p].victim = g]
       \/ Goto(p, "write_pending")
       \/ Return(p)
    /\ UNCHANGED <<log, pending, index, counts, flock, calls, history>>
SweepRemove(p) ==
    /\ At(p, "sweep_remove")
    /\ pending' = [pending EXCEPT ![proc[p].victim] = "none"]
    /\ proc' = [proc EXCEPT ![p].pc = "sweep", ![p].victim = None]
    /\ UNCHANGED <<log, index, counts, flock, calls, history>>

SetPending(p, state) ==
    /\ pending' = [pending EXCEPT ![proc[p].file] = state]
    /\ Return(p)
    /\ UNCHANGED <<log, index, counts, flock, calls, history>>
WritePending(p) == At(p, "write_pending") /\ SetPending(p, "fresh")
DropPending(p) == At(p, "drop_pending") /\ SetPending(p, "none")

(* A record that is gone ends the call with an error; one whose source is  *)
(* the current one is dropped; any other is paired with the success.       *)
ReadPending(p) ==
    /\ At(p, "read_pending")
    /\ \/ pending[proc[p].file] = "none" /\ Return(p)
       \/ pending[proc[p].file] # "none" /\ (Goto(p, "drop_pending") \/ Goto(p, "lock"))
    /\ UNCHANGED <<log, pending, index, counts, flock, calls, history>>

(* lock_store blocks until nobody else holds .lock.  The guard drops when  *)
(* the locked part of the call is done.                                    *)
LockedEntry == [success |-> "append_text", harvest |-> "purge_read",
                index |-> "index_read", advise |-> "counts_read", prune |-> "prune_read"]
LockStoreShared(p) ==
    /\ At(p, "lock")
    /\ flock' = p
    /\ Goto(p, LockedEntry[proc[p].call])
    /\ UNCHANGED <<log, pending, index, counts, calls, history>>
LockStore(p) ==
    /\ At(p, "lock") /\ flock = None
    /\ flock' = p
    /\ Goto(p, LockedEntry[proc[p].call])
    /\ UNCHANGED <<log, pending, index, counts, calls, history>>
UnlockLeaked(p) ==
    /\ At(p, "unlock")
    /\ IF proc[p].call = "success" THEN Goto(p, "drop_pending") ELSE Return(p)
    /\ UNCHANGED <<log, pending, index, counts, flock, calls, history>>
Unlock(p) ==
    /\ At(p, "unlock")
    /\ flock' = None
    /\ IF proc[p].call = "success" THEN Goto(p, "drop_pending") ELSE Return(p)
    /\ UNCHANGED <<log, pending, index, counts, calls, history>>

(* append_event_unlocked: the text, then the newline.  Text written after  *)
(* an unterminated line continues that line.                               *)
NewEvent(p) ==
    [kind |-> IF proc[p].call = "harvest" THEN "feature" ELSE "error_fix",
     file |-> proc[p].file, id |-> proc[p].id]
OwnLine(p) == [head |-> NewEvent(p), rest |-> {}]
AppendText(p) ==
    /\ At(p, "append_text") /\ Goto(p, "append_newline")
    /\ tail' = IF tail = {} THEN {OwnLine(p)}
               ELSE {[l EXCEPT !.rest = @ \cup {NewEvent(p)}] : l \in tail}
    /\ UNCHANGED <<lines, pending, index, counts, flock, calls, history>>
AppendNewline(p) ==
    /\ At(p, "append_newline") /\ Goto(p, "unlock")
    /\ lines' = AllLines /\ tail' = {}
    /\ stored' = IF tail = {OwnLine(p)} THEN stored \cup {NewEvent(p)} ELSE stored
    /\ UNCHANGED <<pending, index, counts, flock, calls, pruned, halfPruned, bumps>>

(* A locked call reads events.jsonl, and later replaces it by what it kept *)
(* of it, every line terminated.                                           *)
ReadEvents(p, next) ==
    /\ proc' = [proc EXCEPT ![p].pc = next, ![p].view = AllLines]
    /\ UNCHANGED <<log, pending, index, counts, flock, calls, history>>
Rewrite(p, kept, next) ==
    /\ lines' = kept /\ tail' = {}
    /\ proc' = [proc EXCEPT ![p].pc = next, ![p].view = {}]
    /\ UNCHANGED <<pending, index, counts, flock, calls, bumps>>

(* purge_features_for_files drops a line that mentions a feature and the   *)
(* file.                                                                   *)
FeatureOf(e, f) == e.kind = "feature" /\ e.file = f
Dropped(l, f) == /\ \E e \in Content(l) : e.kind = "feature"
                 /\ \E e \in Content(l) : e.file = f
PurgeRead(p) == At(p, "purge_read") /\ ReadEvents(p, "purge_write")
PurgeWrite(p) ==
    /\ At(p, "purge_write")
    /\ Rewrite(p, {l \in proc[p].view : ~Dropped(l, proc[p].file)}, "append_text")
    /\ stored' = {e \in stored : ~FeatureOf(e, proc[p].file)}
    /\ UNCHANGED <<pruned, halfPruned>>

(* prune removes the events its filters match, then the index; the filters *)
(* may match none, or the call be a dry run.                               *)
PruneRead(p) == At(p, "prune_read") /\ ReadEvents(p, "prune_write")
PruneNone(p) ==
    /\ At(p, "prune_write") /\ Goto(p, "unlock")
    /\ UNCHANGED <<log, pending, index, counts, flock, calls, history>>
PruneWrite(p) ==
    /\ At(p, "prune_write")
    /\ \E matched \in (SUBSET Heads(proc[p].view)) \ {{}} :
         /\ Rewrite(p, {l \in proc[p].view : l.head \notin matched}, "unindex")
         /\ stored' = stored \ matched
         /\ pruned' = pruned \cup matched
    /\ halfPruned' = TRUE
WriteIndex(p, docs) ==
    /\ index' = docs /\ halfPruned' = FALSE
    /\ Goto(p, "unlock")
    /\ UNCHANGED <<log, pending, counts, flock, calls, stored, pruned, bumps>>
UnindexSkipped(p) == At(p, "unindex") /\ WriteIndex(p, index)
Unindex(p) == At(p, "unindex") /\ WriteIndex(p, None)

(* build_index; without an events file it writes nothing.                  *)
IndexRead(p) ==
    /\ At(p, "index_read")
    /\ ReadEvents(p, "index_write") \/ (AllLines = {} /\ ReadEvents(p, "unlock"))
IndexWrite(p) == At(p, "index_write") /\ WriteIndex(p, Heads(proc[p].view))

(* bump_counts                                                             *)
CountsRead(p) ==
    /\ At(p, "counts_read")
    /\ proc' = [proc EXCEPT ![p].pc = "counts_write", ![p].seen = counts]
    /\ UNCHANGED <<log, pending, index, counts, flock, calls, history>>
CountsWrite(p) ==
    /\ At(p, "counts_write") /\ Goto(p, "unlock")
    /\ counts' = [proc[p].seen EXCEPT ![proc[p].hit] = @ + 1]
    /\ bumps' = [bumps EXCEPT ![proc[p].hit] = @ + 1]
    /\ UNCHANGED <<log, pending, index, flock, calls, stored, pruned, halfPruned>>

(* A process is killed; the kernel drops its lock.                         *)
Crash(p) ==
    /\ ~At(p, "idle") /\ Return(p)
    /\ flock' = IF flock = p THEN None ELSE flock
    /\ UNCHANGED <<log, pending, index, counts, calls, history>>

(* A pending record outlives its time.                                     *)
Expire(f) ==
    /\ pending[f] = "fresh" /\ pending' = [pending EXCEPT ![f] = "expired"]
    /\ UNCHANGED <<log, index, counts, flock, proc, calls, history>>

Start(p) ==
    \/ \E f \in Files : RecordFailure(p, f) \/ RecordSuccess(p, f) \/ HarvestFeatures(p, f)
    \/ BuildIndex(p) \/ Prune(p) \/ Advise(p)
Continue(p) ==
    \/ Sweep(p) \/ SweepRemove(p) \/ WritePending(p) \/ ReadPending(p) \/ DropPending(p)
    \/ LockStore(p) \/ Unlock(p)
    \/ AppendText(p) \/ AppendNewline(p) \/ PurgeRead(p) \/ PurgeWrite(p)
    \/ PruneRead(p) \/ PruneNone(p) \/ PruneWrite(p) \/ Unindex(p)
    \/ IndexRead(p) \/ IndexWrite(p) \/ CountsRead(p) \/ CountsWrite(p)

Next ==
    \/ \E p \in Procs : Start(p) \/ Continue(p) \/ Crash(p)
    \/ \E f \in Files : Expire(f)

Spec == Init /\ [][Next]_vars

(* A process that can take the next step of its call takes it or is        *)
(* killed.                                                                 *)
FairSpec == Spec /\ \A p \in Procs : WF_vars(Continue(p))
-----------------------------------------------------------------------------
(* An event that was appended on a line of its own stays readable until    *)
(* prune or a harvest of its file drops it: no rewrite of events.jsonl     *)
(* works on a stale copy (issue #1008), whoever is killed when.            *)
NoEventLost == stored \subseteq Heads(AllLines)

(* Harvesting a file again replaces its feature event: there is never a    *)
(* second one.                                                             *)
FeaturesReplaced ==
    \A f \in Files :
        \A l, m \in AllLines : \A e \in Content(l), d \in Content(m) :
            FeatureOf(e, f) /\ FeatureOf(d, f) => e = d

(* Every completed advise counts: no update of retrieval_counts.json is    *)
(* lost to another process.                                                *)
CountsExact == counts = bumps

(* The index never lists an event that prune removed, unless a prune is    *)
(* between its two steps or was killed there and no index built since.     *)
IndexFresh == halfPruned \/ index = None \/ index \cap pruned = {}

(* Every call ends: no process waits for the lock for ever, in particular  *)
(* not for itself.                                                         *)
CallsEnd == \A p \in Procs : (proc[p].pc # "idle") ~> (proc[p].pc = "idle")
=============================================================================
