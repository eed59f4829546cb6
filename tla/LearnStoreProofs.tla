-------------------------- MODULE LearnStoreProofs --------------------------
(***************************************************************************)
(* No event and no retrieval count is lost, no index lists what prune      *)
(* removed, and a file has at most one feature event: for any number of    *)
(* processes, files and calls, and whenever processes are killed.          *)
(*                                                                         *)
(* The inductive invariant says why: a process between lock_store and the  *)
(* drop of its guard is the one that holds the lock, so what it has read   *)
(* of events.jsonl or retrieval_counts.json is still what is there when it *)
(* replaces the file.                                                      *)
(***************************************************************************)
EXTENDS LearnStore, TLAPS

LockedLabels ==
    {"append_text", "append_newline", "purge_read", "purge_write", "prune_read",
     "prune_write", "unindex", "index_read", "index_write", "counts_read",
     "counts_write", "unlock"}
Labels ==
    LockedLabels \cup {"idle", "sweep", "sweep_remove", "write_pending",
                       "read_pending", "drop_pending", "lock"}
CallNames == {"none", "failure", "success", "harvest", "index", "prune", "advise"}
AnyFile == Files \cup {None}
AnyEvent == [kind : {"error_fix", "feature"}, file : AnyFile, id : 0..MaxCalls]
AnyLine == [head : AnyEvent, rest : SUBSET AnyEvent]
Counters == [CallIds -> Nat]
ProcState ==
    [pc : Labels, call : CallNames, file : AnyFile, id : 0..MaxCalls, victim : AnyFile,
     view : SUBSET AnyLine, hit : 0..MaxCalls, seen : Counters]

(* The parts of the state keep their shapes.                               *)
TypeOK ==
    /\ lines \subseteq AnyLine /\ tail \subseteq AnyLine
    /\ proc \in [Procs -> ProcState]
    /\ calls \in 0..MaxCalls
    /\ counts \in Counters /\ bumps \in Counters

(* Whoever is in the locked part of a call holds the lock.                 *)
LockHeld == \A p \in Procs : proc[p].pc \in LockedLabels => flock = p

(* What a call that will replace a file has read is not stale.             *)
ViewCurrent ==
    \A p \in Procs :
        /\ proc[p].pc \in {"purge_write", "prune_write"} => proc[p].view = AllLines
        /\ proc[p].pc = "counts_write" => proc[p].seen = counts

(* A stored event is alone on a terminated line.                           *)
StoredAlone == \A e \in stored : [head |-> e, rest |-> {}] \in lines

(* Only the calls with a locked part go to the lock.                       *)
LockingCalls == {"success", "harvest", "index", "prune", "advise"}
LockersKnown ==
    \A p \in Procs : proc[p].pc \in {"lock", "read_pending"} => proc[p].call \in LockingCalls

StoreInv ==
    TypeOK /\ LockHeld /\ LockersKnown /\ ViewCurrent /\ StoredAlone /\ CountsExact

USE LearnStoreAssumption

(* What the invariant gives about the events a reader sees.                *)
LEMMA InvImpliesNoEventLost == StoreInv => NoEventLost
<1>1. SUFFICES ASSUME StoreInv, NEW e \in stored
               PROVE  e \in Heads(AllLines)
  BY DEF NoEventLost
<1>2. [head |-> e, rest |-> {}] \in AllLines
  BY <1>1 DEF StoreInv, StoredAlone, AllLines
<1> QED BY <1>2 DEF Heads

(* A fresh process is well formed.                                         *)
LEMMA IdleType == Idle \in ProcState /\ Idle.pc = "idle" /\ NoCounts \in Counters
<1>1. NoCounts \in Counters
  BY DEF NoCounts, Counters
<1>2. 0 \in 0..MaxCalls /\ None \in AnyFile /\ {} \in SUBSET AnyLine
  BY DEF AnyFile
<1>3. Idle.pc = "idle"
  BY DEF Idle
<1>4. ASSUME NEW pc \in Labels, NEW call \in CallNames, NEW f \in AnyFile, NEW i \in 0..MaxCalls,
             NEW g \in AnyFile, NEW v \in SUBSET AnyLine, NEW h \in 0..MaxCalls, NEW c \in Counters
      PROVE  [pc |-> pc, call |-> call, file |-> f, id |-> i, victim |-> g,
              view |-> v, hit |-> h, seen |-> c] \in ProcState
  BY DEF ProcState
<1>5. "idle" \in Labels /\ "none" \in CallNames
  BY DEF Labels, CallNames
<1>6. Idle \in ProcState
  BY <1>1, <1>2, <1>4, <1>5 DEF Idle
<1> QED BY <1>1, <1>3, <1>6

(* The constructed store satisfies the invariant.                          *)
LEMMA InitInv == Init => StoreInv
<1> SUFFICES ASSUME Init PROVE StoreInv
  OBVIOUS
<1>1. TypeOK
  BY IdleType DEF Init, TypeOK
<1>2. LockHeld /\ ViewCurrent /\ LockersKnown
  BY IdleType DEF Init, LockHeld, ViewCurrent, LockersKnown, LockedLabels
<1>3. StoredAlone /\ CountsExact
  BY DEF Init, StoredAlone, CountsExact
<1> QED BY <1>1, <1>2, <1>3 DEF StoreInv

(* A step by which a process goes to a label outside the locked part, or   *)
(* on inside it, and that changes neither events.jsonl nor the counters.   *)
LEMMA QuietStep ==
    ASSUME StoreInv, NEW p \in Procs, NEW s \in ProcState,
           proc' = [proc EXCEPT ![p] = s],
           UNCHANGED <<log, counts, stored, bumps>>, calls' \in 0..MaxCalls,
           s.pc \in LockedLabels => flock' = p,
           s.pc \in {"lock", "read_pending"} => s.call \in LockingCalls,
           \A q \in Procs \ {p} : flock = q => flock' = q,
           s.pc \in {"purge_write", "prune_write"} => s.view = AllLines,
           s.pc = "counts_write" => s.seen = counts
    PROVE  StoreInv'
<1>1. TypeOK'
  BY DEF StoreInv, TypeOK, log
<1>2. \A q \in Procs : proc'[q] = IF q = p THEN s ELSE proc[q]
  BY DEF StoreInv, TypeOK
<1>3. LockHeld'
  BY <1>2 DEF StoreInv, LockHeld
<1>4. ViewCurrent'
  BY <1>2 DEF StoreInv, ViewCurrent, AllLines, log
<1>5. StoredAlone' /\ CountsExact'
  BY DEF StoreInv, StoredAlone, CountsExact, log
<1>6. LockersKnown'
  BY <1>2 DEF StoreInv, LockersKnown
<1> QED BY <1>1, <1>3, <1>4, <1>5, <1>6 DEF StoreInv

(* A process that goes from outside the locked part to a label outside it, *)
(* or from label to label inside it, reading nothing.                      *)
LEMMA GotoStep ==
    ASSUME StoreInv, NEW p \in Procs, NEW label \in Labels, Goto(p, label),
           UNCHANGED <<log, counts, flock, calls, stored, bumps>>,
           label \in LockedLabels => proc[p].pc \in LockedLabels,
           label = "lock" => proc[p].pc = "read_pending",
           label \notin {"purge_write", "prune_write", "counts_write", "read_pending"}
    PROVE  StoreInv'
<1> DEFINE s == [proc[p] EXCEPT !.pc = label]
<1>1. proc[p] \in ProcState
  BY DEF StoreInv, TypeOK
<1>5. s \in ProcState
  BY <1>1 DEF ProcState
<1>2. s.pc = label /\ proc' = [proc EXCEPT ![p] = s]
  BY <1>1 DEF Goto, ProcState
<1>3. s.pc \in LockedLabels => flock' = p
  BY <1>2 DEF StoreInv, LockHeld
<1>4. calls' \in 0..MaxCalls
  BY DEF StoreInv, TypeOK
<1>6. s.pc \in {"lock", "read_pending"} => s.call \in LockingCalls
  BY <1>1, <1>2 DEF StoreInv, LockersKnown, ProcState
<1> HIDE DEF s
<1> QED BY <1>2, <1>3, <1>4, <1>5, <1>6, QuietStep

(* The end of a call, or of a process, which lets go of its lock.          *)
LEMMA ReturnStep ==
    ASSUME StoreInv, NEW p \in Procs, Return(p),
           UNCHANGED <<log, counts, calls, stored, bumps>>,
           flock' = flock \/ flock = p
    PROVE  StoreInv'
<1>1. proc' = [proc EXCEPT ![p] = Idle]
  BY DEF Return
<1>2. calls' \in 0..MaxCalls
  BY DEF StoreInv, TypeOK
<1>3. \A q \in Procs \ {p} : flock = q => flock' = q
  OBVIOUS
<1> QED BY <1>1, <1>2, <1>3, IdleType, QuietStep DEF LockedLabels

(* The beginning of a call.                                                *)
LEMMA BeginStep ==
    ASSUME StoreInv, NEW p \in Procs, NEW name \in CallNames, NEW f \in AnyFile,
           NEW hit \in 0..MaxCalls,
           NEW label \in {"sweep", "drop_pending", "read_pending", "lock"},
           label \in {"lock", "read_pending"} => name \in LockingCalls,
           Begin(p, name, f, hit, label)
    PROVE  StoreInv'
<1> DEFINE s == [Idle EXCEPT !.pc = label, !.call = name, !.file = f,
                             !.id = calls + 1, !.hit = hit]
<1>1. calls + 1 \in 0..MaxCalls /\ calls' \in 0..MaxCalls
  BY DEF Begin, StoreInv, TypeOK
<1>2. label \in Labels /\ label \notin LockedLabels
  BY DEF Labels, LockedLabels
<1>3. s \in ProcState /\ s.pc = label /\ s.call = name
  BY <1>1, <1>2, IdleType DEF ProcState
<1>4. proc' = [proc EXCEPT ![p] = s]
  BY DEF Begin
<1>5. UNCHANGED <<log, counts, flock, stored, bumps>>
  BY DEF Begin, history
<1>6. s.pc \notin {"purge_write", "prune_write", "counts_write"}
  BY <1>3
<1> HIDE DEF s
<1> QED BY <1>1, <1>2, <1>3, <1>4, <1>5, <1>6, QuietStep

(* A step of the lock's holder that changes events.jsonl.                  *)
LEMMA LogStep ==
    ASSUME StoreInv, NEW p \in Procs, NEW s \in ProcState,
           proc' = [proc EXCEPT ![p] = s],
           proc[p].pc \in LockedLabels,
           s.pc \in {"append_text", "append_newline", "unindex", "unlock"},
           UNCHANGED <<counts, flock, calls, bumps>>,
           lines' \subseteq AnyLine, tail' \subseteq AnyLine, StoredAlone'
    PROVE  StoreInv'
<1>1. TypeOK'
  BY DEF StoreInv, TypeOK
<1>2. \A q \in Procs : proc'[q] = IF q = p THEN s ELSE proc[q]
  BY DEF StoreInv, TypeOK
<1>3. flock = p /\ \A q \in Procs \ {p} : proc[q].pc \notin LockedLabels
  BY DEF StoreInv, LockHeld
<1>4. LockHeld' /\ LockersKnown'
  BY <1>2, <1>3 DEF StoreInv, LockHeld, LockersKnown, LockedLabels
<1>5. ViewCurrent'
  BY <1>2, <1>3 DEF ViewCurrent, LockedLabels
<1>6. CountsExact'
  BY DEF StoreInv, CountsExact
<1> QED BY <1>1, <1>4, <1>5, <1>6 DEF StoreInv

(* The events and lines that calls write have their types.                 *)
LEMMA WrittenType ==
    ASSUME TypeOK, NEW p \in Procs
    PROVE  NewEvent(p) \in AnyEvent /\ OwnLine(p) \in AnyLine
<1>1. proc[p].file \in AnyFile /\ proc[p].id \in 0..MaxCalls
  BY DEF TypeOK, ProcState
<1>2. NewEvent(p) \in AnyEvent
  BY <1>1 DEF NewEvent, AnyEvent
<1> QED BY <1>2 DEF OwnLine, AnyLine

(* Appending to the log, in its two steps.                                 *)
LEMMA AppendStep ==
    ASSUME StoreInv, NEW p \in Procs, AppendText(p) \/ AppendNewline(p)
    PROVE  StoreInv'
<1> DEFINE after(label) == [proc[p] EXCEPT !.pc = label]
<1>1. proc[p] \in ProcState /\ TypeOK
  BY DEF StoreInv, TypeOK
<1>2. \A label \in Labels : after(label) \in ProcState /\ after(label).pc = label
  BY <1>1 DEF ProcState
<1>3. NewEvent(p) \in AnyEvent /\ OwnLine(p) \in AnyLine
  BY <1>1, WrittenType
<1>4. CASE AppendText(p)
  <2>1. proc' = [proc EXCEPT ![p] = after("append_newline")]
    BY <1>4 DEF AppendText, Goto
  <2>2. \A l \in tail : [l EXCEPT !.rest = @ \cup {NewEvent(p)}] \in AnyLine
    BY <1>1, <1>3 DEF TypeOK, AnyLine
  <2>3. lines' \subseteq AnyLine /\ tail' \subseteq AnyLine
    BY <1>1, <1>3, <1>4, <2>2 DEF AppendText, TypeOK
  <2>4. StoredAlone'
    BY <1>4 DEF AppendText, StoreInv, StoredAlone, history
  <2>5. /\ UNCHANGED <<counts, flock, calls, bumps>>
        /\ proc[p].pc \in LockedLabels /\ "append_newline" \in Labels
    BY <1>4 DEF AppendText, At, history, LockedLabels, Labels
  <2> HIDE DEF after
  <2> QED BY <1>2, <2>1, <2>3, <2>4, <2>5, LogStep
<1>5. CASE AppendNewline(p)
  <2>1. proc' = [proc EXCEPT ![p] = after("unlock")]
    BY <1>5 DEF AppendNewline, Goto
  <2>2. lines' \subseteq AnyLine /\ tail' \subseteq AnyLine
    BY <1>1, <1>5 DEF AppendNewline, TypeOK, AllLines
  <2>3. StoredAlone'
    BY <1>5 DEF AppendNewline, StoreInv, StoredAlone, AllLines, OwnLine
  <2>4. /\ UNCHANGED <<counts, flock, calls, bumps>>
        /\ proc[p].pc \in LockedLabels /\ "unlock" \in Labels
    BY <1>5 DEF AppendNewline, At, LockedLabels, Labels
  <2> HIDE DEF after
  <2> QED BY <1>2, <2>1, <2>2, <2>3, <2>4, LogStep
<1> QED BY <1>4, <1>5

(* Replacing the log by the lines kept of it.                              *)
LEMMA RewriteStep ==
    ASSUME StoreInv, NEW p \in Procs, PurgeWrite(p) \/ PruneWrite(p)
    PROVE  StoreInv'
<1> DEFINE after(label) == [proc[p] EXCEPT !.pc = label, !.view = {}]
<1>1. proc[p] \in ProcState /\ TypeOK
  BY DEF StoreInv, TypeOK
<1>2. \A label \in Labels : after(label) \in ProcState /\ after(label).pc = label
  BY <1>1 DEF ProcState
<1>3. proc[p].pc \in {"purge_write", "prune_write"}
  BY DEF PurgeWrite, PruneWrite, At
<1>4. proc[p].view = AllLines /\ proc[p].view \subseteq AnyLine
  BY <1>1, <1>3 DEF StoreInv, ViewCurrent, ProcState
<1>5. proc[p].pc \in LockedLabels /\ {"append_text", "unindex"} \subseteq Labels
  BY <1>3 DEF LockedLabels, Labels
<1>6. \A e \in stored : [head |-> e, rest |-> {}] \in proc[p].view
  BY <1>4 DEF StoreInv, StoredAlone, AllLines
<1>7. CASE PurgeWrite(p)
  <2>1. proc' = [proc EXCEPT ![p] = after("append_text")]
    BY <1>7 DEF PurgeWrite, Rewrite
  <2>2. lines' \subseteq AnyLine /\ tail' \subseteq AnyLine
    BY <1>4, <1>7 DEF PurgeWrite, Rewrite
  <2>3. \A e : Content([head |-> e, rest |-> {}]) = {e}
    BY DEF Content
  <2>4. \A e : Dropped([head |-> e, rest |-> {}], proc[p].file) => FeatureOf(e, proc[p].file)
    BY <2>3 DEF Dropped, FeatureOf
  <2>5. StoredAlone'
    BY <1>6, <1>7, <2>4 DEF PurgeWrite, Rewrite, StoredAlone
  <2>6. UNCHANGED <<counts, flock, calls, bumps>>
    BY <1>7 DEF PurgeWrite, Rewrite
  <2> HIDE DEF after
  <2> QED BY <1>2, <1>5, <2>1, <2>2, <2>5, <2>6, LogStep
<1>8. CASE PruneWrite(p)
  <2>1. PICK matched : /\ Rewrite(p, {l \in proc[p].view : l.head \notin matched}, "unindex")
                       /\ stored' = stored \ matched
    BY <1>8 DEF PruneWrite
  <2>2. proc' = [proc EXCEPT ![p] = after("unindex")]
    BY <2>1 DEF Rewrite
  <2>3. lines' \subseteq AnyLine /\ tail' \subseteq AnyLine
    BY <1>4, <2>1 DEF Rewrite
  <2>4. StoredAlone'
    BY <1>6, <2>1 DEF Rewrite, StoredAlone
  <2>5. UNCHANGED <<counts, flock, calls, bumps>>
    BY <2>1 DEF Rewrite
  <2> HIDE DEF after
  <2> QED BY <1>2, <1>5, <2>2, <2>3, <2>4, <2>5, LogStep
<1> QED BY <1>7, <1>8

(* Counting a retrieval: the counters read are still the ones on disk.     *)
LEMMA CountStep ==
    ASSUME StoreInv, NEW p \in Procs, CountsWrite(p)
    PROVE  StoreInv'
<1> DEFINE s == [proc[p] EXCEPT !.pc = "unlock"]
<1>1. proc[p] \in ProcState /\ TypeOK
  BY DEF StoreInv, TypeOK
<1>2. s \in ProcState /\ s.pc = "unlock"
  BY <1>1 DEF ProcState, Labels, LockedLabels
<1>3. \A q \in Procs : proc'[q] = IF q = p THEN s ELSE proc[q]
  BY <1>1 DEF CountsWrite, Goto, TypeOK
<1>4. proc[p].seen = counts /\ counts = bumps
  BY DEF CountsWrite, At, StoreInv, ViewCurrent, CountsExact
<1>5. CountsExact'
  BY <1>4 DEF CountsWrite, CountsExact
<1>6. counts' \in Counters /\ bumps' \in Counters
  <2>1. ASSUME NEW c \in Counters, NEW h
        PROVE  [c EXCEPT ![h] = @ + 1] \in Counters
    <3>1. \A i \in CallIds : c[i] \in Nat /\ c[i] + 1 \in Nat
      BY DEF Counters
    <3> QED BY <3>1, Zenon DEF Counters
  <2> QED BY <1>1, <1>4, <2>1 DEF CountsWrite, TypeOK
<1>7. UNCHANGED <<log, flock, calls, stored>>
  BY DEF CountsWrite
<1>8. TypeOK'
  <2>1. proc' \in [Procs -> ProcState]
    BY <1>1, <1>2 DEF CountsWrite, Goto, TypeOK
  <2> QED BY <1>1, <1>6, <1>7, <2>1 DEF TypeOK, log
<1>9. flock = p /\ \A q \in Procs \ {p} : proc[q].pc \notin LockedLabels
  BY DEF CountsWrite, At, StoreInv, LockHeld, LockedLabels
<1>10. LockHeld' /\ LockersKnown' /\ ViewCurrent'
  BY <1>2, <1>3, <1>7, <1>9 DEF StoreInv, LockHeld, LockersKnown, ViewCurrent, LockedLabels
<1>11. StoredAlone'
  BY <1>7 DEF StoreInv, StoredAlone, log
<1> QED BY <1>5, <1>8, <1>10, <1>11 DEF StoreInv

(* Taking and dropping the lock.                                           *)
LEMMA LockStep ==
    ASSUME StoreInv, NEW p \in Procs, LockStore(p) \/ Unlock(p)
    PROVE  StoreInv'
<1>1. proc[p] \in ProcState /\ calls \in 0..MaxCalls
  BY DEF StoreInv, TypeOK
<1>2. CASE LockStore(p)
  <2> DEFINE label == LockedEntry[proc[p].call]
             s == [proc[p] EXCEPT !.pc = label]
  <2>1. proc[p].call \in LockingCalls
    BY <1>2 DEF LockStore, At, StoreInv, LockersKnown
  <2>2. label \in LockedLabels \ {"purge_write", "prune_write", "counts_write"}
    BY <2>1 DEF LockedEntry, LockingCalls, LockedLabels
  <2> HIDE DEF label
  <2>3. s \in ProcState /\ s.pc = label
    BY <1>1, <2>2 DEF ProcState, Labels
  <2>4. proc' = [proc EXCEPT ![p] = s] /\ flock' = p /\ flock = None
    BY <1>2 DEF LockStore, Goto, label
  <2>5. UNCHANGED <<log, counts, calls, stored, bumps>>
    BY <1>2 DEF LockStore, history
  <2>6. s.pc \notin {"purge_write", "prune_write", "counts_write", "lock", "read_pending"}
    BY <2>2, <2>3 DEF LockedLabels
  <2>7. \A q \in Procs \ {p} : flock = q => flock' = q
    BY <2>4
  <2> HIDE DEF s
  <2> QED BY <1>1, <2>3, <2>4, <2>5, <2>6, <2>7, QuietStep
<1>3. CASE Unlock(p)
  <2>1. flock = p
    BY <1>3 DEF Unlock, At, StoreInv, LockHeld, LockedLabels
  <2>2. UNCHANGED <<log, counts, calls, stored, bumps>>
    BY <1>3 DEF Unlock, history
  <2>3. CASE Return(p)
    BY <2>1, <2>2, <2>3, ReturnStep
  <2>4. CASE Goto(p, "drop_pending")
    <3> DEFINE s == [proc[p] EXCEPT !.pc = "drop_pending"]
    <3>1. s \in ProcState /\ s.pc = "drop_pending"
      BY <1>1 DEF ProcState, Labels
    <3>2. proc' = [proc EXCEPT ![p] = s] /\ "drop_pending" \notin LockedLabels
      BY <2>4 DEF Goto, LockedLabels
    <3>3. \A q \in Procs \ {p} : flock = q => flock' = q
      BY <2>1
    <3> HIDE DEF s
    <3> QED BY <1>1, <2>2, <3>1, <3>2, <3>3, QuietStep
  <2> QED BY <1>3, <2>3, <2>4 DEF Unlock
<1> QED BY <1>2, <1>3

(* A locked call reads a file that it, or build_index, works on.           *)
LEMMA ReadStep ==
    ASSUME StoreInv, NEW p \in Procs,
           PurgeRead(p) \/ PruneRead(p) \/ IndexRead(p) \/ CountsRead(p)
    PROVE  StoreInv'
<1>1. proc[p] \in ProcState /\ TypeOK
  BY DEF StoreInv, TypeOK
<1>2. UNCHANGED <<log, counts, flock, calls, stored, bumps>>
  BY DEF PurgeRead, PruneRead, IndexRead, CountsRead, ReadEvents, history
<1>3. flock' = p /\ calls' \in 0..MaxCalls
  BY <1>1, <1>2 DEF PurgeRead, PruneRead, IndexRead, CountsRead, At, StoreInv, LockHeld,
                    LockedLabels, TypeOK
<1>4. AllLines \in SUBSET AnyLine /\ counts \in Counters
  BY <1>1 DEF TypeOK, AllLines
<1>5. ASSUME NEW label \in {"purge_write", "prune_write", "index_write", "unlock"},
             ReadEvents(p, label)
      PROVE  StoreInv'
  <2> DEFINE s == [proc[p] EXCEPT !.pc = label, !.view = AllLines]
  <2>1. label \in Labels /\ label \notin {"counts_write", "lock", "read_pending"}
    BY DEF Labels, LockedLabels
  <2>2. s \in ProcState /\ s.pc = label /\ s.view = AllLines
    BY <1>1, <1>4, <2>1 DEF ProcState
  <2>3. proc' = [proc EXCEPT ![p] = s]
    BY <1>5 DEF ReadEvents
  <2> HIDE DEF s
  <2> QED BY <1>2, <1>3, <2>1, <2>2, <2>3, QuietStep
<1>6. CASE CountsRead(p)
  <2> DEFINE s == [proc[p] EXCEPT !.pc = "counts_write", !.seen = counts]
  <2>1. s \in ProcState /\ s.pc = "counts_write" /\ s.seen = counts
    BY <1>1, <1>4 DEF ProcState, Labels, LockedLabels
  <2>2. proc' = [proc EXCEPT ![p] = s]
    BY <1>6 DEF CountsRead
  <2> HIDE DEF s
  <2> QED BY <1>2, <1>3, <2>1, <2>2, QuietStep
<1> QED BY <1>5, <1>6 DEF PurgeRead, PruneRead, IndexRead

(* The steps on the pending records, the index, and prune without a match. *)
LEMMA OtherStep ==
    ASSUME StoreInv, NEW p \in Procs,
           \/ Sweep(p) \/ SweepRemove(p) \/ WritePending(p) \/ ReadPending(p)
           \/ DropPending(p) \/ PruneNone(p) \/ Unindex(p) \/ IndexWrite(p)
    PROVE  StoreInv'
<1>1. proc[p] \in ProcState /\ calls \in 0..MaxCalls
  BY DEF StoreInv, TypeOK
<1>2. UNCHANGED <<log, counts, flock, calls, stored, bumps>>
  BY DEF Sweep, SweepRemove, WritePending, ReadPending, DropPending, PruneNone, Unindex,
         IndexWrite, SetPending, WriteIndex, history
<1>3. CASE Return(p)
  BY <1>2, <1>3, ReturnStep
<1>4. CASE Goto(p, "write_pending") \/ Goto(p, "drop_pending")
  BY <1>2, <1>4, GotoStep DEF Labels, LockedLabels
<1>5. CASE ReadPending(p) /\ Goto(p, "lock")
  BY <1>2, <1>5, GotoStep DEF ReadPending, At, Labels, LockedLabels
<1>6. CASE PruneNone(p) \/ Unindex(p) \/ IndexWrite(p)
  <2>1. Goto(p, "unlock") /\ proc[p].pc \in LockedLabels
    BY <1>6 DEF PruneNone, Unindex, IndexWrite, WriteIndex, At, LockedLabels
  <2> QED BY <1>2, <2>1, GotoStep DEF Labels, LockedLabels
<1>7. ASSUME NEW label \in {"sweep", "sweep_remove"}, NEW g \in AnyFile,
             proc' = [proc EXCEPT ![p].pc = label, ![p].victim = g]
      PROVE  StoreInv'
  <2> DEFINE s == [proc[p] EXCEPT !.pc = label, !.victim = g]
  <2>1. s \in ProcState /\ s.pc = label
    BY <1>1 DEF ProcState, Labels
  <2>2. proc' = [proc EXCEPT ![p] = s] /\ label \notin LockedLabels
    BY <1>7 DEF LockedLabels
  <2> HIDE DEF s
  <2> QED BY <1>1, <1>2, <2>1, <2>2, QuietStep
<1>8. CASE Sweep(p)
  BY <1>3, <1>4, <1>7, <1>8 DEF Sweep, AnyFile
<1>9. CASE SweepRemove(p)
  BY <1>7, <1>9 DEF SweepRemove, AnyFile
<1> QED BY <1>3, <1>4, <1>5, <1>6, <1>8, <1>9
        DEF WritePending, ReadPending, DropPending, SetPending

(* The beginnings of the calls.                                            *)
LEMMA StartStep ==
    ASSUME StoreInv, NEW p \in Procs, Start(p)
    PROVE  StoreInv'
<1> USE DEF CallNames, LockingCalls, AnyFile
<1>1. 0 \in 0..MaxCalls
  OBVIOUS
<1>2. CASE \E f \in Files : RecordFailure(p, f)
  BY <1>1, <1>2, BeginStep DEF RecordFailure
<1>3. CASE \E f \in Files : RecordSuccess(p, f)
  BY <1>1, <1>3, BeginStep DEF RecordSuccess
<1>4. CASE \E f \in Files : HarvestFeatures(p, f)
  BY <1>1, <1>4, BeginStep DEF HarvestFeatures
<1>5. CASE BuildIndex(p) \/ Prune(p)
  BY <1>1, <1>5, BeginStep DEF BuildIndex, Prune
<1>6. CASE Advise(p)
  <2>1. PICK hit \in Heads(AllLines) : Begin(p, "advise", None, hit.id, "lock")
    BY <1>6 DEF Advise
  <2>2. hit.id \in 0..MaxCalls
    BY DEF StoreInv, TypeOK, Heads, AllLines, AnyLine, AnyEvent
  <2> QED BY <2>1, <2>2, BeginStep
<1> QED BY <1>2, <1>3, <1>4, <1>5, <1>6 DEF Start

(* Every step preserves the invariant.                                     *)
LEMMA NextInv == StoreInv /\ [Next]_vars => StoreInv'
<1> SUFFICES ASSUME StoreInv, [Next]_vars PROVE StoreInv'
  OBVIOUS
<1>1. ASSUME NEW p \in Procs, Start(p) PROVE StoreInv'
  BY <1>1, StartStep
<1>2. ASSUME NEW p \in Procs, Continue(p) PROVE StoreInv'
  BY <1>2, OtherStep, LockStep, AppendStep, ReadStep, RewriteStep, CountStep DEF Continue
<1>3. ASSUME NEW p \in Procs, Crash(p) PROVE StoreInv'
  <2>1. Return(p) /\ UNCHANGED <<log, counts, calls, stored, bumps>>
    BY <1>3 DEF Crash, history
  <2>2. flock' = flock \/ flock = p
    BY <1>3 DEF Crash
  <2> QED BY <2>1, <2>2, ReturnStep
<1>4. ASSUME UNCHANGED <<log, counts, flock, proc, calls, stored, bumps>> PROVE StoreInv'
  BY <1>4 DEF StoreInv, TypeOK, LockHeld, LockersKnown, ViewCurrent, StoredAlone,
              CountsExact, AllLines, log
<1>5. ASSUME NEW f \in Files, Expire(f) PROVE StoreInv'
  BY <1>4, <1>5 DEF Expire, history
<1>6. CASE UNCHANGED vars
  BY <1>4, <1>6 DEF vars, history
<1> QED BY <1>1, <1>2, <1>3, <1>5, <1>6 DEF Next

(* The store keeps the invariant.                                          *)
LEMMA StoreInvariant == Spec => []StoreInv
BY InitInv, NextInv, PTL DEF Spec

(* With any number of processes, no event of events.jsonl is lost to a     *)
(* concurrent rewrite or to a kill.                                        *)
THEOREM StoreNoEventLost == Spec => []NoEventLost
BY StoreInvariant, InvImpliesNoEventLost, PTL

(* With any number of processes, no update of retrieval_counts.json is     *)
(* lost.                                                                   *)
THEOREM StoreCountsExact == Spec => []CountsExact
<1>1. StoreInv => CountsExact
  BY DEF StoreInv
<1> QED BY StoreInvariant, <1>1, PTL
-----------------------------------------------------------------------------
(* The index and the features: what prune removed cannot come back.  An    *)
(* event carries the number of the call that wrote it, and a call writes   *)
(* one event; an event has been written only if its call is past           *)
(* append_text.                                                            *)
Appended == {"append_newline", "unlock", "drop_pending"}
Issued(e) == /\ e.id \in 1..calls
             /\ \A p \in Procs : proc[p].id = e.id => proc[p].pc \in Appended
CallsNumbered ==
    /\ \A p \in Procs : proc[p].id \in 0..calls /\ (proc[p].id = 0 <=> proc[p].pc = "idle")
    /\ \A p, q \in Procs : p # q /\ proc[p].id = proc[q].id => proc[p].id = 0
EventsIssued == \A e \in pruned \cup Heads(AllLines) : Issued(e)
PrunedIsGone == pruned \cap Heads(AllLines) = {}
IndexedIsCurrent == \A p \in Procs : proc[p].pc = "index_write" => proc[p].view = AllLines

IndexInv == CallsNumbered /\ EventsIssued /\ PrunedIsGone /\ IndexedIsCurrent /\ IndexFresh

(* A harvest that is about to append has purged the features of its file.  *)
LogEvents == UNION {Content(l) : l \in AllLines}
PurgedBeforeAppend ==
    \A p \in Procs : proc[p].pc = "append_text" /\ proc[p].call = "harvest" =>
                       \A e \in LogEvents : ~FeatureOf(e, proc[p].file)

FeatureInv == PurgedBeforeAppend /\ FeaturesReplaced

(* What the invariant is for.                                              *)
LEMMA InvGivesIndexFresh == IndexInv => IndexFresh
BY DEF IndexInv

(* The empty store.                                                        *)
LEMMA InitIndexFeature == Init => IndexInv /\ FeatureInv
<1> SUFFICES ASSUME Init PROVE IndexInv /\ FeatureInv
  OBVIOUS
<1>1. \A p \in Procs : proc[p].id = 0 /\ proc[p].pc = "idle"
  BY DEF Init, Idle
<1>2. AllLines = {} /\ Heads(AllLines) = {} /\ pruned = {} /\ index = None /\ calls = 0
  BY DEF Init, AllLines, Heads
<1>3. IndexInv
  BY <1>1, <1>2 DEF IndexInv, CallsNumbered, EventsIssued, PrunedIsGone, IndexedIsCurrent, IndexFresh
<1>4. FeatureInv
  BY <1>1, <1>2 DEF FeatureInv, PurgedBeforeAppend, FeaturesReplaced, LogEvents
<1> QED BY <1>3, <1>4

(* How a step of p changes p's place: a call ends, goes on under its       *)
(* number and past its append for good, or begins under a new number.      *)
(* Only build_index comes to write an index, with what it has just read,   *)
(* and only a purge takes a harvest to its append.                         *)
Tracks(p) ==
    \/ proc'[p].pc = "idle" /\ proc'[p].id = 0 /\ calls' = calls
    \/ /\ proc'[p].pc # "idle" /\ proc[p].pc # "idle"
       /\ proc'[p].id = proc[p].id /\ calls' = calls
       /\ proc[p].pc \in Appended => proc'[p].pc \in Appended
    \/ proc'[p].pc # "idle" /\ proc'[p].id = calls + 1 /\ calls' = calls + 1
StepShape(p) ==
    /\ \A q \in Procs \ {p} : proc'[q] = proc[q]
    /\ Tracks(p)
    /\ proc'[p].pc = "index_write" => proc'[p].view = AllLines
    /\ proc'[p].pc = "append_text" => proc'[p].call # "harvest"

(* A call begins under a new number.                                       *)
LEMMA StartShape ==
    ASSUME StoreInv, NEW p \in Procs, Start(p)
    PROVE  StepShape(p) /\ UNCHANGED <<log, index, pruned, halfPruned>>
<1>1. TypeOK /\ proc[p] \in ProcState
  BY DEF StoreInv, TypeOK
<1>2. ASSUME NEW name, NEW f, NEW hit, NEW label \in {"sweep", "drop_pending", "read_pending", "lock"},
             Begin(p, name, f, hit, label)
      PROVE  StepShape(p) /\ UNCHANGED <<log, index, pruned, halfPruned>>
  BY <1>1, <1>2 DEF Begin, StepShape, Tracks, Idle, TypeOK, history
<1> QED BY <1>2 DEF Start, RecordFailure, RecordSuccess, HarvestFeatures, BuildIndex, Prune, Advise

(* A process goes on to another label, or its call ends.                   *)
LEMMA MoveShape ==
    ASSUME StoreInv, NEW p \in Procs, proc[p].pc # "idle", calls' = calls,
           \/ Return(p)
           \/ \E label \in {"write_pending", "drop_pending", "unlock", "append_newline", "counts_write"} :
                 /\ proc[p].pc \in Appended => label \in Appended
                 /\ Goto(p, label)
           \/ Goto(p, "lock") /\ proc[p].pc = "read_pending"
    PROVE  StepShape(p)
<1>1. TypeOK /\ proc[p] \in ProcState
  BY DEF StoreInv, TypeOK
<1>2. CASE Return(p)
  BY <1>1, <1>2 DEF Return, StepShape, Tracks, Idle, TypeOK
<1>3. ASSUME NEW label \in {"write_pending", "drop_pending", "unlock", "append_newline", "counts_write", "lock"},
             proc[p].pc \in Appended => label \in Appended, Goto(p, label)
      PROVE  StepShape(p)
  BY <1>1, <1>3 DEF Goto, StepShape, Tracks, TypeOK, ProcState
<1>4. CASE Goto(p, "lock") /\ proc[p].pc = "read_pending"
  BY <1>3, <1>4 DEF Appended
<1> QED BY <1>2, <1>3, <1>4

(* The steps that leave events.jsonl, the index and the history alone.     *)
LEMMA QuietShape ==
    ASSUME StoreInv, NEW p \in Procs,
           \/ Sweep(p) \/ SweepRemove(p) \/ WritePending(p) \/ ReadPending(p) \/ DropPending(p)
           \/ LockStore(p) \/ Unlock(p) \/ PurgeRead(p) \/ PruneRead(p) \/ PruneNone(p)
           \/ IndexRead(p) \/ CountsRead(p) \/ CountsWrite(p) \/ Crash(p)
    PROVE  StepShape(p) /\ UNCHANGED <<log, index, pruned, halfPruned>>
<1>0. TypeOK /\ proc[p] \in ProcState
  BY DEF StoreInv, TypeOK
<1>1. UNCHANGED <<log, index, pruned, halfPruned>> /\ calls' = calls
  BY DEF Sweep, SweepRemove, WritePending, ReadPending, DropPending, SetPending, LockStore, Unlock,
         PurgeRead, PruneRead, PruneNone, IndexRead, ReadEvents, CountsRead, CountsWrite, Crash, history
<1> USE DEF At, Appended
<1>2. CASE Sweep(p)
  <2>1. CASE \E g : proc' = [proc EXCEPT ![p].pc = "sweep_remove", ![p].victim = g]
    BY <1>0, <1>1, <1>2, <2>1 DEF Sweep, StepShape, Tracks, TypeOK, ProcState
  <2> QED BY <1>1, <1>2, <2>1, MoveShape DEF Sweep
<1>3. CASE SweepRemove(p)
  BY <1>0, <1>1, <1>3 DEF SweepRemove, StepShape, Tracks, TypeOK, ProcState
<1>4. CASE WritePending(p) \/ DropPending(p) \/ ReadPending(p) \/ PruneNone(p) \/ CountsWrite(p) \/ Crash(p)
  BY <1>1, <1>4, MoveShape DEF WritePending, DropPending, ReadPending, PruneNone, CountsWrite, Crash, SetPending
<1>5. CASE Unlock(p)
  BY <1>1, <1>5, MoveShape DEF Unlock
<1>6. CASE LockStore(p)
  <2> DEFINE label == LockedEntry[proc[p].call]
  <2>1. proc[p].call \in LockingCalls
    BY <1>6 DEF LockStore, StoreInv, LockersKnown
  <2>2. /\ label \in {"append_text", "purge_read", "index_read", "counts_read", "prune_read"}
        /\ label = "append_text" => proc[p].call # "harvest"
    BY <2>1 DEF LockedEntry, LockingCalls
  <2>3. proc' = [proc EXCEPT ![p].pc = label] /\ proc[p].pc = "lock"
    BY <1>6 DEF LockStore, Goto
  <2> HIDE DEF label
  <2> QED BY <1>0, <1>1, <2>2, <2>3 DEF StepShape, Tracks, TypeOK, ProcState
<1>7. ASSUME NEW next \in {"purge_write", "prune_write", "index_write", "unlock"}, ReadEvents(p, next),
             proc[p].pc \in {"purge_read", "prune_read", "index_read"}
      PROVE  StepShape(p)
  BY <1>0, <1>1, <1>7 DEF ReadEvents, StepShape, Tracks, TypeOK, ProcState
<1>8. CASE PurgeRead(p) \/ PruneRead(p) \/ IndexRead(p)
  BY <1>1, <1>7, <1>8 DEF PurgeRead, PruneRead, IndexRead
<1>9. CASE CountsRead(p)
  BY <1>0, <1>1, <1>9 DEF CountsRead, StepShape, Tracks, TypeOK, ProcState
<1> QED BY <1>1, <1>2, <1>3, <1>4, <1>5, <1>6, <1>8, <1>9

(* Calls keep their numbers, and an event once issued stays so.            *)
LEMMA NumbersStep ==
    ASSUME TypeOK, CallsNumbered, NEW p \in Procs,
           Tracks(p), \A q \in Procs \ {p} : proc'[q] = proc[q]
    PROVE  CallsNumbered' /\ \A e : Issued(e) => Issued(e)'
<1>1. calls \in Nat
  BY DEF TypeOK
<1>2. CallsNumbered'
  BY <1>1 DEF CallsNumbered, Tracks
<1>3. ASSUME NEW e, Issued(e) PROVE Issued(e)'
  <2>1. e.id \in 1..calls /\ e.id \in 1..calls'
    BY <1>1, <1>3 DEF Issued, Tracks
  <2>2. proc'[p].id = e.id => proc'[p].pc \in Appended
    BY <1>1, <1>3, <2>1 DEF Issued, Tracks
  <2> QED BY <1>3, <2>1, <2>2 DEF Issued
<1> QED BY <1>2, <1>3

(* A step that writes no new event and prunes nothing.                     *)
LEMMA IndexStepQuiet ==
    ASSUME StoreInv, IndexInv, NEW p \in Procs, StepShape(p),
           Heads(AllLines)' \subseteq Heads(AllLines), pruned' = pruned,
           AllLines' = AllLines \/ (proc[p].pc \in LockedLabels /\ proc'[p].pc # "index_write"),
           IndexFresh'
    PROVE  IndexInv'
<1>1. CallsNumbered' /\ \A e : Issued(e) => Issued(e)'
  BY NumbersStep DEF StoreInv, IndexInv, StepShape
<1>2. EventsIssued' /\ PrunedIsGone'
  BY <1>1 DEF IndexInv, EventsIssued, PrunedIsGone
<1>3. IndexedIsCurrent'
  <2>1. CASE AllLines' = AllLines
    BY <2>1 DEF IndexInv, IndexedIsCurrent, StepShape
  <2>2. CASE proc[p].pc \in LockedLabels /\ proc'[p].pc # "index_write"
    <3>1. \A q \in Procs \ {p} : proc[q].pc # "index_write"
      BY <2>2 DEF StoreInv, LockHeld, LockedLabels
    <3> QED BY <2>2, <3>1 DEF IndexedIsCurrent, StepShape
  <2> QED BY <2>1, <2>2
<1> QED BY <1>1, <1>2, <1>3 DEF IndexInv

(* The appended event is new: prune cannot have removed it.                *)
LEMMA IndexAppend ==
    ASSUME StoreInv, IndexInv, NEW p \in Procs, AppendText(p) \/ AppendNewline(p)
    PROVE  IndexInv'
<1>0. TypeOK /\ proc[p] \in ProcState
  BY DEF StoreInv, TypeOK
<1>1. calls' = calls /\ UNCHANGED <<index, pruned, halfPruned>>
  BY DEF AppendText, AppendNewline, history
<1>2. IndexFresh'
  BY <1>1 DEF IndexInv, IndexFresh
<1>3. StepShape(p) /\ proc[p].pc \in LockedLabels /\ proc'[p].pc \in Appended
  <2>1. \E label \in {"append_newline", "unlock"} : Goto(p, label) /\ label \in Appended /\ proc[p].pc \in {"append_text", "append_newline"}
    BY DEF AppendText, AppendNewline, At, Appended
  <2>2. StepShape(p)
    BY <1>1, <2>1, MoveShape
  <2> QED BY <1>0, <2>1, <2>2 DEF Goto, ProcState, TypeOK, LockedLabels
<1>4. CASE AppendNewline(p)
  <2>1. AllLines' = AllLines
    BY <1>4 DEF AppendNewline, AllLines
  <2>2. Heads(AllLines)' = Heads(AllLines)
    BY <2>1 DEF Heads
  <2> QED BY <1>1, <1>2, <1>3, <2>1, <2>2, IndexStepQuiet
<1>5. CASE AppendText(p)
  <2> DEFINE e == NewEvent(p)
  <2>1. proc[p].pc = "append_text" /\ proc'[p].pc = "append_newline" /\ proc'[p].id = proc[p].id
    BY <1>0, <1>5 DEF AppendText, At, Goto, TypeOK, ProcState
  <2>2. e.id = proc[p].id /\ proc[p].id \in 1..calls
    <3>1. e.id = proc[p].id
      BY DEF NewEvent
    <3>2. proc[p].id \in 0..calls /\ proc[p].id # 0 /\ calls \in Nat
      BY <1>0, <2>1 DEF IndexInv, CallsNumbered, TypeOK
    <3> QED BY <3>1, <3>2
  <2>3. Heads(AllLines)' \subseteq Heads(AllLines) \cup {e}
    <3>1. lines' = lines
      BY <1>5 DEF AppendText
    <3>2. CASE tail = {}
      <4>1. tail' = {OwnLine(p)} /\ OwnLine(p).head = e
        BY <1>5, <3>2 DEF AppendText, OwnLine
      <4> QED BY <3>1, <4>1 DEF Heads, AllLines
    <3>3. CASE tail # {}
      <4>1. tail' = {[l EXCEPT !.rest = @ \cup {NewEvent(p)}] : l \in tail}
        BY <1>5, <3>3 DEF AppendText
      <4>2. \A l \in tail : [l EXCEPT !.rest = @ \cup {NewEvent(p)}].head = l.head
        BY <1>0 DEF TypeOK, AnyLine
      <4>3. \A m \in tail' : \E l \in tail : m.head = l.head
        BY <4>1, <4>2
      <4> QED BY <3>1, <4>3 DEF Heads, AllLines
    <3> QED BY <3>2, <3>3
  <2> HIDE DEF e
  <2>4. e \notin pruned
    BY <2>1, <2>2 DEF IndexInv, EventsIssued, Issued, Appended
  <2>5. CallsNumbered' /\ \A d : Issued(d) => Issued(d)'
    BY <1>0, <1>3, NumbersStep DEF IndexInv, StepShape
  <2>6. e.id \in 1..calls' /\ \A q \in Procs : proc'[q].id = e.id => proc'[q].pc \in Appended
    <3>1. \A q \in Procs \ {p} : proc'[q].id # e.id
      BY <1>3, <2>2 DEF IndexInv, CallsNumbered, StepShape
    <3> QED BY <1>1, <1>3, <2>2, <3>1
  <2>7. EventsIssued'
    <3> SUFFICES ASSUME NEW d \in pruned' \cup Heads(AllLines)' PROVE Issued(d)'
      BY DEF EventsIssued
    <3>1. CASE d = e
      BY <2>6, <3>1 DEF Issued
    <3>2. CASE d \in pruned \cup Heads(AllLines)
      BY <2>5, <3>2 DEF IndexInv, EventsIssued
    <3> QED BY <1>1, <2>3, <3>1, <3>2
  <2>8. PrunedIsGone'
    BY <1>1, <2>3, <2>4 DEF IndexInv, PrunedIsGone
  <2>9. IndexedIsCurrent'
    <3>1. \A q \in Procs \ {p} : proc[q].pc # "index_write"
      BY <1>3 DEF StoreInv, LockHeld, LockedLabels
    <3> QED BY <1>3, <2>1, <3>1 DEF IndexedIsCurrent, StepShape
  <2> QED BY <1>2, <2>5, <2>7, <2>8, <2>9 DEF IndexInv
<1> QED BY <1>4, <1>5

(* Rewriting the log keeps lines; the ones prune drops are the pruned.     *)
LEMMA IndexRewrite ==
    ASSUME StoreInv, IndexInv, NEW p \in Procs, PurgeWrite(p) \/ PruneWrite(p)
    PROVE  IndexInv'
<1>0. TypeOK /\ proc[p] \in ProcState
  BY DEF StoreInv, TypeOK
<1>1. proc[p].pc \in {"purge_write", "prune_write"} /\ proc[p].view = AllLines
  BY DEF PurgeWrite, PruneWrite, At, StoreInv, ViewCurrent
<1>2. calls' = calls /\ index' = index
  BY DEF PurgeWrite, PruneWrite, Rewrite
<1>3. PICK kept, next : /\ kept \subseteq AllLines /\ next \in {"append_text", "unindex"}
                        /\ lines' = kept /\ tail' = {}
                        /\ proc' = [proc EXCEPT ![p].pc = next, ![p].view = {}]
  BY <1>1 DEF PurgeWrite, PruneWrite, Rewrite
<1>4. AllLines' = kept /\ Heads(AllLines)' \subseteq Heads(AllLines)
  BY <1>3 DEF AllLines, Heads
<1>5. /\ \A q \in Procs \ {p} : proc'[q] = proc[q]
      /\ proc'[p].pc = next /\ proc'[p].id = proc[p].id
  BY <1>0, <1>3 DEF TypeOK, ProcState
<1>6. Tracks(p) /\ proc'[p].pc # "index_write" /\ proc[p].pc \in LockedLabels
  BY <1>1, <1>2, <1>3, <1>5 DEF Tracks, Appended, LockedLabels
<1>7. CallsNumbered' /\ \A e : Issued(e) => Issued(e)'
  BY <1>0, <1>5, <1>6, NumbersStep DEF IndexInv
<1>8. IndexedIsCurrent'
  <2>1. \A q \in Procs \ {p} : proc[q].pc # "index_write"
    BY <1>6 DEF StoreInv, LockHeld, LockedLabels
  <2> QED BY <1>5, <1>6, <2>1 DEF IndexedIsCurrent
<1>9. EventsIssued' /\ PrunedIsGone' /\ IndexFresh'
  <2>1. CASE PurgeWrite(p)
    <3>1. pruned' = pruned /\ halfPruned' = halfPruned
      BY <2>1 DEF PurgeWrite
    <3> QED BY <1>2, <1>4, <1>7, <3>1 DEF IndexInv, EventsIssued, PrunedIsGone, IndexFresh
  <2>2. CASE PruneWrite(p)
    <3>1. PICK matched \in SUBSET Heads(proc[p].view) :
              lines' = {l \in proc[p].view : l.head \notin matched} /\ pruned' = pruned \cup matched
      BY <2>2 DEF PruneWrite, Rewrite
    <3>2. matched \subseteq Heads(AllLines) /\ AllLines' = {l \in AllLines : l.head \notin matched}
      BY <1>1, <1>3, <1>4, <3>1
    <3>3. matched \cap Heads(AllLines)' = {}
      BY <3>2 DEF Heads
    <3> QED BY <1>4, <1>7, <2>2, <3>1, <3>2, <3>3
            DEF IndexInv, EventsIssued, PrunedIsGone, IndexFresh, PruneWrite
  <2> QED BY <2>1, <2>2
<1> QED BY <1>7, <1>8, <1>9 DEF IndexInv

(* build_index writes what it has just read; prune removes the index.      *)
LEMMA IndexWritten ==
    ASSUME StoreInv, IndexInv, NEW p \in Procs, Unindex(p) \/ IndexWrite(p)
    PROVE  IndexInv'
<1>1. /\ UNCHANGED log /\ calls' = calls /\ pruned' = pruned
      /\ proc[p].pc \in {"unindex", "index_write"} /\ Goto(p, "unlock")
  BY DEF Unindex, IndexWrite, WriteIndex, At
<1>2. StepShape(p)
  BY <1>1, MoveShape DEF Appended
<1>3. AllLines' = AllLines /\ Heads(AllLines)' = Heads(AllLines)
  BY <1>1 DEF AllLines, Heads, log
<1>4. index' = None \/ index' = Heads(AllLines)
  BY DEF Unindex, IndexWrite, WriteIndex, At, IndexInv, IndexedIsCurrent
<1>5. IndexFresh'
  BY <1>1, <1>4 DEF IndexInv, PrunedIsGone, IndexFresh
<1> QED BY <1>1, <1>2, <1>3, <1>5, IndexStepQuiet

(* Every step preserves the invariant of the index.                        *)
LEMMA NextIndexInv == StoreInv /\ IndexInv /\ [Next]_vars => IndexInv'
<1> SUFFICES ASSUME StoreInv, IndexInv, [Next]_vars PROVE IndexInv'
  OBVIOUS
<1>1. ASSUME NEW p \in Procs, StepShape(p), UNCHANGED <<log, index, pruned, halfPruned>>
      PROVE  IndexInv'
  <2>1. AllLines' = AllLines /\ Heads(AllLines)' = Heads(AllLines)
    BY <1>1 DEF AllLines, Heads, log
  <2>2. IndexFresh'
    BY <1>1 DEF IndexInv, IndexFresh
  <2> QED BY <1>1, <2>1, <2>2, IndexStepQuiet
<1>2. ASSUME NEW p \in Procs, Start(p) \/ Continue(p) \/ Crash(p) PROVE IndexInv'
  BY <1>1, <1>2, StartShape, QuietShape, IndexAppend, IndexRewrite, IndexWritten DEF Continue
<1>3. ASSUME UNCHANGED <<log, index, proc, calls, pruned, halfPruned>> PROVE IndexInv'
  BY <1>3 DEF IndexInv, CallsNumbered, EventsIssued, Issued, PrunedIsGone, IndexedIsCurrent, IndexFresh,
              Heads, AllLines, log
<1>4. ASSUME NEW f \in Files, Expire(f) PROVE IndexInv'
  BY <1>3, <1>4 DEF Expire, history
<1>5. CASE UNCHANGED vars
  BY <1>3, <1>5 DEF vars, history
<1> QED BY <1>2, <1>4, <1>5 DEF Next

(* With any number of processes, no index lists an event that prune        *)
(* removed, unless a prune stopped between its two steps: the index is     *)
(* built under the lock from what is in the file, and no call writes the   *)
(* event of another.                                                       *)
THEOREM StoreIndexFresh == Spec => []IndexFresh
<1>1. StoreInv /\ IndexInv /\ [Next]_vars => (StoreInv /\ IndexInv)'
  BY NextInv, NextIndexInv
<1>2. Init => StoreInv /\ IndexInv
  BY InitInv, InitIndexFeature
<1> QED BY <1>1, <1>2, InvGivesIndexFresh, PTL DEF Spec

(* One feature event per file, said of the events of the log.              *)
OneFeature == \A f \in Files : \A e, d \in LogEvents : FeatureOf(e, f) /\ FeatureOf(d, f) => e = d

(* FeaturesReplaced looks at the lines, OneFeature at the events on them.  *)
LEMMA OneFeatureOfLog == FeaturesReplaced <=> OneFeature
BY DEF LogEvents, FeaturesReplaced, OneFeature

(* The same after a step.                                                  *)
LEMMA OneFeatureOfNextLog == OneFeature' => FeaturesReplaced'
BY DEF LogEvents, FeaturesReplaced, OneFeature

(* A step that adds no event to the log and takes no harvest to its append *)
(* before the purge.                                                       *)
LEMMA FeatureStepQuiet ==
    ASSUME FeatureInv, NEW p \in Procs, \A q \in Procs \ {p} : proc'[q] = proc[q],
           LogEvents' \subseteq LogEvents,
           proc'[p].pc = "append_text" /\ proc'[p].call = "harvest" =>
              \A e \in LogEvents' : ~FeatureOf(e, proc'[p].file)
    PROVE  FeatureInv'
<1>1. OneFeature'
  BY OneFeatureOfLog DEF FeatureInv, OneFeature
<1>2. PurgedBeforeAppend'
  BY DEF FeatureInv, PurgedBeforeAppend
<1> QED BY <1>1, <1>2, OneFeatureOfNextLog DEF FeatureInv

(* Appending: a feature event finds no other of its file in the log.       *)
LEMMA FeatureAppend ==
    ASSUME StoreInv, FeatureInv, NEW p \in Procs, AppendText(p) \/ AppendNewline(p)
    PROVE  FeatureInv'
<1>0. TypeOK /\ proc[p] \in ProcState
  BY DEF StoreInv, TypeOK
<1>1. /\ \A q \in Procs \ {p} : proc'[q] = proc[q]
      /\ proc'[p].pc \in {"append_newline", "unlock"}
  BY <1>0 DEF AppendText, AppendNewline, Goto, TypeOK, ProcState
<1>2. CASE AppendNewline(p)
  <2>1. LogEvents' = LogEvents
    BY <1>2 DEF AppendNewline, LogEvents, AllLines
  <2> QED BY <1>1, <2>1, FeatureStepQuiet
<1>3. CASE AppendText(p)
  <2> DEFINE n == NewEvent(p)
  <2>1. LogEvents' \subseteq LogEvents \cup {n}
    <3>1. lines' = lines
      BY <1>3 DEF AppendText
    <3>2. \A m \in tail' : \A e \in Content(m) : e \in LogEvents \cup {n}
      <4>1. CASE tail = {}
        <5>1. tail' = {OwnLine(p)} /\ Content(OwnLine(p)) = {n}
          BY <1>3, <4>1 DEF AppendText, OwnLine, Content
        <5> QED BY <5>1
      <4>2. CASE tail # {}
        <5>1. tail' = {[l EXCEPT !.rest = @ \cup {n}] : l \in tail}
          BY <1>3, <4>2 DEF AppendText
        <5>2. \A l \in tail : Content([l EXCEPT !.rest = @ \cup {n}]) = Content(l) \cup {n}
          BY <1>0 DEF TypeOK, AnyLine, Content
        <5>3. \A m \in tail' : \E l \in tail : Content(m) = Content(l) \cup {n}
          BY <5>1, <5>2
        <5> QED BY <5>3 DEF LogEvents, AllLines
      <4> QED BY <4>1, <4>2
    <3> QED BY <3>1, <3>2 DEF LogEvents, AllLines
  <2>2. \A f \in Files : FeatureOf(n, f) => \A e \in LogEvents : ~FeatureOf(e, f)
    <3>1. \A f \in Files : FeatureOf(n, f) => proc[p].call = "harvest" /\ proc[p].file = f
      BY DEF NewEvent, FeatureOf
    <3> QED BY <1>3, <3>1 DEF AppendText, At, FeatureInv, PurgedBeforeAppend
  <2> HIDE DEF n
  <2>3. OneFeature'
    BY <2>1, <2>2, OneFeatureOfLog DEF FeatureInv, OneFeature
  <2>4. PurgedBeforeAppend'
    <3>1. \A q \in Procs \ {p} : proc[q].pc # "append_text"
      BY <1>3 DEF AppendText, At, StoreInv, LockHeld, LockedLabels
    <3> QED BY <1>1, <3>1 DEF PurgedBeforeAppend
  <2> QED BY <2>3, <2>4, OneFeatureOfNextLog DEF FeatureInv
<1> QED BY <1>2, <1>3

(* Rewriting drops events; a purge drops all features of its file.         *)
LEMMA FeatureRewrite ==
    ASSUME StoreInv, FeatureInv, NEW p \in Procs, PurgeWrite(p) \/ PruneWrite(p)
    PROVE  FeatureInv'
<1>0. TypeOK /\ proc[p] \in ProcState
  BY DEF StoreInv, TypeOK
<1>1. proc[p].view = AllLines
  BY DEF PurgeWrite, PruneWrite, At, StoreInv, ViewCurrent
<1>2. CASE PurgeWrite(p)
  <2>1. AllLines' = {l \in AllLines : ~Dropped(l, proc[p].file)}
    BY <1>1, <1>2 DEF PurgeWrite, Rewrite, AllLines
  <2>2. /\ \A q \in Procs \ {p} : proc'[q] = proc[q]
        /\ proc'[p].file = proc[p].file
    BY <1>0, <1>2 DEF PurgeWrite, Rewrite, TypeOK, ProcState
  <2>3. \A l : ~Dropped(l, proc[p].file) => \A e \in Content(l) : ~FeatureOf(e, proc[p].file)
    BY DEF Dropped, FeatureOf
  <2>4. \A e \in LogEvents' : e \in LogEvents /\ ~FeatureOf(e, proc[p].file)
    BY <2>1, <2>3 DEF LogEvents
  <2> QED BY <2>2, <2>4, FeatureStepQuiet
<1>3. CASE PruneWrite(p)
  <2>1. PICK kept : kept \subseteq AllLines /\ lines' = kept /\ tail' = {}
                    /\ proc' = [proc EXCEPT ![p].pc = "unindex", ![p].view = {}]
    BY <1>1, <1>3 DEF PruneWrite, Rewrite
  <2>2. LogEvents' \subseteq LogEvents
    BY <2>1 DEF LogEvents, AllLines
  <2>3. (\A q \in Procs \ {p} : proc'[q] = proc[q]) /\ proc'[p].pc = "unindex"
    BY <1>0, <2>1 DEF TypeOK, ProcState
  <2> QED BY <2>2, <2>3, FeatureStepQuiet
<1> QED BY <1>2, <1>3

(* Every step preserves the invariant of the features.                     *)
LEMMA NextFeatureInv == StoreInv /\ FeatureInv /\ [Next]_vars => FeatureInv'
<1> SUFFICES ASSUME StoreInv, FeatureInv, [Next]_vars PROVE FeatureInv'
  OBVIOUS
<1>1. ASSUME NEW p \in Procs, StepShape(p), UNCHANGED log PROVE FeatureInv'
  <2>1. LogEvents' = LogEvents
    BY <1>1 DEF LogEvents, AllLines, log
  <2> QED BY <1>1, <2>1, FeatureStepQuiet DEF StepShape
<1>2. ASSUME NEW p \in Procs, Unindex(p) \/ IndexWrite(p) PROVE FeatureInv'
  <2>1. /\ UNCHANGED log /\ calls' = calls
        /\ proc[p].pc \in {"unindex", "index_write"} /\ Goto(p, "unlock")
    BY <1>2 DEF Unindex, IndexWrite, WriteIndex, At
  <2> QED BY <1>1, <2>1, MoveShape DEF Appended
<1>3. ASSUME NEW p \in Procs, Start(p) \/ Continue(p) \/ Crash(p) PROVE FeatureInv'
  BY <1>1, <1>2, <1>3, StartShape, QuietShape, FeatureAppend, FeatureRewrite DEF Continue
<1>4. ASSUME UNCHANGED <<log, proc>> PROVE FeatureInv'
  BY <1>4 DEF FeatureInv, PurgedBeforeAppend, FeaturesReplaced, LogEvents, AllLines, log
<1>5. ASSUME NEW f \in Files, Expire(f) PROVE FeatureInv'
  BY <1>4, <1>5 DEF Expire
<1>6. CASE UNCHANGED vars
  BY <1>4, <1>6 DEF vars
<1> QED BY <1>3, <1>5, <1>6 DEF Next

(* With any number of processes harvesting the same files, a file never    *)
(* has two feature events: purge and append happen under one lock, and a   *)
(* purge drops even the lines on which a killed process left text behind.  *)
THEOREM StoreFeaturesReplaced == Spec => []FeaturesReplaced
<1>1. StoreInv /\ FeatureInv /\ [Next]_vars => (StoreInv /\ FeatureInv)'
  BY NextInv, NextFeatureInv
<1>2. Init => StoreInv /\ FeatureInv
  BY InitInv, InitIndexFeature
<1>3. FeatureInv => FeaturesReplaced
  BY DEF FeatureInv
<1> QED BY <1>1, <1>2, <1>3, PTL DEF Spec
=============================================================================
