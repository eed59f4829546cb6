--------------------------- MODULE StorageProofs ----------------------------
(***************************************************************************)
(* The storage of a design: its FIFOs, and the pool and the lists of a     *)
(* `linklist` declaration, for any number of nodes, any words and every    *)
(* declaration that ListsSupported admits.                                 *)
(*                                                                         *)
(* The invariant of the lists names the free list F, the slots H that the  *)
(* user holds after alloc, and the list C[h] of every head: they and the   *)
(* slot of an insertion under way part the pool without repetition, F is   *)
(* read off the ring and C[h] off the pointers, and the counters are their *)
(* lengths.  While an operation is under way the user sees ListsDone, the  *)
(* lists it leaves, so accepting an operation changes what is seen, as     *)
(* ListSpec says, and the edge that ends it does not.  Of the class the    *)
(* invariant says that it keeps the same registers.                        *)
(***************************************************************************)
EXTENDS StorageBodiesProofs

(* The registers of a list.                                                *)
RegsOK(d, s) ==
    /\ Shaped(s)
    /\ s.fl_mem \in [Nodes -> Nodes] /\ s.fl_rdp \in Pointers /\ s.fl_wrp \in Pointers
    /\ s.fl_cnt \in 0..NODES
    /\ s.data \in [Nodes -> d.DATA \cup {NoData}]
    /\ s.next \in [Nodes -> Nodes] /\ s.prev \in [Nodes -> Nodes]
    /\ s.head \in [HeadsOf(d) -> Nodes] /\ s.tail \in [HeadsOf(d) -> Nodes]
    /\ s.length \in [HeadsOf(d) -> 0..NODES]
    /\ s.ctl = [op \in List!Operations |-> s.ctl[op]]

(* F is what is in the free list, from its read pointer on.                *)
RingOK(s, F) ==
    /\ F \in Seq(Nodes) /\ Len(F) = s.fl_cnt
    /\ s.fl_wrp % NODES = RingAt(s.fl_rdp % NODES, s.fl_cnt)
    /\ \A i \in 1..Len(F) : F[i] = s.fl_mem[RingAt(s.fl_rdp % NODES, i - 1)]

(* F, the user's hands H, the slot on its way P and the lists C share out  *)
(* the pool.                                                               *)
Once(c) == \A i, j \in 1..Len(c) : c[i] = c[j] => i = j
In(x, c) == \E i \in 1..Len(c) : c[i] = x
ShareOK(d, F, H, P, C) ==
    /\ Once(F) /\ \A g \in HeadsOf(d) : Once(C[g])
    /\ \A g, h \in HeadsOf(d) : g # h => \A x \in Nodes : ~(In(x, C[g]) /\ In(x, C[h]))
    /\ \A x \in Nodes : In(x, F) => x \notin H /\ x \notin P /\ \A g \in HeadsOf(d) : ~In(x, C[g])
    /\ \A x \in H \cup P : x \in Nodes /\ \A g \in HeadsOf(d) : ~In(x, C[g])
    /\ \A x \in H : x \notin P
    /\ \A x \in Nodes : In(x, F) \/ x \in H \/ x \in P \/ \E g \in HeadsOf(d) : In(x, C[g])

(* C are the lists in the memories.                                        *)
Linked(d, s, h, c) ==
    /\ Len(c) > 0 => s.head[h] = c[1]
    /\ \A i \in 1..(Len(c) - 1) : s.next[c[i]] = c[i + 1]
    /\ d.track_tail /\ Len(c) > 0 => s.tail[h] = c[Len(c)]
    /\ d.doubly => \A i \in 1..(Len(c) - 1) : s.prev[c[i + 1]] = c[i]

Owed(b) == IF b \in List!Insertions THEN 1 ELSE 0
CountOK(d, s, b, C) ==
    /\ d.heads > 1 => \A h \in HeadsOf(d) : s.length[h] = Len(C[h])
    /\ d.heads = 1 => Len(C[0]) + s.fl_cnt + Owed(b) = NODES

(* What a controller that is busy keeps of its request.                    *)
Kept(d, s, b, C) ==
    LET c == s.ctl[b]
        list == C[c.head]
    IN  /\ c.head \in HeadsOf(d) /\ c.handle \in Nodes
        /\ b \in List!Insertions => c.was_empty = (Len(list) = 0)
        /\ b = "insert_after" =>
              \E k \in 1..Len(list) :
                  /\ c.after = list[k] /\ (d.track_tail => k < Len(list))
                  /\ s.next[c.handle] = s.next[c.after]
        /\ b = "delete_head" => Len(list) > 0 /\ c.handle = list[1]
        /\ b = "delete" => ~d.track_tail /\ Len(list) > 0 /\ c.handle = list[Len(list)]
Pending(s, b) == IF b \in List!Insertions THEN {s.ctl[b].handle} ELSE {}

(* b is the operation under way, or "none".                                *)
Shape(d, s, H, b, F, C) ==
    /\ RegsOK(d, s) /\ RingOK(s, F)
    /\ H \subseteq Nodes /\ (d.heads = 1 => H = {})
    /\ C \in [HeadsOf(d) -> Seq(Nodes)]
    /\ ShareOK(d, F, H, Pending(s, b), C)
    /\ \A h \in HeadsOf(d) : Linked(d, s, h, C[h])
    /\ CountOK(d, s, b, C)
    /\ b = "none" \/ (b \in Structure /\ Does(d, b) /\ Kept(d, s, b, C))
    /\ OnlyBusy(s, b)
-----------------------------------------------------------------------------
(* A list with a node more or a node less.                                 *)
Ins(c, k, x) ==
    [i \in 1..(Len(c) + 1) |-> IF i < k THEN c[i] ELSE IF i = k THEN x ELSE c[i - 1]]
Del(c, k) == [i \in 1..(Len(c) - 1) |-> IF i < k THEN c[i] ELSE c[i + 1]]

(* A sequence without repetition stays so when something new is put in.    *)
LEMMA OnceMore ==
    ASSUME NEW n \in Nat, NEW k \in 1..(n + 1), NEW c, NEW x, NEW z,
           \A l \in 1..n : c[l] # x, \A l, m \in 1..n : c[l] = c[m] => l = m,
           \A i \in 1..(n + 1) : z[i] = IF i < k THEN c[i] ELSE IF i = k THEN x ELSE c[i - 1]
    PROVE  \A i, j \in 1..(n + 1) : z[i] = z[j] => i = j
<1> SUFFICES ASSUME NEW i \in 1..(n + 1), NEW j \in 1..(n + 1), z[i] = z[j] PROVE i = j
  OBVIOUS
<1>1. ASSUME NEW l \in 1..(n + 1)
      PROVE  /\ l < k => l \in 1..n /\ z[l] = c[l]
             /\ l = k => z[l] = x
             /\ l > k => l - 1 \in 1..n /\ z[l] = c[l - 1]
  OBVIOUS
<1>2. i = k => j = k
  BY <1>1
<1>3. j = k => i = k
  BY <1>1
<1>4. CASE i < k /\ j < k
  BY <1>1, <1>4
<1>5. CASE i < k /\ j > k
  <2>1. i = j - 1
    BY <1>1, <1>5
  <2> QED BY <1>5, <2>1
<1>6. CASE i > k /\ j < k
  <2>1. i - 1 = j
    BY <1>1, <1>6
  <2> QED BY <1>6, <2>1
<1>7. CASE i > k /\ j > k
  <2>1. i - 1 = j - 1
    BY <1>1, <1>7
  <2> QED BY <1>7, <2>1
<1> QED BY <1>2, <1>3, <1>4, <1>5, <1>6, <1>7

(* The places of a list with a node put in.                                *)
LEMMA InsIs ==
    ASSUME NEW S, NEW c \in Seq(S), NEW x \in S, NEW k \in 1..(Len(c) + 1)
    PROVE  /\ Ins(c, k, x) \in Seq(S) /\ Len(Ins(c, k, x)) = Len(c) + 1
           /\ \A i \in 1..(Len(c) + 1) :
                  Ins(c, k, x)[i] = IF i < k THEN c[i] ELSE IF i = k THEN x ELSE c[i - 1]
<1> DEFINE z == Ins(c, k, x)
           n == Len(c)
<1>1. n \in Nat /\ c \in [1..n -> S]
  OBVIOUS
<1>2. z \in [1..(n + 1) -> S]
  BY <1>1 DEF Ins
<1>3. z \in Seq(S) /\ Len(z) = n + 1
  <2> HIDE DEF z, n
  <2>1. n + 1 \in Nat
    BY <1>1
  <2> QED BY <1>2, <2>1, SeqDef, LenProperties
<1>4. \A i \in 1..(n + 1) : z[i] = IF i < k THEN c[i] ELSE IF i = k THEN x ELSE c[i - 1]
  BY DEF Ins
<1> HIDE DEF z
<1> QED BY <1>3, <1>4 DEF z

(* Putting a node into a list.                                             *)
LEMMA InsFacts ==
    ASSUME NEW S, NEW c \in Seq(S), NEW x \in S, NEW k \in 1..(Len(c) + 1)
    PROVE  /\ Ins(c, k, x) \in Seq(S) /\ Len(Ins(c, k, x)) = Len(c) + 1
           /\ \A i \in 1..(Len(c) + 1) :
                  Ins(c, k, x)[i] = IF i < k THEN c[i] ELSE IF i = k THEN x ELSE c[i - 1]
           /\ \A y : In(y, Ins(c, k, x)) <=> y = x \/ In(y, c)
           /\ Once(c) /\ ~In(x, c) => Once(Ins(c, k, x))
<1> DEFINE z == Ins(c, k, x)
           n == Len(c)
<1>1. n \in Nat /\ c \in [1..n -> S]
  OBVIOUS
<1>3. z \in Seq(S) /\ Len(z) = n + 1
  BY InsIs
<1>4. \A i \in 1..(n + 1) : z[i] = IF i < k THEN c[i] ELSE IF i = k THEN x ELSE c[i - 1]
  BY DEF Ins
<1> HIDE DEF z
<1>5. \A y : In(y, z) <=> y = x \/ In(y, c)
  <2> TAKE y
  <2>1. ASSUME In(y, z) PROVE y = x \/ In(y, c)
    <3>1. PICK i \in 1..(n + 1) : z[i] = y
      BY <2>1, <1>3 DEF In
    <3>2. CASE i < k
      <4>1. i \in 1..n /\ c[i] = y
        BY <3>1, <3>2, <1>4
      <4> QED BY <4>1 DEF In
    <3>3. CASE i = k
      BY <3>1, <3>3, <1>4
    <3>4. CASE i > k
      <4>1. i - 1 \in 1..n /\ c[i - 1] = y
        BY <3>1, <3>4, <1>4
      <4> QED BY <4>1 DEF In
    <3> QED BY <3>1, <3>2, <3>3, <3>4
  <2>2. ASSUME y = x PROVE In(y, z)
    <3>1. k \in 1..(n + 1) /\ z[k] = x
      BY <1>4
    <3> QED BY <3>1, <2>2, <1>3 DEF In
  <2>3. ASSUME In(y, c) PROVE In(y, z)
    <3>1. PICK i \in 1..n : c[i] = y
      BY <2>3 DEF In
    <3>2. CASE i < k
      <4>1. i \in 1..(n + 1) /\ z[i] = y
        BY <3>1, <3>2, <1>4
      <4> QED BY <4>1, <1>3 DEF In
    <3>3. CASE i >= k
      <4>1. i + 1 \in 1..(n + 1) /\ z[i + 1] = y
        BY <3>1, <3>3, <1>4
      <4> QED BY <4>1, <1>3 DEF In
    <3> QED BY <3>1, <3>2, <3>3
  <2> QED BY <2>1, <2>2, <2>3
<1>6. Once(c) /\ ~In(x, c) => Once(z)
  <2> SUFFICES ASSUME Once(c), ~In(x, c) PROVE Once(z)
    OBVIOUS
  <2>1. \A l \in 1..n : c[l] # x
    BY DEF In
  <2>2. \A l, m \in 1..n : c[l] = c[m] => l = m
    BY DEF Once
  <2>3. \A i, j \in 1..(n + 1) : z[i] = z[j] => i = j
    BY <1>1, <1>4, <2>1, <2>2, OnceMore
  <2> QED BY <1>3, <2>3 DEF Once
<1> QED BY <1>3, <1>4, <1>5, <1>6 DEF z

(* Taking a node out of a list.                                            *)
LEMMA DelFacts ==
    ASSUME NEW S, NEW c \in Seq(S), NEW k \in 1..Len(c)
    PROVE  /\ Del(c, k) \in Seq(S) /\ Len(Del(c, k)) = Len(c) - 1
           /\ \A i \in 1..(Len(c) - 1) : Del(c, k)[i] = IF i < k THEN c[i] ELSE c[i + 1]
           /\ Once(c) => Once(Del(c, k)) /\ \A y : In(y, Del(c, k)) <=> In(y, c) /\ y # c[k]
<1> DEFINE z == Del(c, k)
           n == Len(c)
<1>1. n \in Nat /\ c \in [1..n -> S]
  OBVIOUS
<1>2. z \in [1..(n - 1) -> S]
  BY <1>1 DEF Del
<1>3. z \in Seq(S) /\ Len(z) = n - 1
  <2>1. n - 1 \in Nat
    BY <1>1
  <2> HIDE DEF z, n
  <2> QED BY <1>2, <2>1, SeqDef, LenProperties
<1>4. \A i \in 1..(n - 1) : z[i] = IF i < k THEN c[i] ELSE c[i + 1]
  BY DEF Del
<1> HIDE DEF z
<1>5. ASSUME Once(c) PROVE Once(z) /\ \A y : In(y, z) <=> In(y, c) /\ y # c[k]
  <2>1. \A l, m \in 1..n : c[l] = c[m] => l = m
    BY <1>5 DEF Once
  <2>2. ASSUME NEW i \in 1..(n - 1), NEW j \in 1..(n - 1), z[i] = z[j] PROVE i = j
    <3>1. i \in 1..n /\ i + 1 \in 1..n /\ j \in 1..n /\ j + 1 \in 1..n
      BY <1>1
    <3>2. (z[i] = IF i < k THEN c[i] ELSE c[i + 1]) /\ (z[j] = IF j < k THEN c[j] ELSE c[j + 1])
      BY <1>4
    <3>3. k \in Int /\ i \in Int /\ j \in Int
      OBVIOUS
    <3> HIDE DEF n
    <3>4. CASE i < k /\ j < k
      BY <2>1, <2>2, <3>1, <3>2, <3>4
    <3>5. CASE i < k /\ ~(j < k)
      <4>1. i = j + 1
        BY <2>1, <2>2, <3>1, <3>2, <3>5
      <4> QED BY <4>1, <3>3, <3>5
    <3>6. CASE ~(i < k) /\ j < k
      <4>1. i + 1 = j
        BY <2>1, <2>2, <3>1, <3>2, <3>6
      <4> QED BY <4>1, <3>3, <3>6
    <3>7. CASE ~(i < k) /\ ~(j < k)
      <4>1. i + 1 = j + 1
        BY <2>1, <2>2, <3>1, <3>2, <3>7
      <4> QED BY <4>1, <3>3
    <3> QED BY <3>4, <3>5, <3>6, <3>7
  <2>3. ASSUME NEW y, In(y, z) PROVE In(y, c) /\ y # c[k]
    <3>1. PICK i \in 1..(n - 1) : z[i] = y
      BY <2>3, <1>3 DEF In
    <3>2. i \in 1..n /\ i + 1 \in 1..n
      BY <1>1
    <3>3. CASE i < k
      <4>1. c[i] = y
        BY <3>1, <3>3, <1>4
      <4> QED BY <1>1, <4>1, <3>2, <3>3, <2>1 DEF In
    <3>4. CASE i >= k
      <4>1. c[i + 1] = y
        BY <3>1, <3>4, <1>1, <1>4
      <4> QED BY <1>1, <4>1, <3>2, <3>4, <2>1 DEF In
    <3> QED BY <1>1, <3>3, <3>4
  <2>4. ASSUME NEW y, In(y, c), y # c[k] PROVE In(y, z)
    <3>1. PICK i \in 1..n : c[i] = y
      BY <2>4 DEF In
    <3>2. CASE i < k
      <4>1. i \in 1..(n - 1) /\ z[i] = y
        BY <3>1, <3>2, <1>1, <1>4
      <4> QED BY <4>1, <1>3 DEF In
    <3>3. CASE i > k
      <4>1. i - 1 \in 1..(n - 1) /\ z[i - 1] = y
        BY <3>1, <3>3, <1>1, <1>4
      <4> QED BY <4>1, <1>3 DEF In
    <3>4. i # k
      BY <3>1, <2>4
    <3> QED BY <1>1, <3>1, <3>2, <3>3, <3>4
  <2>5. Once(z)
    BY <1>3, <2>2 DEF Once
  <2> QED BY <2>3, <2>4, <2>5
<1> QED BY <1>3, <1>4, <1>5 DEF z

(* A sequence of different nodes fits in the pool.                         *)
LEMMA OnceBound ==
    ASSUME NEW c \in Seq(Nodes), Once(c)
    PROVE  Len(c) <= NODES /\ \A x \in Nodes : ~In(x, c) => Len(c) < NODES
<1>1. ASSUME NEW e \in Seq(Nodes), Once(e) PROVE Len(e) <= NODES
  <2>1. Len(e) \in Nat /\ NODES \in Nat
    BY PoolAssumption
  <2>2. e \in Injection(1..Len(e), Nodes)
    <3>1. e \in [1..Len(e) -> Nodes]
      OBVIOUS
    <3>2. \A i, j \in 1..Len(e) : e[i] = e[j] => i = j
      BY <1>1 DEF Once
    <3> QED BY <3>1, <3>2 DEF Injection, IsInjective
  <2>3. IsFiniteSet(Nodes) /\ Cardinality(Nodes) = NODES
    <3>1. NODES \in Nat \ {0}
      BY PoolAssumption
    <3> DEFINE m == NODES - 1
    <3>2. m \in Int /\ 0 \in Int /\ ~(0 > m) /\ m - 0 + 1 = NODES
      BY <3>1
    <3> HIDE DEF m
    <3>3. IsFiniteSet(0..m) /\ Cardinality(0..m) = IF 0 > m THEN 0 ELSE m - 0 + 1
      BY <3>2, FS_Interval
    <3>4. IsFiniteSet(0..m) /\ Cardinality(0..m) = NODES
      BY <3>2, <3>3
    <3> QED BY <3>4 DEF Nodes, m
  <2>4. Cardinality(1..Len(e)) = Len(e)
    <3> DEFINE m == Len(e)
    <3> HIDE DEF m
    <3>1. 1 \in Int /\ m \in Int /\ m \in Nat
      BY <2>1 DEF m
    <3>2. Cardinality(1..m) = IF 1 > m THEN 0 ELSE m - 1 + 1
      BY <3>1, FS_Interval
    <3>3. Cardinality(1..m) = m
      BY <3>1, <3>2
    <3> QED BY <3>3 DEF m
  <2>5. Cardinality(1..Len(e)) <= Cardinality(Nodes)
    BY <2>2, <2>3, FS_Injection
  <2> QED BY <2>3, <2>4, <2>5
<1>2. ASSUME NEW x \in Nodes, ~In(x, c) PROVE Len(c) < NODES
  <2> DEFINE e == Ins(c, 1, x)
  <2>1. Len(c) \in Nat /\ 1 \in 1..(Len(c) + 1)
    OBVIOUS
  <2>2. e \in Seq(Nodes) /\ Len(e) = Len(c) + 1 /\ Once(e)
    BY <1>2, <2>1, InsFacts
  <2> HIDE DEF e
  <2>3. Len(c) + 1 <= NODES
    BY <1>1, <2>2
  <2> QED BY <2>1, <2>3, PoolAssumption
<1> QED BY <1>1, <1>2

(* The free list without its first slot.                                   *)
LEMMA RingTake ==
    ASSUME NEW s, NEW t, NEW F, RingOK(s, F), s.fl_rdp \in Pointers, s.fl_cnt \in 0..NODES,
           s.fl_cnt # 0, t.fl_mem = s.fl_mem, t.fl_rdp = List!Up(s.fl_rdp),
           t.fl_wrp = s.fl_wrp, t.fl_cnt = s.fl_cnt - 1
    PROVE  RingOK(t, Del(F, 1)) /\ 1 \in 1..Len(F) /\ F[1] = List!Slot(s) /\ F[1] \in Nodes
<1> DEFINE p == s.fl_rdp % NODES
           q == List!Up(s.fl_rdp) % NODES
           n == s.fl_cnt
           G == Del(F, 1)
<1>1. p \in Nodes /\ q = RingAt(p, 1)
  BY NextPointer
<1>2. F \in Seq(Nodes) /\ Len(F) = n /\ n \in 1..NODES /\ NODES \in Nat \ {0}
  BY PoolAssumption DEF RingOK
<1>3. G \in Seq(Nodes) /\ Len(G) = n - 1 /\ \A i \in 1..(n - 1) : G[i] = F[i + 1]
  <2>1. 1 \in 1..Len(F)
    BY <1>2
  <2>2. /\ G \in Seq(Nodes) /\ Len(G) = Len(F) - 1
        /\ \A i \in 1..(Len(F) - 1) : G[i] = IF i < 1 THEN F[i] ELSE F[i + 1]
    BY <1>2, <2>1, DelFacts
  <2> QED BY <1>2, <2>2
<1>4. \A i \in 1..n : F[i] = s.fl_mem[RingAt(p, i - 1)]
  BY <1>2 DEF RingOK
<1>5. s.fl_wrp % NODES = RingAt(p, n)
  BY DEF RingOK
<1> HIDE DEF p, q, n, G
<1>6. \A i \in 0..(n - 1) : RingAt(q, i) = RingAt(p, i + 1)
  BY <1>1, <1>2 DEF RingAt, Nodes
<1>7. \A i \in 1..(n - 1) : G[i] = s.fl_mem[RingAt(q, i - 1)]
  <2> TAKE i \in 1..(n - 1)
  <2>1. i + 1 \in 1..n /\ i - 1 \in 0..(n - 1) /\ i - 1 + 1 = i /\ i + 1 - 1 = i
    BY <1>2
  <2>2. G[i] = s.fl_mem[RingAt(p, i + 1 - 1)]
    BY <1>3, <1>4, <2>1
  <2>3. RingAt(q, i - 1) = RingAt(p, i - 1 + 1)
    BY <1>6, <2>1
  <2> QED BY <2>1, <2>2, <2>3
<1>8. RingAt(q, n - 1) = RingAt(p, n)
  <2>1. n - 1 \in 0..(n - 1) /\ n - 1 + 1 = n
    BY <1>2
  <2> QED BY <1>6, <2>1
<1>9. t.fl_rdp % NODES = q /\ t.fl_cnt = n - 1 /\ t.fl_wrp % NODES = RingAt(q, n - 1)
  BY <1>5, <1>8 DEF q, n
<1>10. RingOK(t, G)
  BY <1>3, <1>7, <1>9 DEF RingOK
<1>11. F[1] = List!Slot(s)
  <2>1. F[1] = s.fl_mem[RingAt(p, 1 - 1)]
    BY <1>2, <1>4
  <2>2. RingAt(p, 1 - 1) = p
    BY <1>1, <1>2 DEF RingAt, Nodes
  <2> QED BY <2>1, <2>2 DEF List!Slot, p
<1> QED BY <1>2, <1>10, <1>11 DEF G

(* Putting a node behind the last one.                                     *)
LEMMA AppendFacts ==
    ASSUME NEW S, NEW c \in Seq(S), NEW x \in S
    PROVE  /\ Len(c) \in Nat /\ Len(c) + 1 \in 1..(Len(c) + 1)
           /\ Ins(c, Len(c) + 1, x) \in Seq(S) /\ Len(Ins(c, Len(c) + 1, x)) = Len(c) + 1
           /\ \A i \in 1..Len(c) : Ins(c, Len(c) + 1, x)[i] = c[i]
           /\ Ins(c, Len(c) + 1, x)[Len(c) + 1] = x
<1> DEFINE k == Len(c) + 1
           z == Ins(c, k, x)
<1>1. Len(c) \in Nat /\ k \in 1..(Len(c) + 1)
  OBVIOUS
<1> HIDE DEF k
<1>2. /\ z \in Seq(S) /\ Len(z) = Len(c) + 1
      /\ \A i \in 1..(Len(c) + 1) : z[i] = IF i < k THEN c[i] ELSE IF i = k THEN x ELSE c[i - 1]
  BY <1>1, InsFacts
<1> HIDE DEF z
<1>3. (\A i \in 1..Len(c) : z[i] = c[i]) /\ z[k] = x
  BY <1>1, <1>2 DEF k
<1> QED BY <1>1, <1>2, <1>3 DEF z, k

(* The free list with a slot behind its last.                              *)
LEMMA RingGive ==
    ASSUME NEW s, NEW t, NEW F, NEW x \in Nodes, RingOK(s, F), s.fl_rdp \in Pointers,
           s.fl_wrp \in Pointers, s.fl_mem \in [Nodes -> Nodes], s.fl_cnt \in 0..(NODES - 1),
           t.fl_mem = [s.fl_mem EXCEPT ![s.fl_wrp % NODES] = x], t.fl_rdp = s.fl_rdp,
           t.fl_wrp = List!Up(s.fl_wrp), t.fl_cnt = s.fl_cnt + 1
    PROVE  RingOK(t, Ins(F, Len(F) + 1, x)) /\ Len(F) + 1 \in 1..(Len(F) + 1)
<1> DEFINE p == s.fl_rdp % NODES
           w == s.fl_wrp % NODES
           v == List!Up(s.fl_wrp) % NODES
           n == s.fl_cnt
           G == Ins(F, Len(F) + 1, x)
<1>1. p \in Nodes /\ w \in Nodes /\ v = RingAt(w, 1)
  BY NextPointer
<1>2. F \in Seq(Nodes) /\ Len(F) = n /\ n \in 0..(NODES - 1) /\ NODES \in Nat \ {0}
  BY PoolAssumption DEF RingOK
<1>3. /\ G \in Seq(Nodes) /\ Len(G) = n + 1 /\ G[n + 1] = x /\ Len(F) + 1 \in 1..(Len(F) + 1)
      /\ \A i \in 1..n : G[i] = F[i]
  <2>1. /\ Len(F) + 1 \in 1..(Len(F) + 1) /\ G \in Seq(Nodes) /\ Len(G) = Len(F) + 1
        /\ (\A i \in 1..Len(F) : G[i] = F[i]) /\ G[Len(F) + 1] = x
    <3>1. F \in Seq(Nodes)
      BY <1>2
    <3> QED BY <3>1, AppendFacts
  <2> HIDE DEF G
  <2> QED BY <1>2, <2>1
<1>4. \A i \in 1..n : F[i] = s.fl_mem[RingAt(p, i - 1)]
  BY <1>2 DEF RingOK
<1>5. w = RingAt(p, n)
  BY DEF RingOK
<1> HIDE DEF p, w, v, n, G
<1>6. v = RingAt(p, n + 1)
  BY <1>1, <1>2, <1>5 DEF RingAt, Nodes
<1>7. \A i \in 0..(n - 1) : RingAt(p, i) # w /\ RingAt(p, i) \in Nodes
  <2> TAKE i \in 0..(n - 1)
  <2>1. i \in Nat /\ i < n /\ n < NODES /\ p \in Nat /\ p < NODES /\ n \in Nat /\ NODES \in Nat
    BY <1>1, <1>2 DEF Nodes
  <2>2. CASE p + i < NODES
    <3>1. RingAt(p, i) = p + i
      BY <2>2 DEF RingAt
    <3>2. RingAt(p, n) = p + n \/ RingAt(p, n) = p + n - NODES
      BY DEF RingAt
    <3>3. p + i \in Nodes
      BY <2>1, <2>2 DEF Nodes
    <3>4. p + i # p + n /\ p + i # p + n - NODES
      BY <2>1
    <3> QED BY <1>5, <3>1, <3>2, <3>3, <3>4
  <2>3. CASE ~(p + i < NODES)
    <3>1. RingAt(p, i) = p + i - NODES
      BY <2>3 DEF RingAt
    <3>2. RingAt(p, n) = p + n - NODES
      BY <2>1, <2>3 DEF RingAt
    <3>3. p + i - NODES \in Nodes
      BY <2>1, <2>3 DEF Nodes
    <3>4. p + i - NODES # p + n - NODES
      BY <2>1
    <3> QED BY <1>5, <3>1, <3>2, <3>3, <3>4
  <2> QED BY <2>2, <2>3
<1>8. t.fl_mem[w] = x /\ \A i \in Nodes : i # w => t.fl_mem[i] = s.fl_mem[i]
  BY <1>1 DEF w
<1>9. \A i \in 1..(n + 1) : G[i] = t.fl_mem[RingAt(p, i - 1)]
  <2> TAKE i \in 1..(n + 1)
  <2>1. CASE i = n + 1
    <3>1. i - 1 = n
      BY <1>2, <2>1
    <3> QED BY <3>1, <2>1, <1>3, <1>5, <1>8
  <2>2. CASE i # n + 1
    <3>1. i \in 1..n /\ i - 1 \in 0..(n - 1)
      BY <1>2, <2>2
    <3>2. RingAt(p, i - 1) # w /\ RingAt(p, i - 1) \in Nodes
      BY <1>7, <3>1
    <3> QED BY <1>3, <1>4, <1>8, <3>1, <3>2
  <2> QED BY <2>1, <2>2
<1>10. t.fl_rdp % NODES = p /\ t.fl_cnt = n + 1 /\ t.fl_wrp % NODES = RingAt(p, n + 1)
  BY <1>6 DEF p, v, n
<1>11. RingOK(t, G)
  BY <1>3, <1>9, <1>10 DEF RingOK
<1> QED BY <1>3, <1>11 DEF G
-----------------------------------------------------------------------------
(* A slot leaves the free list for the user's hands, or for a list.        *)
LEMMA ShareTake ==
    ASSUME NEW d, NEW F \in Seq(Nodes), NEW H, NEW C, ShareOK(d, F, H, {}, C), 1 \in 1..Len(F)
    PROVE  /\ ShareOK(d, Del(F, 1), H \cup {F[1]}, {}, C)
           /\ ShareOK(d, Del(F, 1), H, {F[1]}, C)
<1> DEFINE G == Del(F, 1)
           x == F[1]
<1>1. Once(G) /\ \A y : In(y, G) <=> In(y, F) /\ y # x
  BY DelFacts DEF ShareOK
<1>2. x \in Nodes /\ In(x, F)
  BY DEF In
<1> HIDE DEF G, x
<1>3. ShareOK(d, G, H \cup {x}, {}, C) /\ ShareOK(d, G, H, {x}, C)
  BY <1>1, <1>2 DEF ShareOK
<1> QED BY <1>3 DEF G, x

(* The user gives one back.                                                *)
LEMMA ShareFree ==
    ASSUME NEW d, NEW F \in Seq(Nodes), NEW H, NEW C, NEW x \in H, ShareOK(d, F, H, {}, C)
    PROVE  /\ ShareOK(d, Ins(F, Len(F) + 1, x), H \ {x}, {}, C)
           /\ x \in Nodes /\ ~In(x, F)
<1> DEFINE G == Ins(F, Len(F) + 1, x)
<1>1. x \in Nodes /\ ~In(x, F)
  BY DEF ShareOK
<1>2. Len(F) + 1 \in 1..(Len(F) + 1)
  <2>1. Len(F) \in Nat
    OBVIOUS
  <2> QED BY <2>1
<1>3. Once(G) /\ \A y : In(y, G) <=> y = x \/ In(y, F)
  BY <1>1, <1>2, InsFacts DEF ShareOK
<1> HIDE DEF G
<1>4. ShareOK(d, G, H \ {x}, {}, C)
  BY <1>1, <1>3 DEF ShareOK
<1> QED BY <1>1, <1>4 DEF G

(* A slot on its way gets its place in a list.                             *)
LEMMA ShareLink ==
    ASSUME NEW d, NEW F, NEW H, NEW C \in [HeadsOf(d) -> Seq(Nodes)], NEW x \in Nodes,
           NEW h \in HeadsOf(d), NEW k \in 1..(Len(C[h]) + 1), ShareOK(d, F, H, {x}, C)
    PROVE  /\ ShareOK(d, F, H, {}, [C EXCEPT ![h] = Ins(C[h], k, x)])
           /\ \A g \in HeadsOf(d) : ~In(x, C[g])
<1> DEFINE D == [C EXCEPT ![h] = Ins(C[h], k, x)]
<1>1. \A g \in HeadsOf(d) : ~In(x, C[g])
  BY DEF ShareOK
<1>2. C[h] \in Seq(Nodes)
  OBVIOUS
<1>3. Once(Ins(C[h], k, x)) /\ \A y : In(y, Ins(C[h], k, x)) <=> y = x \/ In(y, C[h])
  BY <1>1, <1>2, InsFacts DEF ShareOK
<1>4. Once(D[h]) /\ (\A y : In(y, D[h]) <=> y = x \/ In(y, C[h]))
      /\ \A g \in HeadsOf(d) : g # h => D[g] = C[g]
  BY <1>3
<1> HIDE DEF D
<1>5. ShareOK(d, F, H, {}, D)
  BY <1>1, <1>4 DEF ShareOK
<1> QED BY <1>1, <1>5 DEF D

(* A node leaves its list for the free list.                               *)
LEMMA ShareUnlink ==
    ASSUME NEW d, NEW F \in Seq(Nodes), NEW H, NEW C \in [HeadsOf(d) -> Seq(Nodes)],
           NEW h \in HeadsOf(d), NEW k \in 1..Len(C[h]), ShareOK(d, F, H, {}, C)
    PROVE  /\ ShareOK(d, Ins(F, Len(F) + 1, C[h][k]), H, {}, [C EXCEPT ![h] = Del(C[h], k)])
           /\ C[h][k] \in Nodes /\ ~In(C[h][k], F)
<1> DEFINE D == [C EXCEPT ![h] = Del(C[h], k)]
           x == C[h][k]
           G == Ins(F, Len(F) + 1, x)
<1>1. C[h] \in Seq(Nodes)
  OBVIOUS
<1>2. x \in Nodes /\ In(x, C[h])
  BY <1>1 DEF In
<1>3. ~In(x, F)
  BY <1>2 DEF ShareOK
<1>4. Len(F) + 1 \in 1..(Len(F) + 1)
  <2>1. Len(F) \in Nat
    OBVIOUS
  <2> QED BY <2>1
<1>5. Once(G) /\ \A y : In(y, G) <=> y = x \/ In(y, F)
  <2> HIDE DEF x
  <2> QED BY <1>2, <1>3, <1>4, InsFacts DEF ShareOK
<1>6. Once(Del(C[h], k)) /\ \A y : In(y, Del(C[h], k)) <=> In(y, C[h]) /\ y # x
  BY <1>1, DelFacts DEF ShareOK
<1>7. Once(D[h]) /\ (\A y : In(y, D[h]) <=> In(y, C[h]) /\ y # x)
      /\ \A g \in HeadsOf(d) : g # h => D[g] = C[g]
  BY <1>6
<1> HIDE DEF D, G, x
<1>8. ShareOK(d, G, H, {}, D)
  BY <1>2, <1>3, <1>5, <1>7 DEF ShareOK
<1> QED BY <1>2, <1>3, <1>8 DEF D, G, x

(* A list that an edge leaves alone.                                       *)
LEMMA LinkedFrame ==
    ASSUME NEW d, NEW s, NEW t, NEW h, NEW c \in Seq(Nodes), Linked(d, s, h, c),
           t.head[h] = s.head[h], d.track_tail => t.tail[h] = s.tail[h],
           \A x : In(x, c) => t.next[x] = s.next[x] /\ (d.doubly => t.prev[x] = s.prev[x])
    PROVE  Linked(d, t, h, c)
<1>1. Len(c) \in Nat
  OBVIOUS
<1>2. ASSUME NEW i \in 1..Len(c)
      PROVE  t.next[c[i]] = s.next[c[i]] /\ (d.doubly => t.prev[c[i]] = s.prev[c[i]])
  BY DEF In
<1>3. \A i \in 1..(Len(c) - 1) : i \in 1..Len(c) /\ i + 1 \in 1..Len(c)
  BY <1>1
<1> QED BY <1>2, <1>3 DEF Linked

(* What a list with a node more has at each place.                         *)
LEMMA InsPlaces ==
    ASSUME NEW c \in Seq(Nodes), NEW x \in Nodes, NEW k \in 1..(Len(c) + 1), Once(c), ~In(x, c)
    PROVE  LET z == Ins(c, k, x)
               n == Len(c)
           IN  /\ n \in Nat /\ Len(z) = n + 1 /\ z[k] = x
               /\ \A i \in 1..n : c[i] \in Nodes /\ c[i] # x
               /\ \A i, j \in 1..n : c[i] = c[j] => i = j
               /\ \A i \in 1..(k - 1) : i \in 1..n /\ z[i] = c[i]
               /\ \A i \in (k + 1)..(n + 1) : i - 1 \in 1..n /\ z[i] = c[i - 1]
<1> DEFINE z == Ins(c, k, x)
           n == Len(c)
<1>1. n \in Nat /\ k \in 1..(n + 1) /\ \A i \in 1..n : c[i] \in Nodes
  OBVIOUS
<1>2. /\ Len(z) = n + 1
      /\ \A i \in 1..(n + 1) : z[i] = IF i < k THEN c[i] ELSE IF i = k THEN x ELSE c[i - 1]
  BY InsFacts, SMTT(30)
<1>3. (\A i \in 1..n : c[i] # x) /\ \A i, j \in 1..n : c[i] = c[j] => i = j
  BY DEF Once, In
<1> HIDE DEF z, n
<1>4. z[k] = x
  BY <1>1, <1>2
<1>5. \A i \in 1..(k - 1) : i \in 1..n /\ z[i] = c[i]
  BY <1>1, <1>2
<1>6. \A i \in (k + 1)..(n + 1) : i - 1 \in 1..n /\ z[i] = c[i - 1]
  BY <1>1, <1>2
<1> QED BY <1>1, <1>2, <1>3, <1>4, <1>5, <1>6 DEF z, n

(* The pointers after insert_head make up the longer list.                 *)
LEMMA LinkHead ==
    ASSUME NEW d, NEW s, NEW t, NEW h, NEW c \in Seq(Nodes), NEW x \in Nodes, Once(c), ~In(x, c),
           Linked(d, s, h, c), s.next \in [Nodes -> Nodes], s.prev \in [Nodes -> Nodes],
           t.next = [s.next EXCEPT ![x] = s.head[h]], t.head[h] = x,
           d.track_tail => t.tail[h] = IF Len(c) = 0 THEN x ELSE s.tail[h],
           d.doubly => t.prev = [s.prev EXCEPT ![s.head[h]] = x]
    PROVE  Linked(d, t, h, Ins(c, 1, x))
<1> DEFINE z == Ins(c, 1, x)
           n == Len(c)
<1>0. 1 \in 1..(n + 1)
  <2>1. n \in Nat
    OBVIOUS
  <2> QED BY <2>1
<1>1. /\ n \in Nat /\ Len(z) = n + 1 /\ z[1] = x
      /\ \A i \in 1..n : c[i] \in Nodes /\ c[i] # x
      /\ \A i, j \in 1..n : c[i] = c[j] => i = j
      /\ \A i \in (1 + 1)..(n + 1) : i - 1 \in 1..n /\ z[i] = c[i - 1]
  BY <1>0, InsPlaces
<1>2. /\ n > 0 => s.head[h] = c[1]
      /\ \A i \in 1..(n - 1) : s.next[c[i]] = c[i + 1]
      /\ d.track_tail /\ n > 0 => s.tail[h] = c[n]
      /\ d.doubly => \A i \in 1..(n - 1) : s.prev[c[i + 1]] = c[i]
  BY DEF Linked
<1>3. d.track_tail => t.tail[h] = IF n = 0 THEN x ELSE s.tail[h]
  OBVIOUS
<1> HIDE DEF z, n
<1>4. t.next[x] = s.head[h] /\ \A y \in Nodes : y # x => t.next[y] = s.next[y]
  OBVIOUS
<1>5. \A i \in 1..n : t.next[z[i]] = z[i + 1]
  <2> TAKE i \in 1..n
  <2>0. i + 1 \in (1 + 1)..(n + 1) /\ i + 1 - 1 = i
    BY <1>1
  <2>1. z[i + 1] = c[i]
    BY <1>1, <2>0
  <2>2. CASE i = 1
    BY <1>1, <1>2, <1>4, <2>1, <2>2
  <2>3. CASE i # 1
    <3>1. i \in (1 + 1)..(n + 1) /\ i - 1 \in 1..(n - 1) /\ i - 1 + 1 = i /\ i - 1 \in 1..n
      BY <1>1, <2>3
    <3>2. z[i] = c[i - 1] /\ s.next[c[i - 1]] = c[i]
      BY <1>1, <1>2, <3>1
    <3> QED BY <1>1, <1>4, <2>1, <3>1, <3>2
  <2> QED BY <2>2, <2>3
<1>6. d.track_tail => t.tail[h] = z[n + 1]
  <2>1. CASE n = 0
    BY <1>1, <1>3, <2>1
  <2>2. CASE n > 0
    <3>1. n + 1 \in (1 + 1)..(n + 1) /\ n + 1 - 1 = n
      BY <1>1, <2>2
    <3> QED BY <1>1, <1>2, <1>3, <2>2, <3>1
  <2> QED BY <1>1, <2>1, <2>2
<1>7. ASSUME d.doubly PROVE \A i \in 1..n : t.prev[z[i + 1]] = z[i]
  <2> TAKE i \in 1..n
  <2>0. i + 1 \in (1 + 1)..(n + 1) /\ i + 1 - 1 = i /\ 1 \in 1..n /\ n > 0
    BY <1>1
  <2>1. z[i + 1] = c[i] /\ s.head[h] = c[1]
    BY <1>1, <1>2, <2>0
  <2>2. CASE i = 1
    BY <1>1, <1>7, <2>0, <2>1, <2>2
  <2>3. CASE i # 1
    <3>1. i \in (1 + 1)..(n + 1) /\ i - 1 \in 1..(n - 1) /\ i - 1 + 1 = i /\ i - 1 \in 1..n
      BY <1>1, <2>3
    <3>2. z[i] = c[i - 1] /\ s.prev[c[i]] = c[i - 1]
      BY <1>1, <1>2, <1>7, <3>1
    <3>3. c[i] # c[1] /\ c[i] \in Nodes
      BY <1>1, <2>0, <2>3
    <3>4. t.prev[c[i]] = s.prev[c[i]]
      BY <1>7, <2>1, <3>3
    <3> QED BY <2>1, <3>2, <3>4
  <2> QED BY <2>2, <2>3
<1>8. n + 1 - 1 = n
  BY <1>1
<1>9. Linked(d, t, h, z)
  BY <1>1, <1>5, <1>6, <1>7, <1>8 DEF Linked
<1> QED BY <1>9 DEF z

(* The pointers after insert_tail.                                         *)
LEMMA LinkTail ==
    ASSUME NEW d, NEW s, NEW t, NEW h, NEW c \in Seq(Nodes), NEW x \in Nodes, Once(c), ~In(x, c),
           Linked(d, s, h, c), s.next \in [Nodes -> Nodes], s.prev \in [Nodes -> Nodes],
           d.track_tail, t.next = IF Len(c) = 0 THEN s.next ELSE [s.next EXCEPT ![s.tail[h]] = x],
           t.head[h] = IF Len(c) = 0 THEN x ELSE s.head[h], t.tail[h] = x,
           d.doubly => t.prev = [s.prev EXCEPT ![x] = s.tail[h]]
    PROVE  Linked(d, t, h, Ins(c, Len(c) + 1, x))
<1> DEFINE n == Len(c)
           k == n + 1
           z == Ins(c, k, x)
<1>0. n \in Nat /\ k \in 1..(n + 1)
  <2>1. n \in Nat
    OBVIOUS
  <2> QED BY <2>1
<1> HIDE DEF k
<1>1. /\ n \in Nat /\ Len(z) = n + 1 /\ z[k] = x
      /\ \A i \in 1..n : c[i] \in Nodes /\ c[i] # x
      /\ \A i, j \in 1..n : c[i] = c[j] => i = j
      /\ \A i \in 1..(k - 1) : i \in 1..n /\ z[i] = c[i]
  <2>1. LET y == Ins(c, k, x)
            l == Len(c)
        IN  /\ l \in Nat /\ Len(y) = l + 1 /\ y[k] = x
            /\ \A i \in 1..l : c[i] \in Nodes /\ c[i] # x
            /\ \A i, j \in 1..l : c[i] = c[j] => i = j
            /\ \A i \in 1..(k - 1) : i \in 1..l /\ y[i] = c[i]
            /\ \A i \in (k + 1)..(l + 1) : i - 1 \in 1..l /\ y[i] = c[i - 1]
    BY <1>0, InsPlaces
  <2> QED BY <2>1
<1>2. /\ n > 0 => s.head[h] = c[1]
      /\ \A i \in 1..(n - 1) : s.next[c[i]] = c[i + 1]
      /\ n > 0 => s.tail[h] = c[n]
      /\ d.doubly => \A i \in 1..(n - 1) : s.prev[c[i + 1]] = c[i]
  BY DEF Linked
<1>3. /\ n = 0 => t.next = s.next /\ t.head[h] = x
      /\ n # 0 => t.next = [s.next EXCEPT ![s.tail[h]] = x] /\ t.head[h] = s.head[h]
  OBVIOUS
<1> HIDE DEF z, n
<1>4. z[n + 1] = x /\ \A i \in 1..n : z[i] = c[i]
  BY <1>1 DEF k
<1>5. \A i \in 1..n : t.next[z[i]] = z[i + 1]
  <2> TAKE i \in 1..n
  <2>1. n # 0 /\ n > 0 /\ n \in 1..n
    BY <1>1
  <2>2. CASE i = n
    BY <1>1, <1>2, <1>3, <1>4, <2>1, <2>2
  <2>3. CASE i # n
    <3>1. i \in 1..(n - 1) /\ i + 1 \in 1..n
      BY <1>1, <2>3
    <3>2. c[i] # c[n] /\ c[i] \in Nodes
      BY <1>1, <2>1, <2>3
    <3>3. t.next[c[i]] = s.next[c[i]]
      BY <1>2, <1>3, <2>1, <3>2
    <3> QED BY <1>2, <1>4, <3>1, <3>3
  <2> QED BY <2>2, <2>3
<1>6. t.head[h] = z[1]
  <2>1. CASE n = 0
    BY <1>1, <1>3, <1>4, <2>1
  <2>2. CASE n # 0
    <3>1. 1 \in 1..n /\ n > 0
      BY <1>1, <2>2
    <3> QED BY <1>2, <1>3, <1>4, <2>2, <3>1
  <2> QED BY <2>1, <2>2
<1>7. ASSUME d.doubly PROVE \A i \in 1..n : t.prev[z[i + 1]] = z[i]
  <2> TAKE i \in 1..n
  <2>1. n # 0 /\ n > 0 /\ n \in 1..n
    BY <1>1
  <2>2. CASE i = n
    BY <1>1, <1>2, <1>4, <1>7, <2>1, <2>2
  <2>3. CASE i # n
    <3>1. i \in 1..(n - 1) /\ i + 1 \in 1..n
      BY <1>1, <2>3
    <3>2. c[i + 1] # x /\ c[i + 1] \in Nodes
      BY <1>1, <3>1
    <3>3. t.prev[c[i + 1]] = s.prev[c[i + 1]]
      BY <1>7, <3>2
    <3> QED BY <1>2, <1>4, <1>7, <3>1, <3>3
  <2> QED BY <2>2, <2>3
<1>8. n + 1 - 1 = n
  BY <1>1
<1>9. Linked(d, t, h, z)
  BY <1>1, <1>4, <1>5, <1>6, <1>7, <1>8 DEF Linked
<1> QED BY <1>9 DEF z, k, n

(* The pointers after insert_after, behind any node but a registered       *)
(* tail.                                                                   *)
LEMMA LinkAfter ==
    ASSUME NEW d, NEW s, NEW t, NEW h, NEW c \in Seq(Nodes), NEW x \in Nodes, Once(c), ~In(x, c),
           Linked(d, s, h, c), s.next \in [Nodes -> Nodes], s.prev \in [Nodes -> Nodes],
           NEW k \in 1..Len(c), d.track_tail => k < Len(c), d.doubly => d.track_tail,
           s.next[x] = s.next[c[k]], t.next = [s.next EXCEPT ![c[k]] = x],
           t.head[h] = s.head[h], t.tail[h] = s.tail[h],
           d.doubly => /\ s.next[x] # x => t.prev[x] = c[k]
                       /\ t.prev[s.next[x]] = x
                       /\ \A y \in Nodes : y # x /\ y # s.next[x] => t.prev[y] = s.prev[y]
    PROVE  Linked(d, t, h, Ins(c, k + 1, x)) /\ k + 1 \in 1..(Len(c) + 1)
<1> DEFINE n == Len(c)
           m == k + 1
           z == Ins(c, m, x)
<1>0. n \in Nat /\ m \in 1..(n + 1) /\ k \in 1..n
  <2>1. n \in Nat
    OBVIOUS
  <2> QED BY <2>1
<1> HIDE DEF m
<1>1. /\ n \in Nat /\ Len(z) = n + 1 /\ z[m] = x
      /\ \A i \in 1..n : c[i] \in Nodes /\ c[i] # x
      /\ \A i, j \in 1..n : c[i] = c[j] => i = j
      /\ \A i \in 1..(m - 1) : i \in 1..n /\ z[i] = c[i]
      /\ \A i \in (m + 1)..(n + 1) : i - 1 \in 1..n /\ z[i] = c[i - 1]
  <2>1. LET y == Ins(c, m, x)
            l == Len(c)
        IN  /\ l \in Nat /\ Len(y) = l + 1 /\ y[m] = x
            /\ \A i \in 1..l : c[i] \in Nodes /\ c[i] # x
            /\ \A i, j \in 1..l : c[i] = c[j] => i = j
            /\ \A i \in 1..(m - 1) : i \in 1..l /\ y[i] = c[i]
            /\ \A i \in (m + 1)..(l + 1) : i - 1 \in 1..l /\ y[i] = c[i - 1]
    BY <1>0, InsPlaces
  <2> QED BY <2>1
<1>2. /\ n > 0 => s.head[h] = c[1]
      /\ \A i \in 1..(n - 1) : s.next[c[i]] = c[i + 1]
      /\ d.track_tail /\ n > 0 => s.tail[h] = c[n]
      /\ d.doubly => \A i \in 1..(n - 1) : s.prev[c[i + 1]] = c[i]
      /\ d.track_tail => k < n
  BY DEF Linked
<1> HIDE DEF z, n
<1>3. z[k + 1] = x /\ (\A i \in 1..k : z[i] = c[i])
      /\ \A i \in (k + 1)..n : z[i + 1] = c[i]
  <2>1. \A i \in 1..k : z[i] = c[i]
    BY <1>0, <1>1 DEF m
  <2>2. ASSUME NEW i \in (k + 1)..n PROVE z[i + 1] = c[i]
    <3>1. i + 1 \in (m + 1)..(n + 1) /\ i + 1 - 1 = i
      BY <1>0 DEF m
    <3> QED BY <1>1, <3>1
  <2> QED BY <1>1, <2>1, <2>2 DEF m
<1>4. /\ t.next[c[k]] = x /\ \A y \in Nodes : y # c[k] => t.next[y] = s.next[y]
  BY <1>0, <1>1
<1>5. \A i \in 1..n : t.next[z[i]] = z[i + 1]
  <2> TAKE i \in 1..n
  <2>1. CASE i < k
    <3>1. i \in 1..k /\ i + 1 \in 1..k /\ i \in 1..(n - 1) /\ i # k
      BY <1>0, <2>1
    <3>2. c[i] # c[k] /\ c[i] \in Nodes
      BY <1>0, <1>1, <3>1
    <3>3. t.next[c[i]] = c[i + 1]
      BY <1>2, <1>4, <3>1, <3>2
    <3> QED BY <1>3, <3>1, <3>3
  <2>2. CASE i = k
    <3>1. k \in 1..k
      BY <1>0
    <3> QED BY <1>3, <1>4, <2>2, <3>1
  <2>3. CASE i = k + 1
    <3>1. k \in 1..(n - 1) /\ i \in (k + 1)..n
      BY <1>0, <2>3
    <3>2. z[i] = x /\ z[i + 1] = c[k + 1] /\ s.next[x] = c[k + 1]
      BY <1>2, <1>3, <2>3, <3>1
    <3>3. t.next[x] = s.next[x]
      BY <1>0, <1>1, <1>4
    <3> QED BY <3>2, <3>3
  <2>4. CASE i > k + 1
    <3>1. i - 1 \in (k + 1)..n /\ i - 1 + 1 = i /\ i \in (k + 1)..n /\ i - 1 \in 1..(n - 1) /\ i - 1 # k
          /\ i - 1 \in 1..n
      BY <1>0, <2>4
    <3>2. z[i] = c[i - 1] /\ z[i + 1] = c[i] /\ s.next[c[i - 1]] = c[i]
      BY <1>2, <1>3, <3>1
    <3>3. c[i - 1] # c[k] /\ c[i - 1] \in Nodes
      BY <1>0, <1>1, <3>1
    <3> QED BY <1>4, <3>2, <3>3
  <2> QED BY <1>0, <2>1, <2>2, <2>3, <2>4
<1>6. t.head[h] = z[1]
  <2>1. 1 \in 1..k /\ n > 0
    BY <1>0
  <2> QED BY <1>2, <1>3, <2>1
<1>7. d.track_tail => t.tail[h] = z[n + 1]
  <2> HAVE d.track_tail
  <2>1. n \in (k + 1)..n /\ n > 0
    BY <1>0, <1>2
  <2> QED BY <1>2, <1>3, <2>1
<1>8. ASSUME d.doubly PROVE \A i \in 1..n : t.prev[z[i + 1]] = z[i]
  <2>1. k < n /\ k \in 1..(n - 1) /\ k + 1 \in 1..n
    BY <1>0, <1>2, <1>8
  <2>2. s.next[x] = c[k + 1] /\ c[k + 1] \in Nodes /\ c[k + 1] # x
    BY <1>1, <1>2, <2>1
  <2>4. /\ t.prev[x] = c[k] /\ t.prev[c[k + 1]] = x
        /\ \A y \in Nodes : y # x /\ y # c[k + 1] => t.prev[y] = s.prev[y]
    BY <1>8, <2>2
  <2> TAKE i \in 1..n
  <2>5. CASE i < k
    <3>1. i \in 1..k /\ i + 1 \in 1..k /\ i \in 1..(n - 1) /\ i + 1 # k + 1 /\ i + 1 \in 1..n
      BY <1>0, <2>5
    <3>2. c[i + 1] # c[k + 1] /\ c[i + 1] \in Nodes /\ c[i + 1] # x
      BY <1>1, <2>1, <3>1
    <3>3. t.prev[c[i + 1]] = c[i]
      BY <1>2, <1>8, <2>4, <3>1, <3>2
    <3> QED BY <1>3, <3>1, <3>3
  <2>6. CASE i = k
    <3>1. k \in 1..k
      BY <1>0
    <3> QED BY <1>3, <2>4, <2>6, <3>1
  <2>7. CASE i = k + 1
    <3>1. i \in (k + 1)..n
      BY <1>0, <2>7
    <3> QED BY <1>3, <2>4, <2>7, <3>1
  <2>8. CASE i > k + 1
    <3>1. i - 1 \in (k + 1)..n /\ i - 1 + 1 = i /\ i \in (k + 1)..n /\ i - 1 \in 1..(n - 1) /\ i # k + 1
      BY <1>0, <2>8
    <3>2. z[i] = c[i - 1] /\ z[i + 1] = c[i] /\ s.prev[c[i]] = c[i - 1]
      <4>1. s.prev[c[i - 1 + 1]] = c[i - 1]
        BY <1>2, <1>8, <3>1
      <4>2. z[i - 1 + 1] = c[i - 1] /\ z[i + 1] = c[i]
        BY <1>3, <3>1
      <4> QED BY <3>1, <4>1, <4>2
    <3>3. c[i] # c[k + 1] /\ c[i] \in Nodes /\ c[i] # x
      BY <1>1, <2>1, <3>1
    <3> QED BY <2>4, <3>2, <3>3
  <2> QED BY <1>0, <2>5, <2>6, <2>7, <2>8
<1>9. n + 1 - 1 = n
  BY <1>1
<1>10. Linked(d, t, h, z)
  BY <1>1, <1>5, <1>6, <1>7, <1>8, <1>9 DEF Linked
<1> QED BY <1>0, <1>10 DEF z, m, n

(* The pointers after delete_head.                                         *)
LEMMA UnlinkHead ==
    ASSUME NEW d, NEW s, NEW t, NEW h, NEW c \in Seq(Nodes), Len(c) > 0, Linked(d, s, h, c),
           t.next = s.next, t.prev = s.prev, t.head[h] = s.next[c[1]],
           d.track_tail => t.tail[h] = s.tail[h]
    PROVE  Linked(d, t, h, Del(c, 1)) /\ 1 \in 1..Len(c)
<1> DEFINE n == Len(c)
           z == Del(c, 1)
<1>0. n \in Nat /\ n > 0 /\ 1 \in 1..n
  <2>1. n \in Nat
    OBVIOUS
  <2> QED BY <2>1
<1>1. Len(z) = n - 1 /\ \A i \in 1..(n - 1) : z[i] = IF i < 1 THEN c[i] ELSE c[i + 1]
  <2>1. /\ Del(c, 1) \in Seq(Nodes) /\ Len(Del(c, 1)) = Len(c) - 1
        /\ \A i \in 1..(Len(c) - 1) : Del(c, 1)[i] = IF i < 1 THEN c[i] ELSE c[i + 1]
    BY <1>0, DelFacts
  <2> QED BY <2>1
<1>2. /\ \A i \in 1..(n - 1) : s.next[c[i]] = c[i + 1]
      /\ d.track_tail /\ n > 0 => s.tail[h] = c[n]
      /\ d.doubly => \A i \in 1..(n - 1) : s.prev[c[i + 1]] = c[i]
  BY DEF Linked
<1> HIDE DEF z, n
<1>3. \A i \in 1..(n - 1) : z[i] = c[i + 1]
  BY <1>0, <1>1
<1>4. n - 1 > 0 => t.head[h] = z[1]
  <2> HAVE n - 1 > 0
  <2>1. 1 \in 1..(n - 1)
    BY <1>0
  <2> QED BY <1>2, <1>3, <2>1
<1>5. ASSUME NEW i \in 1..(n - 1 - 1)
      PROVE  t.next[z[i]] = z[i + 1] /\ (d.doubly => t.prev[z[i + 1]] = z[i])
  <2>1. i \in 1..(n - 1) /\ i + 1 \in 1..(n - 1)
    BY <1>0
  <2> QED BY <1>2, <1>3, <2>1
<1>6. d.track_tail /\ n - 1 > 0 => t.tail[h] = z[n - 1]
  <2> HAVE d.track_tail /\ n - 1 > 0
  <2>1. n - 1 \in 1..(n - 1) /\ n - 1 + 1 = n
    BY <1>0
  <2> QED BY <1>0, <1>2, <1>3, <2>1
<1>7. Linked(d, t, h, z)
  BY <1>1, <1>4, <1>5, <1>6 DEF Linked
<1> QED BY <1>0, <1>7 DEF z, n

(* The pointers after delete of the last node of a list without tail.      *)
LEMMA UnlinkLast ==
    ASSUME NEW d, NEW s, NEW t, NEW h, NEW c \in Seq(Nodes), Len(c) > 0, Linked(d, s, h, c),
           t.next = s.next, t.prev = s.prev, t.head[h] = s.head[h], ~d.track_tail
    PROVE  Linked(d, t, h, Del(c, Len(c))) /\ Len(c) \in 1..Len(c)
<1> DEFINE n == Len(c)
           k == n
           z == Del(c, k)
<1>0. n \in Nat /\ n > 0 /\ k \in 1..n
  <2>1. n \in Nat
    OBVIOUS
  <2> QED BY <2>1
<1> HIDE DEF k
<1>1. Len(z) = n - 1 /\ \A i \in 1..(n - 1) : z[i] = IF i < k THEN c[i] ELSE c[i + 1]
  BY <1>0, DelFacts
<1>2. /\ n > 0 => s.head[h] = c[1]
      /\ \A i \in 1..(n - 1) : s.next[c[i]] = c[i + 1]
      /\ d.doubly => \A i \in 1..(n - 1) : s.prev[c[i + 1]] = c[i]
  BY DEF Linked
<1> HIDE DEF z, n
<1>3. \A i \in 1..(n - 1) : z[i] = c[i]
  BY <1>0, <1>1 DEF k
<1>4. n - 1 > 0 => t.head[h] = z[1]
  <2> HAVE n - 1 > 0
  <2>1. 1 \in 1..(n - 1)
    BY <1>0
  <2> QED BY <1>0, <1>2, <1>3, <2>1
<1>5. ASSUME NEW i \in 1..(n - 1 - 1)
      PROVE  t.next[z[i]] = z[i + 1] /\ (d.doubly => t.prev[z[i + 1]] = z[i])
  <2>1. i \in 1..(n - 1) /\ i + 1 \in 1..(n - 1)
    BY <1>0
  <2> QED BY <1>2, <1>3, <2>1
<1>6. Linked(d, t, h, z)
  BY <1>1, <1>4, <1>5 DEF Linked
<1> QED BY <1>0, <1>6 DEF z, n, k

(* What the user may ask for.                                              *)
Legal(d, H, b, C, r) ==
    /\ r.op = "none" \/ (r.op \in List!Operations /\ Does(d, r.op))
    /\ b # "none" => r.op \in {"none", "write_data", "read_data"}
    /\ r.op \in Accesses => \E h \in HeadsOf(d) : \E k \in 1..Len(C[h]) :
                             /\ r.handle = C[h][k]
                             /\ r.op = "next" => k < Len(C[h])
                             /\ r.op = "prev" => k > 1
    /\ r.op \in List!Insertions \cup {"write_data"} => r.data \in d.DATA
    /\ r.op \in Structure => r.head \in HeadsOf(d)
    /\ r.op = "insert_after" => \E k \in 1..Len(C[r.head]) :
                                    r.handle = C[r.head][k] /\ (d.track_tail => k < Len(C[r.head]))
    /\ r.op = "delete" => /\ ~d.track_tail /\ Len(C[r.head]) > 0
                          /\ r.handle = C[r.head][Len(C[r.head])]
    /\ r.op = "free" => r.handle \in H

(* The operation that an accepted request puts under way, and what it      *)
(* takes from the free list and the user.                                  *)
Begun(s, r) ==
    IF \/ r.op \in List!Insertions /\ s.fl_cnt # 0
       \/ r.op = "delete_head" /\ ~List!IsEmpty(s, r.head)
       \/ r.op = "delete"
    THEN r.op ELSE "none"
FreeAfter(s, F, r) ==
    IF Takes(s, r) THEN Del(F, 1) ELSE IF r.op = "free" THEN Ins(F, Len(F) + 1, r.handle) ELSE F
HandsAfter(s, H, r) ==
    IF r.op = "free" THEN H \ {r.handle}
    ELSE IF r.op = "alloc" /\ s.fl_cnt # 0 THEN H \cup {List!Slot(s)} ELSE H

(* The facts of a list at rest.                                            *)
LEMMA AtRest ==
    ASSUME n_decl \in ListDecls, NEW s, NEW H, NEW F, NEW C, NEW r,
           Shape(n_decl, s, H, "none", F, C), Legal(n_decl, H, "none", C, r)
    PROVE  /\ Calm(s) /\ Fit(s, r) /\ Shaped(s)
           /\ \A h \in HeadsOf(n_decl) : List!IsEmpty(s, h) <=> Len(C[h]) = 0
           /\ r.op = "none" \/ Does(n_decl, r.op)
<1>1. Calm(s)
  BY DEF Shape, OnlyBusy, Calm, List!Operations
<1>2. s.fl_cnt \in 0..NODES /\ Len(F) = s.fl_cnt /\ F \in Seq(Nodes) /\ Once(F) /\ Shaped(s)
  BY DEF Shape, RegsOK, RingOK, ShareOK
<1>3. r.op = "free" => s.fl_cnt < NODES
  <2> HAVE r.op = "free"
  <2>1. r.handle \in Nodes /\ ~In(r.handle, F)
    BY DEF Legal, Shape, ShareOK
  <2> QED BY <1>2, <2>1, OnceBound
<1>4. ASSUME NEW h \in HeadsOf(n_decl) PROVE List!IsEmpty(s, h) <=> Len(C[h]) = 0
  <2>0. n_decl.heads \in Nat \ {0} /\ NODES \in Nat
    BY PoolAssumption
  <2>1. CASE n_decl.heads > 1
    BY <2>1 DEF Shape, CountOK, List!IsEmpty, List!multi_head
  <2>2. CASE n_decl.heads = 1
    <3>1. h = 0 /\ ~(n_decl.heads > 1)
      BY <2>2, <1>4 DEF HeadsOf
    <3>2. C[0] \in Seq(Nodes)
      BY <1>4, <3>1 DEF Shape
    <3>3. Len(C[0]) \in Nat
      BY <3>2
    <3>4. Len(C[0]) + s.fl_cnt + 0 = NODES
      BY <2>2 DEF Shape, CountOK, Owed, List!Insertions
    <3>5. List!IsEmpty(s, h) <=> s.fl_cnt = NODES
      BY <3>1 DEF List!IsEmpty, List!multi_head
    <3> QED BY <1>2, <2>0, <3>1, <3>3, <3>4, <3>5
  <2> QED BY <2>0, <2>1, <2>2
<1> QED BY <1>1, <1>2, <1>3, <1>4 DEF Fit, Legal

(* Which controllers are busy then.                                        *)
LEMMA LatchPhase ==
    ASSUME NEW s, NEW r
    PROVE  /\ Latch(s, r).phase = "busy" <=> Begun(s, r) # "none"
           /\ Begun(s, r) \in Structure \cup {"none"}
           /\ Begun(s, r) # "none" => Begun(s, r) = r.op
<1>0. /\ List!Idle.phase # "busy" /\ \A h, x, e, y : [phase |-> "busy", handle |-> x, head |-> h,
                                     was_empty |-> e, after |-> y].phase = "busy"
      /\ \A h, x : [phase |-> "busy", handle |-> x, head |-> h].phase = "busy"
  BY DEF List!Idle
<1>1. CASE r.op \in List!Insertions
  <2>1. r.op # "delete_head" /\ r.op # "delete" /\ r.op \in Structure /\ r.op # "none"
    BY <1>1 DEF List!Insertions, Structure
  <2>2. Latch(s, r) = IF s.fl_cnt = 0 THEN List!Idle
            ELSE [phase |-> "busy", handle |-> List!Slot(s), head |-> r.head,
                  was_empty |-> List!IsEmpty(s, r.head),
                  after |-> IF r.op = "insert_after" THEN r.handle ELSE 0]
    BY <1>1, <2>1 DEF Latch, List!Insertions, List!Reads
  <2>3. Latch(s, r).phase = "busy" <=> s.fl_cnt # 0
    BY <1>0, <2>2
  <2>4. Begun(s, r) = IF s.fl_cnt # 0 THEN r.op ELSE "none"
    BY <1>1, <2>1 DEF Begun
  <2> QED BY <2>1, <2>3, <2>4
<1>2. CASE r.op = "delete_head"
  <2>1. r.op \notin List!Insertions /\ r.op \in Structure
    BY <1>2 DEF List!Insertions, Structure
  <2>2. Latch(s, r) = IF List!IsEmpty(s, r.head) THEN List!Idle
            ELSE [phase |-> "busy", handle |-> s.head[r.head], head |-> r.head]
    BY <1>2, <2>1 DEF Latch, List!Reads
  <2>3. Latch(s, r).phase = "busy" <=> ~List!IsEmpty(s, r.head)
    BY <1>0, <2>2
  <2>4. Begun(s, r) = IF ~List!IsEmpty(s, r.head) THEN r.op ELSE "none"
    BY <1>2, <2>1 DEF Begun
  <2> QED BY <1>2, <2>1, <2>3, <2>4
<1>3. CASE r.op = "delete"
  <2>1. r.op \notin List!Insertions /\ r.op \in Structure
    BY <1>3 DEF List!Insertions, Structure
  <2>2. Latch(s, r) = [phase |-> "busy", handle |-> r.handle, head |-> r.head]
    BY <1>3, <2>1 DEF Latch, List!Reads
  <2>3. Latch(s, r).phase = "busy" /\ Begun(s, r) = r.op
    BY <1>0, <1>3, <2>2 DEF Begun
  <2> QED BY <1>3, <2>1, <2>3
<1>4. CASE r.op = "alloc"
  BY <1>4 DEF Latch, Begun, List!Idle, List!Insertions, List!Answers, Structure
<1>5. CASE r.op \in Accesses
  <2>1. Begun(s, r) = "none"
    BY <1>5 DEF Begun, List!Insertions, Accesses, List!Reads
  <2>2. \A v : List!Answers(v).phase # "busy"
    BY DEF List!Answers
  <2>3. Latch(s, r).phase # "busy"
    BY <1>5, <2>2, LatchOfWord DEF Accesses
  <2> QED BY <2>1, <2>3
<1>6. CASE r.op \notin List!Insertions \cup {"delete_head", "delete", "alloc"} \cup Accesses
  <2>1. Latch(s, r) = List!Idle
    BY <1>6 DEF Latch, Accesses
  <2>2. Begun(s, r) = "none"
    BY <1>6 DEF Begun
  <2> QED BY <2>1, <2>2 DEF List!Idle
<1> QED BY <1>1, <1>2, <1>3, <1>4, <1>5, <1>6

(* After the accepting edge the accepted operation, if any, is busy.       *)
LEMMA AcceptedBusy ==
    ASSUME NEW s, NEW r, r.op = "none" \/ r.op \in List!Operations
    PROVE  OnlyBusy(Accepted(s, r), Begun(s, r))
<1>1. \A op \in List!Operations :
          Accepted(s, r).ctl[op] = IF op = r.op THEN Latch(s, r) ELSE List!Idle
  BY DEF Accepted
<1>2. List!Idle.phase # "busy"
  BY DEF List!Idle
<1>3. "none" \notin List!Operations
  BY DEF List!Operations
<1> QED BY <1>1, <1>2, <1>3, LatchPhase DEF OnlyBusy

(* The accepting edge keeps the ranges of the registers.                   *)
LEMMA AcceptedRegs ==
    ASSUME n_decl \in ListDecls, NEW s, NEW H, NEW F, NEW C, NEW r,
           Shape(n_decl, s, H, "none", F, C), Legal(n_decl, H, "none", C, r)
    PROVE  RegsOK(n_decl, Accepted(s, r))
<1> DEFINE t == Accepted(s, r)
<1>1. /\ Shaped(s) /\ s.fl_mem \in [Nodes -> Nodes] /\ s.fl_rdp \in Pointers
      /\ s.fl_wrp \in Pointers /\ s.fl_cnt \in 0..NODES
      /\ s.data \in [Nodes -> n_decl.DATA \cup {NoData}]
      /\ s.next \in [Nodes -> Nodes] /\ s.prev \in [Nodes -> Nodes]
      /\ s.head \in [HeadsOf(n_decl) -> Nodes] /\ s.tail \in [HeadsOf(n_decl) -> Nodes]
      /\ s.length \in [HeadsOf(n_decl) -> 0..NODES]
  BY DEF Shape, RegsOK
<1>2. /\ List!Up(s.fl_rdp) \in Pointers /\ List!Up(s.fl_wrp) \in Pointers
      /\ s.fl_rdp % NODES \in Nodes /\ s.fl_wrp % NODES \in Nodes
  BY <1>1, NextPointer
<1>3. List!Slot(s) \in Nodes
  BY <1>1, <1>2 DEF List!Slot
<1>4. Fit(s, r) /\ NODES \in Nat
  BY AtRest, PoolAssumption
<1>5. H \subseteq Nodes /\ \A h \in HeadsOf(n_decl) : \A k \in 1..Len(C[h]) : C[h][k] \in Nodes
  <2>1. \A h \in HeadsOf(n_decl) : C[h] \in Seq(Nodes)
    BY DEF Shape
  <2>2. \A c \in Seq(Nodes) : \A k \in 1..Len(c) : c[k] \in Nodes
    OBVIOUS
  <2> QED BY <2>1, <2>2 DEF Shape
<1>6. r.op = "free" => r.handle \in Nodes
  BY <1>5 DEF Legal
<1>7. r.op = "write_data" => r.handle \in Nodes /\ r.data \in n_decl.DATA
  BY <1>5 DEF Legal, Accesses
<1>8. r.op \in List!Insertions => r.data \in n_decl.DATA
  BY DEF Legal
<1>9. r.op = "insert_after" => r.handle \in Nodes
  <2> HAVE r.op = "insert_after"
  <2>1. r.head \in HeadsOf(n_decl) /\ \E k \in 1..Len(C[r.head]) : r.handle = C[r.head][k]
    BY DEF Legal, Structure
  <2> QED BY <1>5, <2>1
<1>10. t.fl_mem \in [Nodes -> Nodes] /\ t.fl_rdp \in Pointers /\ t.fl_wrp \in Pointers
  BY <1>1, <1>2, <1>6 DEF Accepted
<1>11. t.fl_cnt \in 0..NODES
  BY <1>1, <1>4 DEF Accepted, Takes, Fit
<1>12. t.data \in [Nodes -> n_decl.DATA \cup {NoData}]
  <2>1. Takes(s, r) /\ r.op # "alloc" => r.op \in List!Insertions
    BY DEF Takes
  <2> QED BY <1>1, <1>3, <1>7, <1>8, <2>1 DEF Accepted
<1>13. t.next \in [Nodes -> Nodes]
  BY <1>1, <1>3, <1>9 DEF Accepted
<1>14. /\ t.prev \in [Nodes -> Nodes] /\ t.head \in [HeadsOf(n_decl) -> Nodes]
       /\ t.tail \in [HeadsOf(n_decl) -> Nodes] /\ t.length \in [HeadsOf(n_decl) -> 0..NODES]
  BY <1>1 DEF Accepted
<1>15. Shaped(t) /\ t.ctl = [op \in List!Operations |-> t.ctl[op]]
  <2>1. t.ctl = [op \in List!Operations |-> IF op = r.op THEN Latch(s, r) ELSE List!Idle]
    BY DEF Accepted
  <2> QED BY <2>1, AcceptedFacts
<1> HIDE DEF t
<1>16. RegsOK(n_decl, t)
  BY <1>10, <1>11, <1>12, <1>13, <1>14, <1>15 DEF RegsOK
<1> QED BY <1>16 DEF t

(* What a shape is made of, for a list at rest.                            *)
LEMMA ShapeAtRest ==
    ASSUME NEW s, NEW H, NEW F, NEW C
    PROVE  Shape(n_decl, s, H, "none", F, C) <=>
               /\ RegsOK(n_decl, s) /\ RingOK(s, F)
               /\ H \subseteq Nodes /\ (n_decl.heads = 1 => H = {})
               /\ C \in [HeadsOf(n_decl) -> Seq(Nodes)]
               /\ ShareOK(n_decl, F, H, {}, C)
               /\ \A h \in HeadsOf(n_decl) : Linked(n_decl, s, h, C[h])
               /\ n_decl.heads > 1 => \A h \in HeadsOf(n_decl) : s.length[h] = Len(C[h])
               /\ n_decl.heads = 1 => Len(C[0]) + s.fl_cnt + 0 = NODES
               /\ OnlyBusy(s, "none")
<1>1. Pending(s, "none") = {} /\ Owed("none") = 0
  BY DEF Pending, Owed, List!Insertions
<1> QED BY <1>1 DEF Shape, CountOK

(* An insertion takes its slot.                                            *)
LEMMA AcceptedInsertion ==
    ASSUME n_decl \in ListDecls, NEW s, NEW H, NEW F, NEW C, NEW r,
           Shape(n_decl, s, H, "none", F, C), Legal(n_decl, H, "none", C, r),
           r.op \in List!Insertions, s.fl_cnt # 0
    PROVE  Shape(n_decl, Accepted(s, r), HandsAfter(s, H, r), Begun(s, r), FreeAfter(s, F, r), C)
<1> DEFINE t == Accepted(s, r)
           b == r.op
           x == List!Slot(s)
           c == [phase |-> "busy", handle |-> x, head |-> r.head,
                 was_empty |-> List!IsEmpty(s, r.head),
                 after |-> IF r.op = "insert_after" THEN r.handle ELSE 0]
<1>1. /\ b \in Structure /\ b \in List!Operations /\ b # "none" /\ b # "free" /\ b # "alloc"
      /\ b # "delete_head" /\ b # "delete" /\ b # "write_data" /\ b \notin List!Reads
  BY DEF List!Insertions, Structure, List!Operations, List!Reads
<1>2. Begun(s, r) = b /\ HandsAfter(s, H, r) = H /\ FreeAfter(s, F, r) = Del(F, 1) /\ Takes(s, r)
  BY <1>1 DEF Begun, HandsAfter, FreeAfter, Takes
<1>3. /\ RegsOK(n_decl, s) /\ RingOK(s, F) /\ H \subseteq Nodes /\ (n_decl.heads = 1 => H = {})
      /\ C \in [HeadsOf(n_decl) -> Seq(Nodes)] /\ ShareOK(n_decl, F, H, {}, C)
      /\ \A h \in HeadsOf(n_decl) : Linked(n_decl, s, h, C[h])
      /\ n_decl.heads > 1 => \A h \in HeadsOf(n_decl) : s.length[h] = Len(C[h])
      /\ n_decl.heads = 1 => Len(C[0]) + s.fl_cnt + 0 = NODES
  BY ShapeAtRest
<1>4. /\ t.fl_mem = s.fl_mem /\ t.fl_rdp = List!Up(s.fl_rdp) /\ t.fl_wrp = s.fl_wrp
      /\ t.fl_cnt = s.fl_cnt - 1 /\ t.prev = s.prev /\ t.head = s.head /\ t.tail = s.tail
      /\ t.length = s.length
      /\ t.next = IF b = "insert_after" THEN [s.next EXCEPT ![x] = s.next[r.handle]] ELSE s.next
  BY <1>1, <1>2 DEF Accepted
<1>5. t.ctl[b] = c
  <2>1. t.ctl[b] = Latch(s, r)
    BY <1>1 DEF Accepted
  <2>2. Latch(s, r) = c
    BY <1>1 DEF Latch
  <2> QED BY <2>1, <2>2
<1>6. RegsOK(n_decl, t) /\ OnlyBusy(t, b)
  BY <1>1, <1>2, AcceptedRegs, AcceptedBusy
<1>7. RingOK(t, Del(F, 1)) /\ 1 \in 1..Len(F) /\ F[1] = x /\ x \in Nodes
  <2>1. s.fl_rdp \in Pointers /\ s.fl_cnt \in 0..NODES
    BY <1>3 DEF RegsOK
  <2> HIDE DEF t, x
  <2>2. RingOK(t, Del(F, 1)) /\ 1 \in 1..Len(F) /\ F[1] = List!Slot(s) /\ F[1] \in Nodes
    BY <1>3, <1>4, <2>1, RingTake
  <2> QED BY <2>2 DEF x
<1>8. F \in Seq(Nodes) /\ In(x, F)
  BY <1>3, <1>7 DEF RingOK, In
<1>9. ShareOK(n_decl, Del(F, 1), H, {x}, C)
  BY <1>3, <1>7, <1>8, ShareTake
<1>10. \A h \in HeadsOf(n_decl) : ~In(x, C[h])
  BY <1>3, <1>7, <1>8 DEF ShareOK
<1>11. c.handle = x /\ c.head = r.head /\ c.was_empty = List!IsEmpty(s, r.head)
       /\ (b = "insert_after" => c.after = r.handle)
  OBVIOUS
<1> HIDE DEF c, x
<1>12. s.next \in [Nodes -> Nodes]
  BY <1>3 DEF RegsOK
<1>13. \A y : y # x => t.next[y] = s.next[y]
  BY <1>4, <1>12
<1>14. \A h \in HeadsOf(n_decl) : Linked(n_decl, t, h, C[h])
  <2> TAKE h \in HeadsOf(n_decl)
  <2>1. C[h] \in Seq(Nodes) /\ Linked(n_decl, s, h, C[h])
    BY <1>3
  <2>2. \A y : In(y, C[h]) => t.next[y] = s.next[y] /\ (n_decl.doubly => t.prev[y] = s.prev[y])
    BY <1>4, <1>10, <1>13
  <2> HIDE DEF t
  <2> QED BY <1>4, <2>1, <2>2, LinkedFrame
<1>15. Pending(t, b) = {x} /\ Owed(b) = 1
  BY <1>5, <1>11 DEF Pending, Owed
<1>16. CountOK(n_decl, t, b, C)
  <2>1. n_decl.heads = 1 => Len(C[0]) + (s.fl_cnt - 1) + 1 = NODES
    <3> HAVE n_decl.heads = 1
    <3>1. C[0] \in Seq(Nodes)
      BY <1>3 DEF HeadsOf
    <3>2. Len(C[0]) \in Nat /\ s.fl_cnt \in Nat /\ NODES \in Nat
      BY <1>3, <3>1, PoolAssumption DEF RegsOK
    <3>3. Len(C[0]) + s.fl_cnt + 0 = NODES
      BY <1>3
    <3> QED BY <3>2, <3>3
  <2> HIDE DEF t, b
  <2> QED BY <1>3, <1>4, <1>15, <2>1 DEF CountOK
<1>17. r.head \in HeadsOf(n_decl) /\ Does(n_decl, b)
  BY <1>1 DEF Legal
<1>18. c.was_empty = (Len(C[r.head]) = 0)
  <2>1. List!IsEmpty(s, r.head) <=> Len(C[r.head]) = 0
    BY <1>17, AtRest
  <2>2. List!IsEmpty(s, r.head) \in BOOLEAN
    BY DEF List!IsEmpty
  <2> QED BY <1>11, <2>1, <2>2
<1>19. b = "insert_after" =>
           \E k \in 1..Len(C[r.head]) :
               /\ r.handle = C[r.head][k] /\ (n_decl.track_tail => k < Len(C[r.head]))
               /\ t.next[x] = t.next[r.handle]
  <2> HAVE b = "insert_after"
  <2>1. PICK k \in 1..Len(C[r.head]) :
            r.handle = C[r.head][k] /\ (n_decl.track_tail => k < Len(C[r.head]))
    BY DEF Legal
  <2>2. In(r.handle, C[r.head])
    BY <2>1 DEF In
  <2>3. r.handle # x
    BY <1>10, <1>17, <2>2
  <2>4. t.next[r.handle] = s.next[r.handle] /\ t.next[x] = s.next[r.handle]
    BY <1>4, <1>7, <1>12, <1>13, <2>3
  <2> QED BY <2>1, <2>4
<1>20. Kept(n_decl, t, b, C)
  <2> HIDE DEF t, b
  <2>1. b # "delete_head" /\ b # "delete"
    BY <1>1 DEF b
  <2> QED BY <1>5, <1>7, <1>11, <1>17, <1>18, <1>19, <2>1 DEF Kept
<1> HIDE DEF t, b
<1>21. Shape(n_decl, t, H, b, Del(F, 1), C)
  BY <1>1, <1>3, <1>6, <1>7, <1>9, <1>14, <1>15, <1>16, <1>17, <1>20 DEF Shape
<1> QED BY <1>2, <1>21 DEF t

(* alloc takes a slot for the user.                                        *)
LEMMA AcceptedAlloc ==
    ASSUME n_decl \in ListDecls, Supports(n_decl), NEW s, NEW H, NEW F, NEW C, NEW r,
           Shape(n_decl, s, H, "none", F, C), Legal(n_decl, H, "none", C, r),
           r.op = "alloc", s.fl_cnt # 0
    PROVE  Shape(n_decl, Accepted(s, r), HandsAfter(s, H, r), Begun(s, r), FreeAfter(s, F, r), C)
<1> DEFINE t == Accepted(s, r)
           x == List!Slot(s)
<1>1. /\ Begun(s, r) = "none" /\ HandsAfter(s, H, r) = H \cup {x}
      /\ FreeAfter(s, F, r) = Del(F, 1) /\ Takes(s, r)
  BY DEF Begun, HandsAfter, FreeAfter, Takes, List!Insertions
<1>2. n_decl.heads # 1
  <2>1. n_decl.heads > 1 /\ n_decl.heads \in Nat
    BY PoolAssumption DEF Legal, Supports
  <2> QED BY <2>1
<1>3. /\ RegsOK(n_decl, s) /\ RingOK(s, F) /\ H \subseteq Nodes
      /\ C \in [HeadsOf(n_decl) -> Seq(Nodes)] /\ ShareOK(n_decl, F, H, {}, C)
      /\ \A h \in HeadsOf(n_decl) : Linked(n_decl, s, h, C[h])
      /\ n_decl.heads > 1 => \A h \in HeadsOf(n_decl) : s.length[h] = Len(C[h])
  BY ShapeAtRest
<1>4. /\ t.fl_mem = s.fl_mem /\ t.fl_rdp = List!Up(s.fl_rdp) /\ t.fl_wrp = s.fl_wrp
      /\ t.fl_cnt = s.fl_cnt - 1 /\ t.prev = s.prev /\ t.head = s.head /\ t.tail = s.tail
      /\ t.length = s.length /\ t.next = s.next
  BY <1>1 DEF Accepted
<1>5. RegsOK(n_decl, t) /\ OnlyBusy(t, "none")
  <2>1. r.op \in List!Operations
    BY DEF List!Operations
  <2> QED BY <1>1, <2>1, AcceptedRegs, AcceptedBusy
<1>6. RingOK(t, Del(F, 1)) /\ 1 \in 1..Len(F) /\ F[1] = x /\ x \in Nodes
  <2>1. s.fl_rdp \in Pointers /\ s.fl_cnt \in 0..NODES
    BY <1>3 DEF RegsOK
  <2> HIDE DEF t, x
  <2>2. RingOK(t, Del(F, 1)) /\ 1 \in 1..Len(F) /\ F[1] = List!Slot(s) /\ F[1] \in Nodes
    BY <1>3, <1>4, <2>1, RingTake
  <2> QED BY <2>2 DEF x
<1>7. ShareOK(n_decl, Del(F, 1), H \cup {x}, {}, C)
  <2>1. F \in Seq(Nodes)
    BY <1>3 DEF RingOK
  <2> HIDE DEF x
  <2> QED BY <1>3, <1>6, <2>1, ShareTake
<1> HIDE DEF t, x
<1>8. \A h \in HeadsOf(n_decl) : Linked(n_decl, t, h, C[h])
  BY <1>3, <1>4 DEF Linked
<1>9. Shape(n_decl, t, H \cup {x}, "none", Del(F, 1), C)
  BY <1>2, <1>3, <1>4, <1>5, <1>6, <1>7, <1>8, ShapeAtRest
<1> QED BY <1>1, <1>9 DEF t

(* free takes one back.                                                    *)
LEMMA AcceptedFree ==
    ASSUME n_decl \in ListDecls, NEW s, NEW H, NEW F, NEW C, NEW r,
           Shape(n_decl, s, H, "none", F, C), Legal(n_decl, H, "none", C, r), r.op = "free"
    PROVE  Shape(n_decl, Accepted(s, r), HandsAfter(s, H, r), Begun(s, r), FreeAfter(s, F, r), C)
<1> DEFINE t == Accepted(s, r)
           x == r.handle
           G == Ins(F, Len(F) + 1, x)
<1>1. /\ Begun(s, r) = "none" /\ HandsAfter(s, H, r) = H \ {x}
      /\ FreeAfter(s, F, r) = G /\ ~Takes(s, r)
  BY DEF Begun, HandsAfter, FreeAfter, Takes, List!Insertions
<1>2. x \in H /\ n_decl.heads # 1
  BY ShapeAtRest DEF Legal
<1>3. /\ RegsOK(n_decl, s) /\ RingOK(s, F) /\ H \subseteq Nodes
      /\ C \in [HeadsOf(n_decl) -> Seq(Nodes)] /\ ShareOK(n_decl, F, H, {}, C)
      /\ \A h \in HeadsOf(n_decl) : Linked(n_decl, s, h, C[h])
      /\ n_decl.heads > 1 => \A h \in HeadsOf(n_decl) : s.length[h] = Len(C[h])
  BY ShapeAtRest
<1>4. /\ t.fl_mem = [s.fl_mem EXCEPT ![s.fl_wrp % NODES] = x] /\ t.fl_rdp = s.fl_rdp
      /\ t.fl_wrp = List!Up(s.fl_wrp) /\ t.fl_cnt = s.fl_cnt + 1
      /\ t.prev = s.prev /\ t.head = s.head /\ t.tail = s.tail
      /\ t.length = s.length /\ t.next = s.next
  BY <1>1 DEF Accepted
<1>5. RegsOK(n_decl, t) /\ OnlyBusy(t, "none")
  <2>1. r.op \in List!Operations
    BY DEF List!Operations
  <2> QED BY <1>1, <2>1, AcceptedRegs, AcceptedBusy
<1>6. RingOK(t, G)
  <2>1. /\ s.fl_rdp \in Pointers /\ s.fl_wrp \in Pointers /\ s.fl_mem \in [Nodes -> Nodes]
        /\ s.fl_cnt \in 0..NODES
    BY <1>3 DEF RegsOK
  <2>2. s.fl_cnt \in 0..(NODES - 1)
    <3>1. Fit(s, r)
      BY AtRest
    <3> QED BY <2>1, <3>1, PoolAssumption DEF Fit
  <2>3. x \in Nodes
    BY <1>2, <1>3
  <2> HIDE DEF t, x
  <2>4. RingOK(t, Ins(F, Len(F) + 1, x))
    BY <1>3, <1>4, <2>1, <2>2, <2>3, RingGive
  <2> QED BY <2>4
<1>7. ShareOK(n_decl, G, H \ {x}, {}, C)
  <2>1. F \in Seq(Nodes)
    BY <1>3 DEF RingOK
  <2> HIDE DEF x
  <2> QED BY <1>2, <1>3, <2>1, ShareFree
<1> HIDE DEF t, x, G
<1>8. \A h \in HeadsOf(n_decl) : Linked(n_decl, t, h, C[h])
  BY <1>3, <1>4 DEF Linked
<1>9. Shape(n_decl, t, H \ {x}, "none", G, C)
  BY <1>2, <1>3, <1>4, <1>5, <1>6, <1>7, <1>8, ShapeAtRest
<1> QED BY <1>1, <1>9 DEF t

(* Every other request leaves the free list and the links alone.           *)
LEMMA AcceptedOther ==
    ASSUME n_decl \in ListDecls, NEW s, NEW H, NEW F, NEW C, NEW r,
           Shape(n_decl, s, H, "none", F, C), Legal(n_decl, H, "none", C, r), r.op # "free",
           ~Takes(s, r)
    PROVE  Shape(n_decl, Accepted(s, r), HandsAfter(s, H, r), Begun(s, r), FreeAfter(s, F, r), C)
<1> DEFINE t == Accepted(s, r)
           b == Begun(s, r)
<1>1. HandsAfter(s, H, r) = H /\ FreeAfter(s, F, r) = F
  BY DEF HandsAfter, FreeAfter, Takes
<1>2. b \in {"none", "delete_head", "delete"} /\ (b # "none" => b = r.op)
  BY DEF Begun, Takes
<1>3. Pending(t, b) = {} /\ Owed(b) = 0 /\ (b = "none" \/ b \in Structure)
  BY <1>2 DEF Pending, Owed, List!Insertions, Structure
<1>4. /\ RegsOK(n_decl, s) /\ RingOK(s, F) /\ H \subseteq Nodes /\ (n_decl.heads = 1 => H = {})
      /\ C \in [HeadsOf(n_decl) -> Seq(Nodes)] /\ ShareOK(n_decl, F, H, {}, C)
      /\ \A h \in HeadsOf(n_decl) : Linked(n_decl, s, h, C[h])
      /\ n_decl.heads > 1 => \A h \in HeadsOf(n_decl) : s.length[h] = Len(C[h])
      /\ n_decl.heads = 1 => Len(C[0]) + s.fl_cnt + 0 = NODES
  BY ShapeAtRest
<1>5. /\ t.fl_mem = s.fl_mem /\ t.fl_rdp = s.fl_rdp /\ t.fl_wrp = s.fl_wrp
      /\ t.fl_cnt = s.fl_cnt /\ t.prev = s.prev /\ t.head = s.head /\ t.tail = s.tail
      /\ t.length = s.length /\ t.next = s.next
  BY DEF Accepted
<1>6. RegsOK(n_decl, t) /\ OnlyBusy(t, b)
  <2>1. r.op = "none" \/ r.op \in List!Operations
    BY DEF Legal
  <2> QED BY <2>1, AcceptedRegs, AcceptedBusy
<1>7. ASSUME b # "none" PROVE Kept(n_decl, t, b, C) /\ Does(n_decl, b)
  <2>1. r.op = b /\ r.op \in List!Operations /\ r.head \in HeadsOf(n_decl) /\ Does(n_decl, b)
    BY <1>2, <1>7 DEF Legal, Structure, List!Operations
  <2>2. b \notin List!Insertions /\ b # "insert_after"
    BY <1>2 DEF List!Insertions
  <2>3. t.ctl[b] = Latch(s, r)
    BY <2>1 DEF Accepted
  <2>4. C[r.head] \in Seq(Nodes) /\ Linked(n_decl, s, r.head, C[r.head])
    BY <1>4, <2>1
  <2>5. CASE b = "delete_head"
    <3>1. ~List!IsEmpty(s, r.head) /\ r.op = "delete_head"
      BY <2>1, <2>5 DEF Begun, List!Insertions
    <3>2. Latch(s, r) = [phase |-> "busy", handle |-> s.head[r.head], head |-> r.head]
      BY <2>1, <2>2, <3>1 DEF Latch, List!Reads
    <3>3. Len(C[r.head]) # 0 /\ Len(C[r.head]) \in Nat
      BY <2>1, <2>4, <3>1, AtRest
    <3>4. Len(C[r.head]) > 0 /\ 1 \in 1..Len(C[r.head])
      BY <3>3
    <3>5. s.head[r.head] = C[r.head][1] /\ C[r.head][1] \in Nodes
      BY <2>4, <3>4 DEF Linked
    <3>6. t.ctl[b].handle = s.head[r.head] /\ t.ctl[b].head = r.head
      BY <2>3, <3>2
    <3> HIDE DEF t, b
    <3> QED BY <2>1, <2>2, <2>5, <3>4, <3>5, <3>6 DEF Kept
  <2>6. CASE b = "delete"
    <3>1. Latch(s, r) = [phase |-> "busy", handle |-> r.handle, head |-> r.head]
      BY <2>1, <2>2, <2>6 DEF Latch, List!Reads
    <3>2. /\ ~n_decl.track_tail /\ Len(C[r.head]) > 0
          /\ r.handle = C[r.head][Len(C[r.head])]
      BY <2>1, <2>6 DEF Legal
    <3>3. r.handle \in Nodes
      BY <2>4, <3>2
    <3>4. t.ctl[b].handle = r.handle /\ t.ctl[b].head = r.head
      BY <2>3, <3>1
    <3> HIDE DEF t, b
    <3> QED BY <2>1, <2>2, <2>6, <3>2, <3>3, <3>4 DEF Kept
  <2> QED BY <1>2, <1>7, <2>5, <2>6
<1> HIDE DEF t, b
<1>8. \A h \in HeadsOf(n_decl) : Linked(n_decl, t, h, C[h])
  BY <1>4, <1>5 DEF Linked
<1>9. RingOK(t, F) /\ CountOK(n_decl, t, b, C)
  BY <1>3, <1>4, <1>5 DEF RingOK, CountOK
<1>10. Shape(n_decl, t, H, b, F, C)
  BY <1>3, <1>4, <1>6, <1>7, <1>8, <1>9 DEF Shape
<1> QED BY <1>1, <1>10 DEF t, b

(* An edge keeps the shape of a list at rest.                              *)
LEMMA AcceptedShape ==
    ASSUME n_decl \in ListDecls, Supports(n_decl), NEW s, NEW H, NEW F, NEW C, NEW r,
           Shape(n_decl, s, H, "none", F, C), Legal(n_decl, H, "none", C, r)
    PROVE  Shape(n_decl, Accepted(s, r), HandsAfter(s, H, r), Begun(s, r), FreeAfter(s, F, r), C)
<1>1. CASE r.op \in List!Insertions /\ s.fl_cnt # 0
  BY <1>1, AcceptedInsertion
<1>2. CASE r.op = "alloc" /\ s.fl_cnt # 0
  BY <1>2, AcceptedAlloc
<1>3. CASE r.op = "free"
  BY <1>3, AcceptedFree
<1>4. CASE r.op # "free" /\ ~Takes(s, r)
  BY <1>4, AcceptedOther
<1> QED BY <1>1, <1>2, <1>3, <1>4 DEF Takes

(* The lists and the free list once the operation under way is done.       *)
Grown(s, b, c) ==
    LET x == s.ctl[b].handle
    IN  CASE b = "insert_head"  -> Ins(c, 1, x)
          [] b = "insert_tail"  -> Ins(c, Len(c) + 1, x)
          [] b = "insert_after" -> Ins(c, List!Position(s.ctl[b].after, c) + 1, x)
          [] b = "delete_head"  -> Del(c, 1)
          [] b = "delete"       -> Del(c, Len(c))
ListsDone(s, b, C) ==
    IF b = "none" THEN C
    ELSE [C EXCEPT ![s.ctl[b].head] = Grown(s, b, C[s.ctl[b].head])]
FreeDone(s, F, b) == IF b \in Deletions THEN Ins(F, Len(F) + 1, s.ctl[b].handle) ELSE F
Done(s, b, r) == Finished(n_decl, s, b, WordsOf(s, r), Ended(s, b, r))

(* The facts of a list with an operation under way.                        *)
LEMMA Working ==
    ASSUME n_decl \in ListDecls, Supports(n_decl), NEW s, NEW H, NEW F, NEW C, NEW b,
           Shape(n_decl, s, H, b, F, C), b # "none"
    PROVE  LET h == s.ctl[b].head
               x == s.ctl[b].handle
               c == C[h]
           IN  /\ Ending(n_decl, s, b) /\ OnlyBusy(s, b) /\ Shaped(s) /\ b \in Structure
               /\ h \in HeadsOf(n_decl) /\ x \in Nodes /\ c \in Seq(Nodes) /\ Len(c) \in Nat
               /\ Once(c) /\ Linked(n_decl, s, h, c)
               /\ b \in List!Insertions => ShareOK(n_decl, F, H, {x}, C) /\ ~In(x, c)
               /\ b \in Deletions => ShareOK(n_decl, F, H, {}, C) /\ Len(c) > 0
<1> DEFINE h == s.ctl[b].head
           x == s.ctl[b].handle
           c == C[h]
<1>1. /\ RegsOK(n_decl, s) /\ RingOK(s, F) /\ C \in [HeadsOf(n_decl) -> Seq(Nodes)]
      /\ ShareOK(n_decl, F, H, Pending(s, b), C)
      /\ \A g \in HeadsOf(n_decl) : Linked(n_decl, s, g, C[g])
      /\ CountOK(n_decl, s, b, C) /\ b \in Structure /\ Does(n_decl, b)
      /\ Kept(n_decl, s, b, C) /\ OnlyBusy(s, b)
  BY DEF Shape
<1>2. /\ h \in HeadsOf(n_decl) /\ x \in Nodes
      /\ b \in List!Insertions => s.ctl[b].was_empty = (Len(c) = 0)
      /\ b = "insert_after" =>
            \E k \in 1..Len(c) : /\ s.ctl[b].after = c[k] /\ (n_decl.track_tail => k < Len(c))
                                 /\ s.next[x] = s.next[s.ctl[b].after]
      /\ b = "delete_head" => Len(c) > 0 /\ x = c[1]
      /\ b = "delete" => ~n_decl.track_tail /\ Len(c) > 0 /\ x = c[Len(c)]
  BY <1>1 DEF Kept
<1>3. c \in Seq(Nodes) /\ Once(c) /\ Linked(n_decl, s, h, c)
  BY <1>1, <1>2 DEF ShareOK
<1>4. Len(c) \in Nat /\ Len(c) <= NODES /\ NODES \in Nat
  BY <1>3, OnceBound, PoolAssumption
<1>5. b \in List!Insertions => /\ ShareOK(n_decl, F, H, {x}, C) /\ ~In(x, c) /\ Len(c) < NODES
  <2> HAVE b \in List!Insertions
  <2>1. ShareOK(n_decl, F, H, {x}, C)
    BY <1>1 DEF Pending
  <2> HIDE DEF x, c
  <2>2. ~In(x, c)
    BY <1>2, <2>1 DEF ShareOK, c
  <2>3. Len(c) < NODES
    BY <1>2, <1>3, <2>2, OnceBound
  <2> QED BY <2>1, <2>2, <2>3
<1>6. b \in Deletions => ShareOK(n_decl, F, H, {}, C) /\ Len(c) > 0 /\ In(x, c)
  <2> HAVE b \in Deletions
  <2>1. b \notin List!Insertions
    BY DEF Deletions, List!Insertions
  <2>2. Pending(s, b) = {}
    BY <2>1 DEF Pending
  <2>3. 1 \in 1..Len(c) \/ ~(Len(c) > 0)
    BY <1>4
  <2>4. Len(c) \in 1..Len(c) \/ ~(Len(c) > 0)
    BY <1>4
  <2>5. Len(c) > 0 /\ In(x, c)
    BY <1>2, <2>3, <2>4 DEF Deletions, In
  <2> QED BY <1>1, <2>2, <2>5
<1>7. b \in Deletions => s.fl_cnt \in 0..(NODES - 1)
  <2> HAVE b \in Deletions
  <2>1. F \in Seq(Nodes) /\ Len(F) = s.fl_cnt /\ Once(F)
    BY <1>1 DEF RingOK, ShareOK
  <2>2. ~In(x, F)
    BY <1>2, <1>6 DEF ShareOK
  <2>3. Len(F) < NODES /\ Len(F) \in Nat
    BY <1>2, <2>1, <2>2, OnceBound
  <2> QED BY <1>4, <2>1, <2>3
<1>8. b \in List!Insertions \/ b \in Deletions
  BY <1>1 DEF Structure, List!Insertions, Deletions
<1>9. n_decl.heads > 1 => s.length[h] \in IF b \in Deletions THEN 1..NODES ELSE 0..(NODES - 1)
  <2> HAVE n_decl.heads > 1
  <2>1. s.length[h] = Len(c)
    BY <1>1, <1>2 DEF CountOK
  <2>2. b \in Deletions => Len(c) \in 1..NODES
    BY <1>4, <1>6
  <2>3. b \notin Deletions => Len(c) \in 0..(NODES - 1)
    BY <1>4, <1>5, <1>8
  <2> QED BY <2>1, <2>2, <2>3
<1>10. b = "insert_after" => s.ctl[b].after # x
  <2> HAVE b = "insert_after"
  <2>1. b \in List!Insertions
    BY DEF List!Insertions
  <2>2. \E k \in 1..Len(c) : s.ctl[b].after = c[k]
    BY <1>2
  <2> QED BY <1>5, <2>1, <2>2 DEF In
<1>11. b \in List!Insertions => s.ctl[b].was_empty \in BOOLEAN
  BY <1>2
<1>12. /\ s.head = [g \in HeadsOf(n_decl) |-> s.head[g]]
       /\ s.tail = [g \in HeadsOf(n_decl) |-> s.tail[g]]
       /\ s.length = [g \in HeadsOf(n_decl) |-> s.length[g]] /\ Shaped(s)
  BY <1>1 DEF RegsOK
<1>13. List!Busy(b, s)
  <2>1. b \in List!Operations
    BY <1>1 DEF Structure, List!Operations
  <2> QED BY <1>1, <2>1 DEF OnlyBusy, List!Busy
<1>14. Ending(n_decl, s, b)
  BY <1>1, <1>2, <1>7, <1>9, <1>10, <1>11, <1>12, <1>13 DEF Ending
<1> QED BY <1>1, <1>2, <1>3, <1>4, <1>5, <1>6, <1>12, <1>14

(* The place of a node.                                                    *)
LEMMA PlaceOf ==
    ASSUME NEW c, Once(c), DOMAIN c = 1..Len(c), NEW k \in 1..Len(c)
    PROVE  List!Position(c[k], c) = k
<1>1. \E i \in DOMAIN c : c[i] = c[k]
  OBVIOUS
<1>2. List!Position(c[k], c) \in DOMAIN c /\ c[List!Position(c[k], c)] = c[k]
  BY <1>1 DEF List!Position
<1> QED BY <1>2 DEF Once

(* What the second edge leaves of the words and controllers.               *)
LEMMA DoneFields ==
    ASSUME NEW s, NEW b, NEW r
    PROVE  /\ Shaped(Done(s, b, r)) /\ Done(s, b, r).fl_rdp = s.fl_rdp
           /\ Done(s, b, r).data = WordsOf(s, r) /\ Done(s, b, r).ctl = Ended(s, b, r)
<1>1. Shaped(Done(s, b, r))
  BY LiteralIsShaped, SMTT(30) DEF Done, Finished
<1> QED BY <1>1 DEF Done, Finished

(* How it counts.                                                          *)
LEMMA DoneLength ==
    ASSUME NEW s, NEW b, NEW r
    PROVE  /\ n_decl.heads = 1 => Done(s, b, r).length = s.length
           /\ n_decl.heads # 1 /\ b \in Deletions =>
                 Done(s, b, r).length =
                    [s.length EXCEPT ![s.ctl[b].head] = s.length[s.ctl[b].head] - 1]
           /\ n_decl.heads # 1 /\ b \notin Deletions =>
                 Done(s, b, r).length =
                    [s.length EXCEPT ![s.ctl[b].head] = s.length[s.ctl[b].head] + 1]
BY DEF Done, Finished

(* After it no operation is under way.                                     *)
LEMMA EndedBusy ==
    ASSUME NEW s, NEW b, NEW r, b \in Structure, r.op \in {"none", "write_data", "read_data"}
    PROVE  OnlyBusy(Done(s, b, r), "none")
<1>1. \A op \in List!Operations : Done(s, b, r).ctl[op].phase # "busy"
  <2> TAKE op \in List!Operations
  <2>1. Done(s, b, r).ctl[op] = IF op = b THEN List!Answers(s.ctl[b].handle)
                                ELSE IF op = r.op THEN Latch(s, r) ELSE List!Idle
    <3>1. Done(s, b, r).ctl = Ended(s, b, r)
      BY DoneFields
    <3> QED BY <3>1 DEF Ended
  <2>2. Begun(s, r) = "none"
    BY DEF Begun, List!Insertions
  <2>3. Latch(s, r).phase # "busy"
    BY <2>2, LatchPhase
  <2> QED BY <2>1, <2>3 DEF List!Answers, List!Idle
<1>2. "none" \notin List!Operations
  BY DEF List!Operations
<1> QED BY <1>1, <1>2 DEF OnlyBusy

(* It keeps the ranges of the registers.                                   *)
LEMMA DoneRegs ==
    ASSUME n_decl \in ListDecls, Supports(n_decl), NEW s, NEW H, NEW F, NEW C, NEW b, NEW r,
           Shape(n_decl, s, H, b, F, C), b # "none", Legal(n_decl, H, b, C, r)
    PROVE  RegsOK(n_decl, Done(s, b, r))
<1> DEFINE t == Done(s, b, r)
           h == s.ctl[b].head
           x == s.ctl[b].handle
<1>1. /\ Shaped(s) /\ s.fl_mem \in [Nodes -> Nodes] /\ s.fl_rdp \in Pointers
      /\ s.fl_wrp \in Pointers /\ s.fl_cnt \in 0..NODES
      /\ s.data \in [Nodes -> n_decl.DATA \cup {NoData}]
      /\ s.next \in [Nodes -> Nodes] /\ s.prev \in [Nodes -> Nodes]
      /\ s.head \in [HeadsOf(n_decl) -> Nodes] /\ s.tail \in [HeadsOf(n_decl) -> Nodes]
      /\ s.length \in [HeadsOf(n_decl) -> 0..NODES]
  BY DEF Shape, RegsOK
<1>2. List!Up(s.fl_wrp) \in Pointers /\ s.fl_wrp % NODES \in Nodes
  BY <1>1, NextPointer
<1>3. /\ Ending(n_decl, s, b) /\ b \in Structure /\ h \in HeadsOf(n_decl) /\ x \in Nodes
      /\ C[h] \in Seq(Nodes)
  BY Working
<1>4. NODES \in Nat /\ n_decl.heads \in Nat \ {0}
  BY PoolAssumption
<1>5. r.op = "write_data" => r.handle \in Nodes /\ r.data \in n_decl.DATA
  <2> HAVE r.op = "write_data"
  <2>1. \E g \in HeadsOf(n_decl) : \E k \in 1..Len(C[g]) : r.handle = C[g][k]
    BY DEF Legal, Accesses
  <2>2. \A g \in HeadsOf(n_decl) : C[g] \in Seq(Nodes)
    BY DEF Shape
  <2>3. \A e \in Seq(Nodes) : \A k \in 1..Len(e) : e[k] \in Nodes
    OBVIOUS
  <2> QED BY <2>1, <2>2, <2>3 DEF Legal
<1>6. WordsOf(s, r) \in [Nodes -> n_decl.DATA \cup {NoData}]
  BY <1>1, <1>5 DEF WordsOf
<1>7. b = "insert_after" => s.ctl[b].after \in Nodes
  <2> HAVE b = "insert_after"
  <2>1. \E k \in 1..Len(C[h]) : s.ctl[b].after = C[h][k]
    BY DEF Shape, Kept
  <2>2. \A e \in Seq(Nodes) : \A k \in 1..Len(e) : e[k] \in Nodes
    OBVIOUS
  <2> QED BY <1>3, <2>1, <2>2
<1>8. t.fl_mem \in [Nodes -> Nodes] /\ t.fl_rdp \in Pointers /\ t.fl_wrp \in Pointers
  <2>0. Done(s, b, r).fl_rdp = s.fl_rdp
    BY DoneFields
  <2>1. CASE b \in Deletions
    <3>1. /\ Done(s, b, r).fl_mem = [s.fl_mem EXCEPT ![s.fl_wrp % NODES] = s.ctl[b].handle]
          /\ Done(s, b, r).fl_wrp = List!Up(s.fl_wrp)
      BY <2>1 DEF Done, Finished
    <3> QED BY <1>1, <1>2, <1>3, <2>0, <3>1
  <2>2. CASE b \notin Deletions
    <3>1. Done(s, b, r).fl_mem = s.fl_mem /\ Done(s, b, r).fl_wrp = s.fl_wrp
      BY <2>2 DEF Done, Finished
    <3> QED BY <1>1, <2>0, <3>1
  <2> QED BY <2>1, <2>2
<1>9. t.fl_cnt \in 0..NODES
  <2>1. b \in Deletions => s.fl_cnt \in 0..(NODES - 1)
    BY <1>3 DEF Ending
  <2>2. (b \in Deletions => t.fl_cnt = s.fl_cnt + 1) /\ (b \notin Deletions => t.fl_cnt = s.fl_cnt)
    <3>1. CASE b \in Deletions
      BY <3>1 DEF Done, Finished
    <3>2. CASE b \notin Deletions
      BY <3>2 DEF Done, Finished
    <3> QED BY <3>1, <3>2
  <2> QED BY <1>1, <1>4, <2>1, <2>2
<1>10. t.data \in [Nodes -> n_decl.DATA \cup {NoData}]
  BY <1>6, DoneFields
<1>11. t.length \in [HeadsOf(n_decl) -> 0..NODES]
  <2>1. CASE n_decl.heads = 1
    BY <1>1, <2>1, DoneLength
  <2>2. CASE n_decl.heads # 1
    <3> DEFINE v == IF b \in Deletions THEN s.length[h] - 1 ELSE s.length[h] + 1
    <3>1. t.length = [s.length EXCEPT ![h] = v]
      <4>1. CASE b \in Deletions
        BY <2>2, <4>1, DoneLength, ZenonT(60)
      <4>2. CASE b \notin Deletions
        <5>1. Done(s, b, r).length =
                  [s.length EXCEPT ![s.ctl[b].head] = s.length[s.ctl[b].head] + 1]
          BY <2>2, <4>2, DoneLength, ZenonT(60)
        <5> QED BY <4>2, <5>1
      <4> QED BY <4>1, <4>2
    <3>2. s.length[h] \in IF b \in Deletions THEN 1..NODES ELSE 0..(NODES - 1)
      BY <1>3, <1>4, <2>2 DEF Ending
    <3>3. v \in 0..NODES
      <4>1. CASE b \in Deletions
        <5>1. s.length[h] \in 1..NODES
          BY <3>2, <4>1
        <5> HIDE DEF h
        <5> QED BY <1>4, <4>1, <5>1
      <4>2. CASE b \notin Deletions
        <5>1. s.length[h] \in 0..(NODES - 1)
          BY <3>2, <4>2
        <5> HIDE DEF h
        <5> QED BY <1>4, <4>2, <5>1
      <4> QED BY <4>1, <4>2
    <3> HIDE DEF v
    <3> QED BY <1>1, <1>3, <3>1, <3>3
  <2> QED BY <2>1, <2>2
<1>12. s.tail[h] \in Nodes /\ s.head[h] \in Nodes /\ s.next[x] \in Nodes
  BY <1>1, <1>3
<1>13. t.next \in [Nodes -> Nodes]
  <2>1. t.next = IF b = "insert_head" THEN [s.next EXCEPT ![x] = s.head[h]]
              ELSE IF b = "insert_tail" /\ ~s.ctl[b].was_empty THEN [s.next EXCEPT ![s.tail[h]] = x]
              ELSE IF b = "insert_after" THEN [s.next EXCEPT ![s.ctl[b].after] = x]
              ELSE s.next
    BY DEF Done, Finished
  <2> HIDE DEF t, x, h
  <2> QED BY <1>1, <1>3, <1>7, <1>12, <2>1
<1>14. t.prev \in [Nodes -> Nodes]
  <2>1. t.prev = IF ~n_decl.doubly THEN s.prev
              ELSE IF b = "insert_head" THEN [s.prev EXCEPT ![s.head[h]] = x]
              ELSE IF b = "insert_tail" THEN [s.prev EXCEPT ![x] = s.tail[h]]
              ELSE IF b = "insert_after" THEN [s.prev EXCEPT ![x] = s.ctl[b].after, ![s.next[x]] = x]
              ELSE s.prev
    BY DEF Done, Finished
  <2> HIDE DEF t, x, h
  <2> QED BY <1>1, <1>3, <1>7, <1>12, <2>1
<1>15. t.head \in [HeadsOf(n_decl) -> Nodes]
  <2>1. t.head = IF b = "insert_head" \/ (b = "insert_tail" /\ s.ctl[b].was_empty)
              THEN [s.head EXCEPT ![h] = x]
              ELSE IF b = "delete_head" THEN [s.head EXCEPT ![h] = s.next[x]]
              ELSE s.head
    BY DEF Done, Finished
  <2> HIDE DEF t, x, h
  <2> QED BY <1>1, <1>3, <1>12, <2>1
<1>16. t.tail \in [HeadsOf(n_decl) -> Nodes]
  <2>1. t.tail = s.tail \/ t.tail = [s.tail EXCEPT ![h] = x]
    BY DEF Done, Finished
  <2> HIDE DEF t, x, h
  <2> QED BY <1>1, <1>3, <2>1
<1>17. t.ctl = [op \in List!Operations |-> t.ctl[op]] /\ Shaped(t)
  <2>1. Done(s, b, r).ctl = Ended(s, b, r) /\ Shaped(Done(s, b, r))
    BY DoneFields
  <2> QED BY <2>1 DEF Ended
<1> HIDE DEF t
<1>18. RegsOK(n_decl, t)
  BY <1>8, <1>9, <1>10, <1>11, <1>13, <1>14, <1>15, <1>16, <1>17 DEF RegsOK
<1> QED BY <1>18 DEF t

(* What the words leave alone.                                             *)
LEMMA WordsOnly ==
    ASSUME NEW d, NEW H, NEW b, NEW C, NEW r, Legal(d, H, b, C, r), b # "none"
    PROVE  r.op \in {"none", "write_data", "read_data"}
BY DEF Legal

(* An insertion ends.                                                      *)
LEMMA Inserted ==
    ASSUME n_decl \in ListDecls, Supports(n_decl), NEW s, NEW H, NEW F, NEW C, NEW b, NEW r,
           Shape(n_decl, s, H, b, F, C), Legal(n_decl, H, b, C, r), b \in List!Insertions,
           NEW h, h = s.ctl[b].head, NEW x, x = s.ctl[b].handle,
           NEW k \in 1..(Len(C[h]) + 1), Grown(s, b, C[h]) = Ins(C[h], k, x),
           Linked(n_decl, Done(s, b, r), h, Ins(C[h], k, x)),
           \A g \in HeadsOf(n_decl) : g # h => Linked(n_decl, Done(s, b, r), g, C[g])
    PROVE  Shape(n_decl, Done(s, b, r), H, "none", FreeDone(s, F, b), ListsDone(s, b, C))
<1> DEFINE t == Done(s, b, r)
           D == [C EXCEPT ![h] = Ins(C[h], k, x)]
<1>1. b # "none" /\ b \notin Deletions
  BY DEF List!Insertions, Deletions
<1>2. ListsDone(s, b, C) = D /\ FreeDone(s, F, b) = F
  BY <1>1 DEF ListsDone, FreeDone
<1>3. /\ b \in Structure /\ h \in HeadsOf(n_decl) /\ x \in Nodes /\ C[h] \in Seq(Nodes)
      /\ ShareOK(n_decl, F, H, {x}, C)
  BY <1>1, Working
<1>4. /\ RegsOK(n_decl, s) /\ RingOK(s, F) /\ H \subseteq Nodes
      /\ n_decl.heads = 1 => H = {}
      /\ C \in [HeadsOf(n_decl) -> Seq(Nodes)] /\ CountOK(n_decl, s, b, C)
  BY DEF Shape
<1>5. RegsOK(n_decl, t)
  BY <1>1, DoneRegs
<1>6. /\ t.fl_mem = s.fl_mem /\ t.fl_rdp = s.fl_rdp /\ t.fl_wrp = s.fl_wrp /\ t.fl_cnt = s.fl_cnt
  <2>1. Done(s, b, r).fl_rdp = s.fl_rdp
    BY DoneFields
  <2> QED BY <1>1, <2>1 DEF Done, Finished
<1>7. OnlyBusy(t, "none")
  BY <1>1, <1>3, WordsOnly, EndedBusy
<1>8. n_decl.heads = 1 => t.length = s.length
  BY DoneLength
<1>9. n_decl.heads # 1 => t.length = [s.length EXCEPT ![h] = s.length[h] + 1]
  <2> HAVE n_decl.heads # 1
  <2>1. Done(s, b, r).length = [s.length EXCEPT ![s.ctl[b].head] = s.length[s.ctl[b].head] + 1]
    BY <1>1, DoneLength, ZenonT(60)
  <2> QED BY <2>1
<1>10. Linked(n_decl, t, h, Ins(C[h], k, x)) /\ \A g \in HeadsOf(n_decl) : g # h => Linked(n_decl, t, g, C[g])
  OBVIOUS
<1> HIDE DEF t
<1>11. RingOK(t, F)
  BY <1>4, <1>6 DEF RingOK
<1>12. ShareOK(n_decl, F, H, {}, D)
  BY <1>3, <1>4, ShareLink
<1>13. Ins(C[h], k, x) \in Seq(Nodes) /\ Len(Ins(C[h], k, x)) = Len(C[h]) + 1 /\ Len(C[h]) \in Nat
  BY <1>3, InsFacts, SMTT(30)
<1>14. /\ D \in [HeadsOf(n_decl) -> Seq(Nodes)] /\ D[h] = Ins(C[h], k, x)
       /\ \A g \in HeadsOf(n_decl) : g # h => D[g] = C[g]
  BY <1>3, <1>4, <1>13
<1> HIDE DEF D
<1>15. \A g \in HeadsOf(n_decl) : Linked(n_decl, t, g, D[g])
  BY <1>10, <1>14
<1>16. n_decl.heads > 1 => \A g \in HeadsOf(n_decl) : t.length[g] = Len(D[g])
  <2> HAVE n_decl.heads > 1
  <2> TAKE g \in HeadsOf(n_decl)
  <2>1. n_decl.heads # 1 /\ s.length \in [HeadsOf(n_decl) -> 0..NODES]
    BY <1>4, PoolAssumption, SMTT(30) DEF RegsOK
  <2>2. s.length[g] = Len(C[g]) /\ s.length[h] = Len(C[h])
    BY <1>3, <1>4 DEF CountOK
  <2>3. CASE g = h
    <3>1. t.length = [s.length EXCEPT ![h] = s.length[h] + 1]
      BY <1>9, <2>1
    <3>2. t.length[h] = s.length[h] + 1
      BY <1>3, <2>1, <3>1
    <3>3. Len(D[h]) = Len(C[h]) + 1
      BY <1>13, <1>14
    <3> QED BY <2>2, <2>3, <3>2, <3>3
  <2>4. CASE g # h
    <3>1. t.length[g] = s.length[g]
      BY <1>3, <1>9, <2>1, <2>4
    <3> QED BY <1>14, <2>2, <2>4, <3>1
  <2> QED BY <2>3, <2>4
<1>17. n_decl.heads = 1 => Len(D[0]) + t.fl_cnt + 0 = NODES
  <2> HAVE n_decl.heads = 1
  <2>1. h = 0
    BY <1>3 DEF HeadsOf
  <2>2. Len(C[0]) + s.fl_cnt + 1 = NODES
    BY <1>4 DEF CountOK, Owed
  <2>3. s.fl_cnt \in 0..NODES
    BY <1>4 DEF RegsOK
  <2>4. Len(D[0]) = Len(C[0]) + 1 /\ Len(C[0]) \in Nat
    BY <1>13, <1>14, <2>1
  <2> QED BY <1>6, <2>2, <2>3, <2>4, PoolAssumption
<1>18. Shape(n_decl, t, H, "none", F, D)
  BY <1>4, <1>5, <1>7, <1>11, <1>12, <1>14, <1>15, <1>16, <1>17, ShapeAtRest
<1> QED BY <1>2, <1>18 DEF t

(* A deletion ends.                                                        *)
LEMMA Deleted ==
    ASSUME n_decl \in ListDecls, Supports(n_decl), NEW s, NEW H, NEW F, NEW C, NEW b, NEW r,
           Shape(n_decl, s, H, b, F, C), Legal(n_decl, H, b, C, r), b \in Deletions,
           NEW h, h = s.ctl[b].head, NEW x, x = s.ctl[b].handle,
           NEW k \in 1..Len(C[h]), Grown(s, b, C[h]) = Del(C[h], k), x = C[h][k],
           Linked(n_decl, Done(s, b, r), h, Del(C[h], k)),
           \A g \in HeadsOf(n_decl) : g # h => Linked(n_decl, Done(s, b, r), g, C[g])
    PROVE  Shape(n_decl, Done(s, b, r), H, "none", FreeDone(s, F, b), ListsDone(s, b, C))
<1> DEFINE t == Done(s, b, r)
           D == [C EXCEPT ![h] = Del(C[h], k)]
           G == Ins(F, Len(F) + 1, x)
<1>1. b # "none" /\ b \notin List!Insertions
  BY DEF List!Insertions, Deletions
<1>2. ListsDone(s, b, C) = D /\ FreeDone(s, F, b) = G
  BY <1>1 DEF ListsDone, FreeDone
<1>3. /\ b \in Structure /\ h \in HeadsOf(n_decl) /\ x \in Nodes /\ C[h] \in Seq(Nodes)
      /\ ShareOK(n_decl, F, H, {}, C) /\ Ending(n_decl, s, b)
  BY <1>1, Working
<1>4. /\ RegsOK(n_decl, s) /\ RingOK(s, F) /\ H \subseteq Nodes
      /\ n_decl.heads = 1 => H = {}
      /\ C \in [HeadsOf(n_decl) -> Seq(Nodes)] /\ CountOK(n_decl, s, b, C)
  BY DEF Shape
<1>5. RegsOK(n_decl, t)
  BY <1>1, DoneRegs
<1>6. /\ t.fl_mem = [s.fl_mem EXCEPT ![s.fl_wrp % NODES] = x] /\ t.fl_rdp = s.fl_rdp
      /\ t.fl_wrp = List!Up(s.fl_wrp) /\ t.fl_cnt = s.fl_cnt + 1
  <2>1. Done(s, b, r).fl_rdp = s.fl_rdp
    BY DoneFields
  <2> QED BY <1>1, <2>1 DEF Done, Finished
<1>7. OnlyBusy(t, "none")
  BY <1>1, <1>3, WordsOnly, EndedBusy
<1>9. n_decl.heads # 1 => t.length = [s.length EXCEPT ![h] = s.length[h] - 1]
  <2> HAVE n_decl.heads # 1
  <2>1. Done(s, b, r).length = [s.length EXCEPT ![s.ctl[b].head] = s.length[s.ctl[b].head] - 1]
    BY DEF Done, Finished
  <2> QED BY <2>1
<1>10. Linked(n_decl, t, h, Del(C[h], k)) /\ \A g \in HeadsOf(n_decl) : g # h => Linked(n_decl, t, g, C[g])
  OBVIOUS
<1> HIDE DEF t
<1>11. RingOK(t, G) /\ F \in Seq(Nodes)
  <2>1. /\ s.fl_rdp \in Pointers /\ s.fl_wrp \in Pointers /\ s.fl_mem \in [Nodes -> Nodes]
        /\ s.fl_cnt \in 0..(NODES - 1)
    BY <1>3, <1>4 DEF RegsOK, Ending
  <2>2. RingOK(t, G)
    BY <1>3, <1>4, <1>6, <2>1, RingGive
  <2> QED BY <1>4, <2>2 DEF RingOK
<1>12. ShareOK(n_decl, G, H, {}, D)
  <2>1. ShareOK(n_decl, Ins(F, Len(F) + 1, C[h][k]), H, {}, [C EXCEPT ![h] = Del(C[h], k)])
    BY <1>3, <1>4, <1>11, ShareUnlink
  <2> QED BY <2>1
<1>13. Del(C[h], k) \in Seq(Nodes) /\ Len(Del(C[h], k)) = Len(C[h]) - 1 /\ Len(C[h]) \in Nat
  BY <1>3, DelFacts
<1>14. /\ D \in [HeadsOf(n_decl) -> Seq(Nodes)] /\ D[h] = Del(C[h], k)
       /\ \A g \in HeadsOf(n_decl) : g # h => D[g] = C[g]
  BY <1>3, <1>4, <1>13
<1> HIDE DEF D, G
<1>15. \A g \in HeadsOf(n_decl) : Linked(n_decl, t, g, D[g])
  BY <1>10, <1>14
<1>16. n_decl.heads > 1 => \A g \in HeadsOf(n_decl) : t.length[g] = Len(D[g])
  <2> HAVE n_decl.heads > 1
  <2> TAKE g \in HeadsOf(n_decl)
  <2>1. n_decl.heads # 1 /\ s.length \in [HeadsOf(n_decl) -> 0..NODES]
    BY <1>4, PoolAssumption, SMTT(30) DEF RegsOK
  <2>2. s.length[g] = Len(C[g]) /\ s.length[h] = Len(C[h])
    BY <1>3, <1>4 DEF CountOK
  <2>3. CASE g = h
    <3>1. t.length[h] = s.length[h] - 1
      BY <1>3, <1>9, <2>1
    <3>2. Len(D[h]) = Len(C[h]) - 1
      BY <1>13, <1>14
    <3> QED BY <2>2, <2>3, <3>1, <3>2
  <2>4. CASE g # h
    <3>1. t.length[g] = s.length[g]
      BY <1>3, <1>9, <2>1, <2>4
    <3> QED BY <1>14, <2>2, <2>4, <3>1
  <2> QED BY <2>3, <2>4
<1>17. n_decl.heads = 1 => Len(D[0]) + t.fl_cnt + 0 = NODES
  <2> HAVE n_decl.heads = 1
  <2>1. h = 0
    BY <1>3 DEF HeadsOf
  <2>2. Len(C[0]) + s.fl_cnt + 0 = NODES
    BY <1>1, <1>4 DEF CountOK, Owed
  <2>3. s.fl_cnt \in 0..NODES
    BY <1>4 DEF RegsOK
  <2>4. Len(D[0]) = Len(C[0]) - 1 /\ Len(C[0]) \in Nat
    BY <1>13, <1>14, <2>1
  <2>5. t.fl_cnt = s.fl_cnt + 1
    BY <1>6
  <2> DEFINE a == Len(C[0])
             f == s.fl_cnt
  <2>6. a \in Nat /\ f \in Nat /\ a + f + 0 = NODES
    BY <2>2, <2>3, <2>4
  <2> HIDE DEF a, f, t
  <2>7. (a - 1) + (f + 1) + 0 = NODES
    BY <2>6
  <2> QED BY <2>4, <2>5, <2>7 DEF a, f
<1>18. Shape(n_decl, t, H, "none", G, D)
  BY <1>4, <1>5, <1>7, <1>11, <1>12, <1>14, <1>15, <1>16, <1>17, ShapeAtRest
<1> QED BY <1>2, <1>18 DEF t

(* The ends of the five operations.                                        *)
LEMMA DoneInsertHead ==
    ASSUME n_decl \in ListDecls, Supports(n_decl), NEW s, NEW H, NEW F, NEW C, NEW r,
           Shape(n_decl, s, H, "insert_head", F, C), Legal(n_decl, H, "insert_head", C, r)
    PROVE  Shape(n_decl, Done(s, "insert_head", r), H, "none", FreeDone(s, F, "insert_head"),
                 ListsDone(s, "insert_head", C))
<1> DEFINE b == "insert_head"
           t == Done(s, b, r)
           h == s.ctl[b].head
           x == s.ctl[b].handle
           c == C[h]
<1>1. /\ b # "none" /\ b \in List!Insertions /\ b \in Structure
  BY DEF List!Insertions, Deletions, Structure
<1>2. /\ h \in HeadsOf(n_decl) /\ x \in Nodes /\ c \in Seq(Nodes) /\ Len(c) \in Nat
      /\ Once(c) /\ Linked(n_decl, s, h, c) /\ ShareOK(n_decl, F, H, {x}, C) /\ ~In(x, c)
  BY <1>1, Working
<1>3. /\ s.next \in [Nodes -> Nodes] /\ s.prev \in [Nodes -> Nodes]
      /\ s.head \in [HeadsOf(n_decl) -> Nodes] /\ s.tail \in [HeadsOf(n_decl) -> Nodes]
      /\ C \in [HeadsOf(n_decl) -> Seq(Nodes)]
      /\ \A g \in HeadsOf(n_decl) : Linked(n_decl, s, g, C[g])
      /\ Does(n_decl, b) /\ Kept(n_decl, s, b, C)
  BY DEF Shape, RegsOK
<1>4. s.ctl[b].was_empty = (Len(c) = 0)
  BY <1>1, <1>3 DEF Kept
<1>5. t.next = [s.next EXCEPT ![x] = s.head[h]] /\ t.head = [s.head EXCEPT ![h] = x]
  BY DEF Done, Finished
<1>6. n_decl.doubly => t.prev = [s.prev EXCEPT ![s.head[h]] = x]
  BY DEF Done, Finished
<1>7. n_decl.track_tail =>
          t.tail = IF Len(c) = 0 THEN [s.tail EXCEPT ![h] = x] ELSE s.tail
  <2> HAVE n_decl.track_tail
  <2>1. t.tail = IF s.ctl[b].was_empty THEN [s.tail EXCEPT ![h] = x] ELSE s.tail
    BY DEF Done, Finished
  <2> HIDE DEF t, c
  <2> QED BY <1>4, <2>1
<1>8. n_decl.doubly => n_decl.heads = 1
  BY <1>3 DEF Supports
<1> HIDE DEF t, x, h, b
<1>9. n_decl.track_tail => t.tail[h] = IF Len(c) = 0 THEN x ELSE s.tail[h]
  <2> HAVE n_decl.track_tail
  <2> HIDE DEF c
  <2>1. CASE Len(c) = 0
    BY <1>2, <1>3, <1>7, <2>1
  <2>2. CASE Len(c) # 0
    BY <1>2, <1>3, <1>7, <2>2
  <2> QED BY <2>1, <2>2
<1>10. t.head[h] = x
  BY <1>2, <1>3, <1>5
<1>11. Linked(n_decl, t, h, Ins(c, 1, x))
  BY <1>2, <1>3, <1>5, <1>6, <1>9, <1>10, LinkHead
<1>12. ASSUME NEW g \in HeadsOf(n_decl), g # h PROVE Linked(n_decl, t, g, C[g])
  <2>1. C[g] \in Seq(Nodes) /\ Linked(n_decl, s, g, C[g]) /\ ~In(x, C[g])
    BY <1>2, <1>3 DEF ShareOK
  <2>2. t.head[g] = s.head[g] /\ (n_decl.track_tail => t.tail[g] = s.tail[g])
    BY <1>2, <1>3, <1>5, <1>7, <1>12
  <2>3. ~n_decl.doubly
    <3>1. n_decl.heads # 1
      BY <1>2, <1>12 DEF HeadsOf
    <3> QED BY <1>8, <3>1
  <2>4. ASSUME NEW y, In(y, C[g]) PROVE t.next[y] = s.next[y]
    <3>1. y \in Nodes /\ y # x
      BY <2>1, <2>4 DEF In
    <3> QED BY <1>3, <1>5, <3>1
  <2> QED BY <2>1, <2>2, <2>3, <2>4, LinkedFrame
<1>13. 1 \in 1..(Len(c) + 1) /\ Grown(s, b, c) = Ins(c, 1, x)
  BY <1>2 DEF Grown, b, x
<1>14. Shape(n_decl, t, H, "none", FreeDone(s, F, b), ListsDone(s, b, C))
  BY <1>1, <1>11, <1>12, <1>13, Inserted DEF t, h, x, b
<1> QED BY <1>14 DEF t, b

(* The second edge of insert_tail.                                         *)
LEMMA DoneInsertTail ==
    ASSUME n_decl \in ListDecls, Supports(n_decl), NEW s, NEW H, NEW F, NEW C, NEW r,
           Shape(n_decl, s, H, "insert_tail", F, C), Legal(n_decl, H, "insert_tail", C, r)
    PROVE  Shape(n_decl, Done(s, "insert_tail", r), H, "none", FreeDone(s, F, "insert_tail"),
                 ListsDone(s, "insert_tail", C))
<1> DEFINE b == "insert_tail"
           t == Done(s, b, r)
           h == s.ctl[b].head
           x == s.ctl[b].handle
           c == C[h]
<1>1. /\ b # "none" /\ b \in List!Insertions /\ b \in Structure
  BY DEF List!Insertions, Deletions, Structure
<1>2. /\ h \in HeadsOf(n_decl) /\ x \in Nodes /\ c \in Seq(Nodes) /\ Len(c) \in Nat
      /\ Once(c) /\ Linked(n_decl, s, h, c) /\ ShareOK(n_decl, F, H, {x}, C) /\ ~In(x, c)
  BY <1>1, Working
<1>3. /\ s.next \in [Nodes -> Nodes] /\ s.prev \in [Nodes -> Nodes]
      /\ s.head \in [HeadsOf(n_decl) -> Nodes] /\ s.tail \in [HeadsOf(n_decl) -> Nodes]
      /\ C \in [HeadsOf(n_decl) -> Seq(Nodes)]
      /\ \A g \in HeadsOf(n_decl) : Linked(n_decl, s, g, C[g])
      /\ Does(n_decl, b) /\ Kept(n_decl, s, b, C)
  BY DEF Shape, RegsOK
<1>4. s.ctl[b].was_empty = (Len(c) = 0) /\ n_decl.track_tail
  BY <1>1, <1>3 DEF Kept, Supports
<1>5. /\ t.next = IF s.ctl[b].was_empty THEN s.next ELSE [s.next EXCEPT ![s.tail[h]] = x]
      /\ t.head = IF s.ctl[b].was_empty THEN [s.head EXCEPT ![h] = x] ELSE s.head
      /\ t.tail = [s.tail EXCEPT ![h] = x]
  BY <1>4 DEF Done, Finished
<1>6. n_decl.doubly => t.prev = [s.prev EXCEPT ![x] = s.tail[h]]
  BY DEF Done, Finished
<1>7. /\ t.next = IF Len(c) = 0 THEN s.next ELSE [s.next EXCEPT ![s.tail[h]] = x]
      /\ t.head = IF Len(c) = 0 THEN [s.head EXCEPT ![h] = x] ELSE s.head
  <2> HIDE DEF t, c
  <2> QED BY <1>4, <1>5
<1> HIDE DEF t, x, h, b
<1>9. t.head[h] = (IF Len(c) = 0 THEN x ELSE s.head[h]) /\ t.tail[h] = x
  <2> HIDE DEF c
  <2>1. CASE Len(c) = 0
    BY <1>2, <1>3, <1>5, <1>7, <2>1
  <2>2. CASE Len(c) # 0
    BY <1>2, <1>3, <1>5, <1>7, <2>2
  <2> QED BY <2>1, <2>2
<1>11. Linked(n_decl, t, h, Ins(c, Len(c) + 1, x))
  <2> HIDE DEF c
  <2> QED BY <1>2, <1>3, <1>4, <1>6, <1>7, <1>9, LinkTail
<1>12. ASSUME NEW g \in HeadsOf(n_decl), g # h PROVE Linked(n_decl, t, g, C[g])
  <2>1. C[g] \in Seq(Nodes) /\ Linked(n_decl, s, g, C[g]) /\ ~In(x, C[g])
    BY <1>2, <1>3 DEF ShareOK
  <2>2. t.head[g] = s.head[g] /\ t.tail[g] = s.tail[g]
    BY <1>2, <1>3, <1>5, <1>7, <1>12
  <2>3. ASSUME NEW y, In(y, C[g])
        PROVE  t.next[y] = s.next[y] /\ (n_decl.doubly => t.prev[y] = s.prev[y])
    <3>1. y \in Nodes /\ y # x
      BY <2>1, <2>3 DEF In
    <3>2. n_decl.doubly => t.prev[y] = s.prev[y]
      BY <1>3, <1>6, <3>1
    <3>3. CASE Len(c) = 0
      BY <1>7, <3>2, <3>3
    <3>4. CASE Len(c) # 0
      <4>1. s.tail[h] = c[Len(c)] /\ Len(c) \in 1..Len(c)
        BY <1>2, <1>4, <3>4 DEF Linked
      <4>2. In(s.tail[h], c)
        BY <4>1 DEF In
      <4>3. s.tail[h] # y
        BY <1>2, <1>3, <1>12, <2>3, <3>1, <4>2 DEF ShareOK
      <4>4. t.next[y] = s.next[y]
        BY <1>3, <1>7, <3>1, <3>4, <4>3
      <4> QED BY <3>2, <4>4
    <3> QED BY <3>3, <3>4
  <2> QED BY <2>1, <2>2, <2>3, LinkedFrame
<1>13. Len(c) + 1 \in 1..(Len(c) + 1) /\ Grown(s, b, c) = Ins(c, Len(c) + 1, x)
  BY <1>2 DEF Grown, b, x
<1>14. Shape(n_decl, t, H, "none", FreeDone(s, F, b), ListsDone(s, b, C))
  BY <1>1, <1>11, <1>12, <1>13, Inserted DEF t, h, x, b
<1> QED BY <1>14 DEF t, b

(* The second edge of insert_after.                                        *)
LEMMA DoneInsertAfter ==
    ASSUME n_decl \in ListDecls, Supports(n_decl), NEW s, NEW H, NEW F, NEW C, NEW r,
           Shape(n_decl, s, H, "insert_after", F, C), Legal(n_decl, H, "insert_after", C, r)
    PROVE  Shape(n_decl, Done(s, "insert_after", r), H, "none", FreeDone(s, F, "insert_after"),
                 ListsDone(s, "insert_after", C))
<1> DEFINE b == "insert_after"
           t == Done(s, b, r)
           h == s.ctl[b].head
           x == s.ctl[b].handle
           c == C[h]
<1>1. /\ b # "none" /\ b \in List!Insertions /\ b \in Structure
  BY DEF List!Insertions, Deletions, Structure
<1>2. /\ h \in HeadsOf(n_decl) /\ x \in Nodes /\ c \in Seq(Nodes) /\ Len(c) \in Nat
      /\ Once(c) /\ Linked(n_decl, s, h, c) /\ ShareOK(n_decl, F, H, {x}, C) /\ ~In(x, c)
  BY <1>1, Working
<1>3. /\ s.next \in [Nodes -> Nodes] /\ s.prev \in [Nodes -> Nodes]
      /\ s.head \in [HeadsOf(n_decl) -> Nodes] /\ s.tail \in [HeadsOf(n_decl) -> Nodes]
      /\ C \in [HeadsOf(n_decl) -> Seq(Nodes)]
      /\ \A g \in HeadsOf(n_decl) : Linked(n_decl, s, g, C[g])
      /\ Does(n_decl, b) /\ Kept(n_decl, s, b, C)
  BY DEF Shape, RegsOK
<1>4. PICK k \in 1..Len(c) : /\ s.ctl[b].after = c[k] /\ (n_decl.track_tail => k < Len(c))
                             /\ s.next[x] = s.next[s.ctl[b].after]
  BY <1>1, <1>3 DEF Kept
<1>5. /\ t.next = [s.next EXCEPT ![s.ctl[b].after] = x] /\ t.head = s.head /\ t.tail = s.tail
  BY DEF Done, Finished
<1>6. n_decl.doubly => t.prev = [s.prev EXCEPT ![x] = s.ctl[b].after, ![s.next[x]] = x]
  BY DEF Done, Finished
<1>7. n_decl.doubly => n_decl.track_tail
  BY <1>3 DEF Supports
<1>8. List!Position(s.ctl[b].after, c) = k /\ DOMAIN c = 1..Len(c)
  <2>1. DOMAIN c = 1..Len(c)
    BY <1>2
  <2>2. List!Position(c[k], c) = k
    BY <1>2, <1>4, <2>1, PlaceOf
  <2> QED BY <1>4, <2>1, <2>2
<1>9. Grown(s, b, c) = Ins(c, k + 1, x)
  BY <1>8 DEF Grown
<1> HIDE DEF t, x, h, b
<1>10. /\ t.next = [s.next EXCEPT ![c[k]] = x] /\ s.next[x] = s.next[c[k]]
       /\ n_decl.doubly => /\ s.next[x] # x => t.prev[x] = c[k]
                           /\ t.prev[s.next[x]] = x
                           /\ \A y \in Nodes : y # x /\ y # s.next[x] => t.prev[y] = s.prev[y]
  <2>1. s.next[x] \in Nodes
    BY <1>2, <1>3
  <2> HIDE DEF c
  <2>2. n_decl.doubly => t.prev = [[s.prev EXCEPT ![x] = c[k]] EXCEPT ![s.next[x]] = x]
    BY <1>4, <1>6
  <2> QED BY <1>2, <1>3, <1>4, <1>5, <2>1, <2>2
<1>11. Linked(n_decl, t, h, Ins(c, k + 1, x)) /\ k + 1 \in 1..(Len(c) + 1)
  <2>1. t.head[h] = s.head[h] /\ t.tail[h] = s.tail[h]
    BY <1>5
  <2>2. n_decl.track_tail => k < Len(c)
    BY <1>4
  <2> HIDE DEF c
  <2>3. k \in 1..Len(c)
    BY <1>4
  <2>4. /\ c \in Seq(Nodes) /\ x \in Nodes /\ Once(c) /\ ~In(x, c) /\ Linked(n_decl, s, h, c)
        /\ s.next \in [Nodes -> Nodes] /\ s.prev \in [Nodes -> Nodes]
    BY <1>2, <1>3
  <2> QED BY <1>7, <1>10, <2>1, <2>2, <2>3, <2>4, LinkAfter
<1>12. ASSUME NEW g \in HeadsOf(n_decl), g # h PROVE Linked(n_decl, t, g, C[g])
  <2>1. C[g] \in Seq(Nodes) /\ Linked(n_decl, s, g, C[g]) /\ ~In(x, C[g])
    BY <1>2, <1>3 DEF ShareOK
  <2>2. t.head[g] = s.head[g] /\ t.tail[g] = s.tail[g]
    BY <1>5
  <2>3. ASSUME NEW y, In(y, C[g])
        PROVE  t.next[y] = s.next[y] /\ (n_decl.doubly => t.prev[y] = s.prev[y])
    <3>1. y \in Nodes /\ y # x
      BY <2>1, <2>3 DEF In
    <3>2. \A z : In(z, c) => z # y
      BY <1>2, <1>3, <1>12, <2>3, <3>1 DEF ShareOK
    <3>3. c[k] # y
      BY <3>2 DEF In
    <3>4. t.next[y] = s.next[y]
      BY <1>3, <1>10, <3>1, <3>3
    <3>5. n_decl.doubly => t.prev[y] = s.prev[y]
      <4> HAVE n_decl.doubly
      <4>1. k \in 1..(Len(c) - 1) /\ k + 1 \in 1..Len(c)
        BY <1>2, <1>4, <1>7
      <4>2. s.next[x] = c[k + 1]
        BY <1>2, <1>10, <4>1 DEF Linked
      <4>3. c[k + 1] # y
        BY <3>2, <4>1 DEF In
      <4>4. y # s.next[x] /\ y # x /\ y \in Nodes
        BY <3>1, <4>2, <4>3
      <4> QED BY <1>10, <4>4
    <3> QED BY <3>4, <3>5
  <2> QED BY <2>1, <2>2, <2>3, LinkedFrame
<1>14. Shape(n_decl, t, H, "none", FreeDone(s, F, b), ListsDone(s, b, C))
  <2> DEFINE m == k + 1
  <2>1. m \in 1..(Len(C[h]) + 1) /\ Grown(s, b, C[h]) = Ins(C[h], m, x)
        /\ Linked(n_decl, t, h, Ins(C[h], m, x))
    BY <1>9, <1>11
  <2> HIDE DEF m
  <2> QED BY <1>1, <1>12, <2>1, Inserted DEF t, h, x, b
<1> QED BY <1>14 DEF t, b

(* The second edge of delete_head returns the slot.                        *)
LEMMA DoneDeleteHead ==
    ASSUME n_decl \in ListDecls, Supports(n_decl), NEW s, NEW H, NEW F, NEW C, NEW r,
           Shape(n_decl, s, H, "delete_head", F, C), Legal(n_decl, H, "delete_head", C, r)
    PROVE  Shape(n_decl, Done(s, "delete_head", r), H, "none", FreeDone(s, F, "delete_head"),
                 ListsDone(s, "delete_head", C))
<1> DEFINE b == "delete_head"
           t == Done(s, b, r)
           h == s.ctl[b].head
           x == s.ctl[b].handle
           c == C[h]
<1>1. /\ b # "none" /\ b \in Deletions /\ b \in Structure
  BY DEF List!Insertions, Deletions, Structure
<1>2. /\ h \in HeadsOf(n_decl) /\ x \in Nodes /\ c \in Seq(Nodes) /\ Len(c) \in Nat
      /\ Once(c) /\ Linked(n_decl, s, h, c) /\ ShareOK(n_decl, F, H, {}, C) /\ Len(c) > 0
  BY <1>1, Working
<1>3. /\ s.next \in [Nodes -> Nodes] /\ s.prev \in [Nodes -> Nodes]
      /\ s.head \in [HeadsOf(n_decl) -> Nodes] /\ s.tail \in [HeadsOf(n_decl) -> Nodes]
      /\ C \in [HeadsOf(n_decl) -> Seq(Nodes)]
      /\ \A g \in HeadsOf(n_decl) : Linked(n_decl, s, g, C[g])
      /\ Does(n_decl, b) /\ Kept(n_decl, s, b, C)
  BY DEF Shape, RegsOK
<1>4. x = c[1]
  BY <1>3 DEF Kept
<1>5. /\ t.next = s.next /\ t.prev = s.prev /\ t.head = [s.head EXCEPT ![h] = s.next[x]]
      /\ t.tail = s.tail
  BY DEF Done, Finished
<1> HIDE DEF t, x, h, b
<1>10. t.head[h] = s.next[c[1]]
  BY <1>2, <1>3, <1>4, <1>5
<1>11. Linked(n_decl, t, h, Del(c, 1)) /\ 1 \in 1..Len(c)
  BY <1>2, <1>5, <1>10, UnlinkHead
<1>12. ASSUME NEW g \in HeadsOf(n_decl), g # h PROVE Linked(n_decl, t, g, C[g])
  <2>1. C[g] \in Seq(Nodes) /\ Linked(n_decl, s, g, C[g])
    BY <1>3
  <2>2. t.head[g] = s.head[g] /\ t.tail[g] = s.tail[g]
    BY <1>2, <1>3, <1>5, <1>12
  <2> QED BY <1>5, <2>1, <2>2, LinkedFrame
<1>13. Grown(s, b, c) = Del(c, 1)
  BY DEF Grown, b
<1>14. Shape(n_decl, t, H, "none", FreeDone(s, F, b), ListsDone(s, b, C))
  BY <1>1, <1>4, <1>11, <1>12, <1>13, Deleted DEF t, h, x, b
<1> QED BY <1>14 DEF t, b

(* The second edge of delete returns the slot.                             *)
LEMMA DoneDelete ==
    ASSUME n_decl \in ListDecls, Supports(n_decl), NEW s, NEW H, NEW F, NEW C, NEW r,
           Shape(n_decl, s, H, "delete", F, C), Legal(n_decl, H, "delete", C, r)
    PROVE  Shape(n_decl, Done(s, "delete", r), H, "none", FreeDone(s, F, "delete"),
                 ListsDone(s, "delete", C))
<1> DEFINE b == "delete"
           t == Done(s, b, r)
           h == s.ctl[b].head
           x == s.ctl[b].handle
           c == C[h]
<1>1. /\ b # "none" /\ b \in Deletions /\ b \in Structure
  BY DEF List!Insertions, Deletions, Structure
<1>2. /\ h \in HeadsOf(n_decl) /\ x \in Nodes /\ c \in Seq(Nodes) /\ Len(c) \in Nat
      /\ Once(c) /\ Linked(n_decl, s, h, c) /\ ShareOK(n_decl, F, H, {}, C) /\ Len(c) > 0
  BY <1>1, Working
<1>3. /\ s.next \in [Nodes -> Nodes] /\ s.prev \in [Nodes -> Nodes]
      /\ s.head \in [HeadsOf(n_decl) -> Nodes] /\ s.tail \in [HeadsOf(n_decl) -> Nodes]
      /\ C \in [HeadsOf(n_decl) -> Seq(Nodes)]
      /\ \A g \in HeadsOf(n_decl) : Linked(n_decl, s, g, C[g])
      /\ Does(n_decl, b) /\ Kept(n_decl, s, b, C)
  BY DEF Shape, RegsOK
<1>4. x = c[Len(c)] /\ ~n_decl.track_tail
  BY <1>3 DEF Kept
<1>5. t.next = s.next /\ t.prev = s.prev /\ t.head = s.head /\ t.tail = s.tail
  BY DEF Done, Finished
<1> HIDE DEF t, x, h, b
<1>11. Linked(n_decl, t, h, Del(c, Len(c))) /\ Len(c) \in 1..Len(c)
  BY <1>2, <1>4, <1>5, UnlinkLast
<1>12. ASSUME NEW g \in HeadsOf(n_decl), g # h PROVE Linked(n_decl, t, g, C[g])
  <2>1. C[g] \in Seq(Nodes) /\ Linked(n_decl, s, g, C[g])
    BY <1>3
  <2> QED BY <1>5, <2>1, LinkedFrame
<1>13. Grown(s, b, c) = Del(c, Len(c))
  BY DEF Grown, b
<1>14. Shape(n_decl, t, H, "none", FreeDone(s, F, b), ListsDone(s, b, C))
  BY <1>1, <1>4, <1>11, <1>12, <1>13, Deleted DEF t, h, x, b
<1> QED BY <1>14 DEF t, b

(* The edge that ends an operation.                                        *)
LEMMA DoneShape ==
    ASSUME n_decl \in ListDecls, Supports(n_decl), NEW s, NEW H, NEW F, NEW C, NEW b, NEW r,
           Shape(n_decl, s, H, b, F, C), b # "none", Legal(n_decl, H, b, C, r)
    PROVE  Shape(n_decl, Done(s, b, r), H, "none", FreeDone(s, F, b), ListsDone(s, b, C))
<1>1. b \in Structure
  BY Working
<1>2. CASE b = "insert_head"
  BY <1>2, DoneInsertHead
<1>3. CASE b = "insert_tail"
  BY <1>3, DoneInsertTail
<1>4. CASE b = "insert_after"
  BY <1>4, DoneInsertAfter
<1>5. CASE b = "delete_head"
  BY <1>5, DoneDeleteHead
<1>6. CASE b = "delete"
  BY <1>6, DoneDelete
<1> QED BY <1>1, <1>2, <1>3, <1>4, <1>5, <1>6 DEF Structure

(* The operators of sequences that the specification and the chains use.   *)
LEMMA InsertIs ==
    ASSUME NEW S, NEW c \in Seq(S), NEW x \in S, NEW k \in 1..(Len(c) + 1)
    PROVE  /\ List!InsertAt(c, k, x) = Ins(c, k, x)
           /\ k = 1 => <<x>> \o c = Ins(c, k, x)
           /\ k = Len(c) + 1 => Append(c, x) = Ins(c, k, x)
<1> DEFINE n == Len(c)
           z == Ins(c, k, x)
<1>1. n \in Nat
  OBVIOUS
<1>2. /\ z \in Seq(S) /\ Len(z) = n + 1
      /\ \A i \in 1..(n + 1) : z[i] = IF i < k THEN c[i] ELSE IF i = k THEN x ELSE c[i - 1]
  BY InsFacts
<1> HIDE DEF z
<1>3. List!InsertAt(c, k, x) = z
  <2> DEFINE a == SubSeq(c, 1, k - 1)
             e == SubSeq(c, k, n)
             y == a \o <<x>> \o e
  <2>0. /\ a \in Seq(S) /\ Len(a) = k - 1 /\ \A i \in 1..(k - 1) : a[i] = c[i]
        /\ e \in Seq(S) /\ Len(e) = n - k + 1 /\ \A i \in 1..(n - k + 1) : e[i] = c[k + i - 1]
    OBVIOUS
  <2> HIDE DEF a, e, n
  <2>7. /\ a \o <<x>> \in Seq(S) /\ Len(a \o <<x>>) = k
        /\ \A i \in 1..k : (a \o <<x>>)[i] = IF i < k THEN c[i] ELSE x
    BY <1>1, <2>0 DEF n
  <2>8. k \in 1..(n + 1)
    BY DEF n
  <2> DEFINE f == a \o <<x>>
  <2> HIDE DEF f
  <2>9. /\ f \o e \in Seq(S) /\ Len(f \o e) = n + 1
        /\ \A i \in 1..(n + 1) : (f \o e)[i] = IF i <= k THEN f[i] ELSE e[i - k]
    <3>1. f \in Seq(S) /\ Len(f) = k
      BY <2>7 DEF f
    <3>2. /\ f \o e \in Seq(S) /\ Len(f \o e) = Len(f) + Len(e)
          /\ \A i \in 1..(Len(f) + Len(e)) :
                 (f \o e)[i] = IF i <= Len(f) THEN f[i] ELSE e[i - Len(f)]
      BY <2>0, <3>1, ConcatProperties
    <3>3. Len(f) + Len(e) = n + 1
      BY <1>1, <2>0, <2>8, <3>1
    <3> QED BY <3>1, <3>2, <3>3
  <2>1. y \in Seq(S) /\ Len(y) = n + 1
    BY <2>9 DEF f
  <2>2. \A i \in 1..(n + 1) : y[i] = IF i < k THEN c[i] ELSE IF i = k THEN x ELSE c[i - 1]
    <3> TAKE i \in 1..(n + 1)
    <3>1. y[i] = IF i <= k THEN f[i] ELSE e[i - k]
      BY <2>9 DEF f
    <3> HIDE DEF y
    <3>2. CASE i <= k
      <4>1. i \in 1..k
        BY <3>2
      <4>2. f[i] = IF i < k THEN c[i] ELSE x
        BY <2>7, <4>1 DEF f
      <4> HIDE DEF y
      <4> QED BY <2>8, <3>1, <3>2, <4>2
    <3>3. CASE i > k
      <4>1. i - k \in 1..(n - k + 1) /\ k + (i - k) - 1 = i - 1
        BY <1>1, <2>8, <3>3
      <4>2. e[i - k] = c[i - 1]
        BY <2>0, <4>1
      <4> HIDE DEF y
      <4> QED BY <2>8, <3>1, <3>3, <4>2
    <3> QED BY <1>1, <2>8, <3>2, <3>3
  <2>3. List!InsertAt(c, k, x) = y
    BY DEF List!InsertAt, a, e, n
  <2> HIDE DEF y
  <2>4. \A i \in 1..(n + 1) : y[i] = z[i]
    BY <1>2, <2>2
  <2>5. y = z
    BY <1>2, <2>1, <2>4, SeqEqual
  <2> QED BY <2>3, <2>5
<1>4. k = 1 => <<x>> \o c = z
  <2> HAVE k = 1
  <2> DEFINE y == <<x>> \o c
  <2>1. y \in Seq(S) /\ Len(y) = n + 1
    OBVIOUS
  <2>2. \A i \in 1..(n + 1) : y[i] = IF i < k THEN c[i] ELSE IF i = k THEN x ELSE c[i - 1]
    OBVIOUS
  <2> HIDE DEF y, n
  <2>4. \A i \in 1..(n + 1) : y[i] = z[i]
    BY <1>2, <2>2
  <2>5. y = z
    BY <1>2, <2>1, <2>4, SeqEqual
  <2> QED BY <2>5 DEF y
<1>5. k = n + 1 => Append(c, x) = z
  <2> HAVE k = n + 1
  <2> DEFINE y == Append(c, x)
  <2>1. y \in Seq(S) /\ Len(y) = n + 1
    OBVIOUS
  <2>2. \A i \in 1..(n + 1) : y[i] = IF i < k THEN c[i] ELSE IF i = k THEN x ELSE c[i - 1]
    OBVIOUS
  <2> HIDE DEF y, n
  <2>4. \A i \in 1..(n + 1) : y[i] = z[i]
    BY <1>2, <2>2
  <2>5. y = z
    BY <1>2, <2>1, <2>4, SeqEqual
  <2> QED BY <2>5 DEF y
<1> QED BY <1>3, <1>4, <1>5 DEF z

(* RemoveAt and Tail are Del.                                              *)
LEMMA RemoveIs ==
    ASSUME NEW S, NEW c \in Seq(S), NEW k \in 1..Len(c)
    PROVE  /\ List!RemoveAt(c, k) = Del(c, k)
           /\ k = 1 => Tail(c) = Del(c, k)
<1> DEFINE n == Len(c)
           z == Del(c, k)
<1>1. n \in Nat
  OBVIOUS
<1>2. /\ z \in Seq(S) /\ Len(z) = n - 1
      /\ \A i \in 1..(n - 1) : z[i] = IF i < k THEN c[i] ELSE c[i + 1]
  BY DelFacts
<1> HIDE DEF z
<1>3. List!RemoveAt(c, k) = z
  <2> DEFINE a == SubSeq(c, 1, k - 1)
             e == SubSeq(c, k + 1, n)
             y == a \o e
  <2>0. /\ a \in Seq(S) /\ Len(a) = k - 1 /\ \A i \in 1..(k - 1) : a[i] = c[i]
        /\ e \in Seq(S) /\ Len(e) = n - k /\ \A i \in 1..(n - k) : e[i] = c[k + i]
    OBVIOUS
  <2>8. k \in 1..n
    OBVIOUS
  <2> HIDE DEF a, e, n
  <2>9. /\ a \o e \in Seq(S) /\ Len(a \o e) = n - 1
        /\ \A i \in 1..(n - 1) : (a \o e)[i] = IF i <= k - 1 THEN a[i] ELSE e[i - (k - 1)]
    <3>2. /\ a \o e \in Seq(S) /\ Len(a \o e) = Len(a) + Len(e)
          /\ \A i \in 1..(Len(a) + Len(e)) :
                 (a \o e)[i] = IF i <= Len(a) THEN a[i] ELSE e[i - Len(a)]
      BY <2>0, ConcatProperties
    <3>3. Len(a) + Len(e) = n - 1
      BY <1>1, <2>0, <2>8
    <3> QED BY <2>0, <3>2, <3>3
  <2>1. y \in Seq(S) /\ Len(y) = n - 1
    BY <2>9
  <2>2. \A i \in 1..(n - 1) : y[i] = IF i < k THEN c[i] ELSE c[i + 1]
    <3> TAKE i \in 1..(n - 1)
    <3>1. y[i] = IF i <= k - 1 THEN a[i] ELSE e[i - (k - 1)]
      BY <2>9
    <3> HIDE DEF y
    <3>2. CASE i < k
      <4>1. i \in 1..(k - 1) /\ i <= k - 1
        BY <2>8, <3>2
      <4> QED BY <2>0, <3>1, <3>2, <4>1
    <3>3. CASE i >= k
      <4>1. i - (k - 1) \in 1..(n - k) /\ k + (i - (k - 1)) = i + 1 /\ ~(i <= k - 1) /\ ~(i < k)
        BY <1>1, <2>8, <3>3
      <4>2. e[i - (k - 1)] = c[i + 1]
        BY <2>0, <4>1
      <4> QED BY <3>1, <4>1, <4>2
    <3> QED BY <1>1, <2>8, <3>2, <3>3
  <2>3. List!RemoveAt(c, k) = y
    BY DEF List!RemoveAt, a, e, n
  <2> HIDE DEF y
  <2>4. \A i \in 1..(n - 1) : y[i] = z[i]
    BY <1>2, <2>2
  <2>5. y = z
    BY <1>2, <2>1, <2>4, SeqEqual
  <2> QED BY <2>3, <2>5
<1>4. k = 1 => Tail(c) = z
  <2> HAVE k = 1
  <2> DEFINE y == Tail(c)
  <2>1. y \in Seq(S) /\ Len(y) = n - 1
    OBVIOUS
  <2>2. \A i \in 1..(n - 1) : y[i] = IF i < k THEN c[i] ELSE c[i + 1]
    OBVIOUS
  <2> HIDE DEF y, n
  <2>4. \A i \in 1..(n - 1) : y[i] = z[i]
    BY <1>2, <2>2
  <2>5. y = z
    BY <1>2, <2>1, <2>4, SeqEqual
  <2> QED BY <2>5 DEF y
<1> QED BY <1>3, <1>4 DEF z

(* A reset empties every list.                                             *)
AllFree == [i \in 1..NODES |-> i - 1]
NoLists(d) == [h \in HeadsOf(d) |-> <<>>]

(* A reset leaves every slot free and every list empty.                    *)
LEMMA ClearedShape ==
    ASSUME n_decl \in ListDecls, NEW s, Shaped(s),
           s.data \in [Nodes -> n_decl.DATA \cup {NoData}],
           s.next \in [Nodes -> Nodes], s.prev \in [Nodes -> Nodes]
    PROVE  Shape(n_decl, List!Cleared(s), {}, "none", AllFree, NoLists(n_decl))
<1> DEFINE t == List!Cleared(s)
<1>0. NODES \in Nat \ {0} /\ n_decl.heads \in Nat \ {0}
  BY PoolAssumption
<1>1. /\ t.fl_mem = [i \in Nodes |-> i] /\ t.fl_rdp = 0 /\ t.fl_wrp = 0 /\ t.fl_cnt = NODES
      /\ t.head = [h \in HeadsOf(n_decl) |-> 0] /\ t.tail = [h \in HeadsOf(n_decl) |-> 0]
      /\ t.length = [h \in HeadsOf(n_decl) |-> 0]
      /\ t.ctl = [op \in List!Operations |-> List!Idle]
      /\ t.data = s.data /\ t.next = s.next /\ t.prev = s.prev
  BY DEF List!Cleared, Shaped, Fields, List!Handles, List!Heads, Nodes, HeadsOf
<1>2. Shaped(t)
  BY DEF List!Cleared, Shaped, Fields
<1> HIDE DEF t
<1>3. 0 \in Nodes /\ 0 \in Pointers /\ 0 % NODES = 0
  <2>1. 0 \in Nodes /\ 0 \in Pointers
    BY <1>0, PoolAssumption DEF Nodes, Pointers
  <2>2. 0 \in 0..(NODES - 1) /\ 0 = 0 * NODES + 0
    BY <1>0
  <2>3. 0 % NODES = 0
    BY <1>0, <2>2, ModIs
  <2> QED BY <2>1, <2>3
<1>4. RegsOK(n_decl, t)
  <2>1. t.ctl = [op \in List!Operations |-> t.ctl[op]]
    BY <1>1
  <2>2. t.length \in [HeadsOf(n_decl) -> 0..NODES] /\ t.fl_cnt \in 0..NODES
    BY <1>0, <1>1
  <2> QED BY <1>1, <1>2, <1>3, <2>1, <2>2 DEF RegsOK
<1>5. AllFree \in Seq(Nodes) /\ Len(AllFree) = NODES /\ \A i \in 1..NODES : AllFree[i] = i - 1
  <2>1. \A i \in 1..NODES : i - 1 \in Nodes
    BY <1>0 DEF Nodes
  <2>2. AllFree \in [1..NODES -> Nodes]
    BY <2>1 DEF AllFree
  <2>3. AllFree \in Seq(Nodes) /\ Len(AllFree) = NODES
    BY <1>0, <2>2, SeqDef, LenProperties
  <2> QED BY <2>3 DEF AllFree
<1>6. RingOK(t, AllFree)
  <2>1. RingAt(0, NODES) = 0 /\ \A i \in 1..NODES : RingAt(0, i - 1) = i - 1 /\ i - 1 \in Nodes
    BY <1>0 DEF RingAt, Nodes
  <2> QED BY <1>1, <1>3, <1>5, <2>1 DEF RingOK
<1>7. \A h \in HeadsOf(n_decl) : NoLists(n_decl)[h] = <<>>
  BY DEF NoLists
<1>8. NoLists(n_decl) \in [HeadsOf(n_decl) -> Seq(Nodes)] /\ Len(<<>>) = 0
  BY DEF NoLists
<1>9. ShareOK(n_decl, AllFree, {}, {}, NoLists(n_decl))
  <2>1. Once(AllFree)
    BY <1>0, <1>5 DEF Once
  <2>2. Once(<<>>) /\ \A x : ~In(x, <<>>)
    BY <1>8 DEF Once, In
  <2>3. \A x \in Nodes : In(x, AllFree)
    <3> TAKE x \in Nodes
    <3>1. x \in Int /\ x + 1 \in 1..NODES /\ (x + 1) - 1 = x
      BY <1>0 DEF Nodes
    <3>2. x + 1 \in 1..Len(AllFree) /\ AllFree[x + 1] = x
      <4>1. AllFree[x + 1] = (x + 1) - 1
        BY <3>1 DEF AllFree
      <4> QED BY <1>5, <3>1, <4>1
    <3> QED BY <3>2 DEF In
  <2> QED BY <1>7, <2>1, <2>2, <2>3 DEF ShareOK
<1>10. \A h \in HeadsOf(n_decl) : Linked(n_decl, t, h, NoLists(n_decl)[h])
  BY <1>7, <1>8 DEF Linked
<1>11. OnlyBusy(t, "none")
  BY <1>1 DEF OnlyBusy, List!Idle, List!Operations
<1>12. n_decl.heads = 1 => Len(NoLists(n_decl)[0]) + t.fl_cnt + 0 = NODES
  <2> HAVE n_decl.heads = 1
  <2>1. 0 \in HeadsOf(n_decl)
    BY DEF HeadsOf
  <2> QED BY <1>0, <1>1, <1>7, <1>8, <2>1
<1>13. \A h \in HeadsOf(n_decl) : t.length[h] = Len(NoLists(n_decl)[h])
  BY <1>1, <1>7, <1>8
<1> QED BY <1>4, <1>6, <1>8, <1>9, <1>10, <1>11, <1>12, <1>13, ShapeAtRest DEF t

(* The instance counts as the module does.                                 *)
LEMMA CardIs == \A S : List!Cardinality(S) = Cardinality(S)
BY DEF List!Cardinality, Cardinality

(* How long the lists are.                                                 *)
LEMMA LengthIs ==
    ASSUME n_decl \in ListDecls, NEW H, NEW F, NEW C, NEW b, Shape(n_decl, n_reg, H, b, F, C),
           NEW h \in HeadsOf(n_decl)
    PROVE  List!Length(h) = Len(C[h]) /\ Len(C[h]) \in Nat
<1>0. n_decl.heads \in Nat \ {0} /\ NODES \in Nat
  BY PoolAssumption
<1>1. C[h] \in Seq(Nodes) /\ Len(C[h]) \in Nat
  <2>1. C[h] \in Seq(Nodes)
    BY DEF Shape
  <2> QED BY <2>1
<1>2. CASE n_decl.heads > 1
  BY <1>1, <1>2 DEF Shape, CountOK, List!Length, List!multi_head
<1>3. CASE n_decl.heads = 1
  <2>1. h = 0 /\ ~(n_decl.heads > 1)
    BY <1>3 DEF HeadsOf
  <2>2. Len(C[0]) + n_reg.fl_cnt + Owed(b) = NODES
    BY <1>3 DEF Shape, CountOK
  <2>3. n_reg.fl_cnt \in 0..NODES
    BY DEF Shape, RegsOK
  <2> DEFINE busy == {op \in List!Insertions : List!Busy(op, n_reg)}
  <2>4. \A op \in List!Insertions : List!Busy(op, n_reg) <=> op = b
    BY DEF Shape, OnlyBusy, List!Busy, List!Insertions, List!Operations
  <2>5. Cardinality(busy) = Owed(b)
    <3>1. CASE b \in List!Insertions
      <4>1. busy = {b}
        BY <2>4, <3>1
      <4>2. Cardinality({b}) = 1
        BY FS_Singleton
      <4> QED BY <3>1, <4>1, <4>2 DEF Owed
    <3>2. CASE b \notin List!Insertions
      <4>1. busy = {}
        BY <2>4, <3>2
      <4>2. Cardinality({}) = 0
        BY FS_EmptySet
      <4> QED BY <3>2, <4>1, <4>2 DEF Owed
    <3> QED BY <3>1, <3>2
  <2>6. List!Length(h) = NODES - n_reg.fl_cnt - Cardinality(busy)
    BY <2>1, CardIs DEF List!Length, List!multi_head
  <2>7. Owed(b) \in Nat
    BY DEF Owed
  <2> HIDE DEF busy
  <2> QED BY <1>0, <1>1, <2>1, <2>2, <2>3, <2>5, <2>6, <2>7
<1> QED BY <1>0, <1>2, <1>3

(* A list is the only one that its links spell.                            *)
LEMMA OneList ==
    ASSUME NEW d, NEW s, NEW h, NEW c \in Seq(Nodes), Linked(d, s, h, c), NEW f,
           f = [i \in 1..Len(c) |-> IF i = 1 THEN s.head[h] ELSE s.next[f[i - 1]]]
    PROVE  f = c
<1> DEFINE n == Len(c)
           S == {i \in 1..n : f[i] # c[i]}
<1>0. n \in Nat
  OBVIOUS
<1>1. ASSUME S # {} PROVE FALSE
  <2>1. S \in SUBSET Nat
    OBVIOUS
  <2>2. PICK m \in S : \A k \in S : m <= k
    <3> HIDE DEF S
    <3> QED BY <1>1, <2>1, LeastNatural
  <2>3. m \in 1..n /\ f[m] # c[m]
    OBVIOUS
  <2>4. f[m] = IF m = 1 THEN s.head[h] ELSE s.next[f[m - 1]]
    BY <2>3
  <2>5. CASE m = 1
    BY <1>0, <2>3, <2>4, <2>5 DEF Linked
  <2>6. CASE m # 1
    <3>1. m - 1 \in 1..(n - 1) /\ m - 1 \in 1..n /\ ~(m <= m - 1) /\ (m - 1) + 1 = m
      BY <1>0, <2>3, <2>6
    <3>2. m - 1 \notin S
      BY <2>2, <3>1
    <3>3. f[m - 1] = c[m - 1]
      BY <3>1, <3>2
    <3>4. s.next[c[m - 1]] = c[(m - 1) + 1]
      BY <3>1 DEF Linked
    <3> QED BY <2>3, <2>4, <2>6, <3>1, <3>3, <3>4
  <2> QED BY <2>5, <2>6
<1>2. \A i \in 1..n : f[i] = c[i]
  BY <1>1
<1>3. f = [i \in 1..n |-> f[i]] /\ c = [i \in 1..n |-> c[i]]
  OBVIOUS
<1> QED BY <1>2, <1>3

(* Following next from a head register reads the list off the memories.    *)
LEMMA LinkedIs ==
    ASSUME n_decl \in ListDecls, NEW H, NEW F, NEW C, NEW b, Shape(n_decl, n_reg, H, b, F, C),
           NEW h \in HeadsOf(n_decl)
    PROVE  List!Linked(h) = C[h]
<1> DEFINE c == C[h]
           E(f) == f = [i \in 1..Len(c) |-> IF i = 1 THEN n_reg.head[h] ELSE n_reg.next[f[i - 1]]]
           node == CHOOSE f : E(f)
<1>1. c \in Seq(Nodes) /\ Linked(n_decl, n_reg, h, c) /\ List!Length(h) = Len(c) /\ Len(c) \in Nat
  <2>1. c \in Seq(Nodes) /\ Linked(n_decl, n_reg, h, c)
    BY DEF Shape
  <2> QED BY <2>1, LengthIs
<1> HIDE DEF c
<1>2. E(c)
  <2>1. \A i \in 1..Len(c) : c[i] = IF i = 1 THEN n_reg.head[h] ELSE n_reg.next[c[i - 1]]
    <3> TAKE i \in 1..Len(c)
    <3>1. CASE i = 1
      BY <1>1, <3>1 DEF Linked
    <3>2. CASE i # 1
      <4>1. i - 1 \in 1..(Len(c) - 1) /\ (i - 1) + 1 = i
        BY <1>1, <3>2
      <4>2. n_reg.next[c[i - 1]] = c[(i - 1) + 1]
        BY <1>1, <4>1 DEF Linked
      <4> QED BY <3>2, <4>1, <4>2
    <3> QED BY <3>1, <3>2
  <2>2. c = [i \in 1..Len(c) |-> c[i]]
    BY <1>1
  <2> QED BY <2>1, <2>2
<1>3. E(node)
  <2> HIDE DEF E
  <2> QED BY <1>2
<1> HIDE DEF node
<1>4. node = c
  BY <1>1, <1>3, OneList
<1>5. List!Linked(h) = [i \in 1..Len(c) |-> node[i]]
  BY <1>1 DEF List!Linked, node
<1>6. c = [i \in 1..Len(c) |-> c[i]]
  BY <1>1
<1>7. List!Linked(h) = c
  BY <1>4, <1>5, <1>6
<1> QED BY <1>7 DEF c

(* Which operation runs on a list.                                         *)
LEMMA RunsIs ==
    ASSUME NEW H, NEW F, NEW C, NEW b, Shape(n_decl, n_reg, H, b, F, C), NEW h
    PROVE  /\ \A op \in List!Operations : List!Busy(op, n_reg) <=> op = b
           /\ \A op \in List!Operations : List!Runs(op, h) <=> op = b /\ n_reg.ctl[b].head = h
           /\ List!Calm <=> b = "none"
<1>1. \A op \in List!Operations : List!Busy(op, n_reg) <=> op = b
  BY DEF Shape, OnlyBusy, List!Busy
<1>2. \A op \in List!Operations : List!Runs(op, h) <=> op = b /\ n_reg.ctl[b].head = h
  BY <1>1 DEF List!Runs
<1>3. b = "none" \/ b \in List!Operations
  BY DEF Shape, Structure, List!Operations
<1>4. "none" \notin List!Operations
  BY DEF List!Operations
<1> QED BY <1>1, <1>2, <1>3, <1>4 DEF List!Calm

(* With the operation under way taken as done it is the list that          *)
(* operation leaves.                                                       *)
LEMMA ChainIs ==
    ASSUME n_decl \in ListDecls, Supports(n_decl), NEW H, NEW F, NEW C, NEW b,
           Shape(n_decl, n_reg, H, b, F, C), NEW h \in HeadsOf(n_decl)
    PROVE  List!Chain(h) = ListsDone(n_reg, b, C)[h]
<1> DEFINE c == C[h]
           g == n_reg.ctl[b].head
           x == n_reg.ctl[b].handle
           run(op) == List!Runs(op, h)
<1>0. C \in [HeadsOf(n_decl) -> Seq(Nodes)] /\ c \in Seq(Nodes) /\ Len(c) \in Nat
  <2>1. C \in [HeadsOf(n_decl) -> Seq(Nodes)]
    BY DEF Shape
  <2> QED BY <2>1
<1>1. List!Linked(h) = c
  BY LinkedIs
<1>2. \A op \in List!Operations : List!Runs(op, h) <=> op = b /\ g = h
  BY RunsIs
<1>2a. {"insert_head", "insert_tail", "insert_after", "delete_head", "delete"} \subseteq List!Operations
  BY DEF List!Operations
<1>3. CASE b # "none" /\ g = h
  <2>1. b \in Structure /\ x \in Nodes /\ (b \in Deletions => Len(c) > 0)
    BY <1>3, Working
  <2>10. Once(C[g])
    BY <1>3, Working
  <2>11. Once(c) /\ DOMAIN c = 1..Len(c)
    BY <1>0, <1>3, <2>10
  <2>2. ListsDone(n_reg, b, C)[h] = Grown(n_reg, b, c)
    BY <1>0, <1>3 DEF ListsDone
  <2>3. \A op \in Structure : List!Runs(op, h) <=> op = b
    BY <1>2, <1>2a, <1>3 DEF Structure
  <2> HIDE DEF c, x
  <2>4. 1 \in 1..(Len(c) + 1) /\ Len(c) + 1 \in 1..(Len(c) + 1)
    BY <1>0
  <2>5. CASE b = "insert_head"
    <3>1. List!Chain(h) = <<x>> \o c
      BY <1>1, <2>3, <2>5 DEF List!Chain, Structure, x
    <3>2. <<x>> \o c = Ins(c, 1, x)
      BY <1>0, <2>1, <2>4, InsertIs
    <3> QED BY <2>2, <2>5, <3>1, <3>2 DEF Grown, x
  <2>6. CASE b = "insert_tail"
    <3>1. List!Chain(h) = Append(c, x)
      BY <1>1, <2>3, <2>6 DEF List!Chain, Structure, x
    <3>2. Append(c, x) = Ins(c, Len(c) + 1, x)
      BY <1>0, <2>1, <2>4, InsertIs
    <3> QED BY <2>2, <2>6, <3>1, <3>2 DEF Grown, x
  <2>7. CASE b = "insert_after"
    <3> DEFINE k == List!Position(n_reg.ctl[b].after, c) + 1
    <3>1. List!Chain(h) = List!InsertAt(c, k, x)
      BY <1>1, <2>3, <2>7 DEF List!Chain, Structure, x
    <3>2. k \in 1..(Len(c) + 1)
      <4>1. PICK i \in 1..Len(c) : n_reg.ctl[b].after = c[i]
        BY <1>3, <2>7 DEF Shape, Kept, c
      <4>2. List!Position(c[i], c) = i
        BY <2>11, PlaceOf
      <4> QED BY <1>0, <4>1, <4>2
    <3>3. Grown(n_reg, b, c) = Ins(c, k, x)
      BY <2>7 DEF Grown, x
    <3> HIDE DEF k
    <3>4. List!InsertAt(c, k, x) = Ins(c, k, x)
      BY <1>0, <2>1, <3>2, InsertIs
    <3> QED BY <2>2, <3>1, <3>3, <3>4
  <2>8. CASE b = "delete_head"
    <3>1. List!Chain(h) = Tail(c)
      BY <1>1, <2>3, <2>8 DEF List!Chain, Structure
    <3>2. 1 \in 1..Len(c)
      BY <1>0, <2>1, <2>8 DEF Deletions
    <3>3. Tail(c) = Del(c, 1)
      BY <1>0, <3>2, RemoveIs
    <3> QED BY <2>2, <2>8, <3>1, <3>3 DEF Grown
  <2>9. CASE b = "delete"
    <3>1. List!Chain(h) = List!RemoveAt(c, List!Position(x, c))
      BY <1>1, <2>3, <2>9 DEF List!Chain, Structure, x
    <3> DEFINE k == Len(c)
    <3>2. k \in 1..Len(c) /\ x = c[k]
      <4>1. x = c[Len(c)]
        BY <1>3, <2>9 DEF Shape, Kept, c, x
      <4> QED BY <1>0, <2>1, <2>9, <4>1 DEF Deletions
    <3>3. Grown(n_reg, b, c) = Del(c, k)
      BY <2>9 DEF Grown
    <3> HIDE DEF k
    <3>4. List!Position(x, c) = k
      <4>2. List!Position(c[k], c) = k
        BY <2>11, <3>2, PlaceOf
      <4> QED BY <3>2, <4>2
    <3>5. List!RemoveAt(c, k) = Del(c, k)
      BY <1>0, <3>2, RemoveIs
    <3> QED BY <2>2, <3>1, <3>3, <3>4, <3>5
  <2> QED BY <2>1, <2>5, <2>6, <2>7, <2>8, <2>9 DEF Structure
<1>4. CASE ~(b # "none" /\ g = h)
  <2>1. \A op \in Structure : ~List!Runs(op, h)
    BY <1>2, <1>2a, <1>4 DEF Structure
  <2>2. List!Chain(h) = c
    BY <1>1, <2>1 DEF List!Chain, Structure
  <2>3. ListsDone(n_reg, b, C)[h] = c
    BY <1>0, <1>4 DEF ListsDone
  <2> QED BY <2>2, <2>3
<1> QED BY <1>3, <1>4

(* What the user sees in a list.                                           *)
LEMMA NodesAre ==
    ASSUME n_decl \in ListDecls, Supports(n_decl), NEW H, NEW F, NEW C, NEW b,
           Shape(n_decl, n_reg, H, b, F, C), NEW h \in HeadsOf(n_decl), NEW x \in List!NodesOf(h)
    PROVE  /\ \E k \in 1..Len(C[h]) : x = C[h][k]
           /\ \E k \in 1..Len(ListsDone(n_reg, b, C)[h]) : x = ListsDone(n_reg, b, C)[h][k]
<1>1. List!Linked(h) = C[h] /\ List!Length(h) = Len(C[h])
  BY LinkedIs, LengthIs
<1>2. List!Chain(h) = ListsDone(n_reg, b, C)[h]
  BY ChainIs
<1> QED BY <1>1, <1>2 DEF List!NodesOf

(* The requests of the user are the legal ones.                            *)
LEMMA WordIsLegal ==
    ASSUME n_decl \in ListDecls, Supports(n_decl), NEW F, NEW C, NEW b,
           Shape(n_decl, n_reg, n_held, b, F, C), NEW r \in List!Words, Does(n_decl, r.op)
    PROVE  Legal(n_decl, n_held, b, C, r) /\ r.op \in {"write_data", "read_data"}
<1>1. /\ r.op \in {"write_data", "read_data"} /\ \E h \in List!Heads : r.handle \in List!NodesOf(h)
      /\ r.op = "write_data" => r.data \in n_decl.DATA
  BY DEF List!Words
<1>2. \E h \in HeadsOf(n_decl) : \E k \in 1..Len(C[h]) : r.handle = C[h][k]
  BY <1>1, NodesAre DEF List!Heads, HeadsOf
<1>3. /\ r.op \in List!Operations /\ r.op \notin {"next", "prev", "insert_after", "delete", "free"}
      /\ r.op \notin List!Insertions /\ r.op \notin Structure
  BY <1>1 DEF List!Operations, List!Insertions, Structure
<1>4. r.op \in Accesses => \E h \in HeadsOf(n_decl) : \E k \in 1..Len(C[h]) :
                             /\ r.handle = C[h][k]
                             /\ r.op = "next" => k < Len(C[h])
                             /\ r.op = "prev" => k > 1
  BY <1>2, <1>3
<1>5. /\ r.op \in List!Insertions \cup {"write_data"} => r.data \in n_decl.DATA
      /\ b # "none" => r.op \in {"none", "write_data", "read_data"}
  BY <1>1, <1>3
<1> QED BY <1>1, <1>3, <1>4, <1>5 DEF Legal

(* What the user asks for while no operation is under way is legal.        *)
LEMMA StructuralIsLegal ==
    ASSUME n_decl \in ListDecls, Supports(n_decl), NEW F, NEW C,
           Shape(n_decl, n_reg, n_held, "none", F, C), NEW r \in List!Structural, Does(n_decl, r.op)
    PROVE  Legal(n_decl, n_held, "none", C, r)
<1>0. /\ \A h \in HeadsOf(n_decl) : List!Linked(h) = C[h] /\ List!Length(h) = Len(C[h])
      /\ \A h \in HeadsOf(n_decl) : Len(C[h]) \in Nat /\ C[h] \in Seq(Nodes) /\ Once(C[h])
      /\ \A h \in HeadsOf(n_decl) : Linked(n_decl, n_reg, h, C[h])
  <2>1. \A h \in HeadsOf(n_decl) : Once(C[h])
    BY DEF Shape, ShareOK
  <2> QED BY <2>1, LinkedIs, LengthIs DEF Shape
<1>0a. \A h \in HeadsOf(n_decl) : \A x \in List!NodesOf(h) : \E k \in 1..Len(C[h]) : x = C[h][k]
  BY NodesAre
<1>0b. List!Heads = HeadsOf(n_decl)
  BY DEF List!Heads, HeadsOf
<1>0c. \A c : List!Last(c) = c[Len(c)]
  BY DEF List!Last
<1>1. CASE r \in [op : {"insert_head", "insert_tail"}, head : List!Heads, data : n_decl.DATA]
  BY <1>1, <1>0b DEF Legal, List!Operations, List!Insertions, Structure, Accesses, List!Reads
<1>2. CASE r \in [op : {"delete_head"}, head : List!Heads]
  BY <1>2, <1>0b DEF Legal, List!Operations, List!Insertions, Structure, Accesses, List!Reads
<1>3. CASE r \in [op : {"alloc"}]
  BY <1>3 DEF Legal, List!Operations, List!Insertions, Structure, Accesses, List!Reads
<1>4. CASE r \in [op : {"free"}, handle : n_held]
  BY <1>4 DEF Legal, List!Operations, List!Insertions, Structure, Accesses, List!Reads
<1>5. ASSUME NEW h \in List!Heads,
             r \in [op : {"insert_after"}, head : {h}, data : n_decl.DATA,
                    handle : IF n_decl.track_tail THEN List!NodesOf(h) \ {n_reg.tail[h]}
                             ELSE List!NodesOf(h)]
      PROVE  Legal(n_decl, n_held, "none", C, r)
  <2>1. /\ r.op = "insert_after" /\ r.head = h /\ r.data \in n_decl.DATA
        /\ r.handle \in List!NodesOf(h) /\ (n_decl.track_tail => r.handle # n_reg.tail[h])
    BY <1>5
  <2>2. PICK k \in 1..Len(C[h]) : r.handle = C[h][k]
    BY <1>0a, <1>0b, <2>1
  <2>3. n_decl.track_tail => k < Len(C[h])
    <3> HAVE n_decl.track_tail
    <3>1. Len(C[h]) \in Nat /\ Len(C[h]) > 0
      BY <1>0, <1>0b
    <3>2. n_reg.tail[h] = C[h][Len(C[h])]
      BY <1>0, <1>0b, <3>1 DEF Linked
    <3>3. k # Len(C[h])
      BY <2>1, <2>2, <3>2
    <3> QED BY <3>1, <3>3
  <2> QED BY <1>0b, <2>1, <2>2, <2>3
          DEF Legal, List!Operations, List!Insertions, Structure, Accesses, List!Reads
<1>6. ASSUME NEW h \in List!Heads, List!Length(h) > 0,
             r \in [op : {"next"}, handle : List!NodesOf(h) \ {List!Last(List!Linked(h))}]
      PROVE  Legal(n_decl, n_held, "none", C, r)
  <2>1. /\ r.op = "next" /\ r.handle \in List!NodesOf(h) /\ r.handle # C[h][Len(C[h])]
    BY <1>0, <1>0b, <1>0c, <1>6
  <2>2. PICK k \in 1..Len(C[h]) : r.handle = C[h][k]
    BY <1>0a, <1>0b, <2>1
  <2>3. k < Len(C[h])
    <3>1. Len(C[h]) \in Nat /\ k # Len(C[h])
      BY <1>0, <1>0b, <2>1, <2>2
    <3> QED BY <3>1
  <2>4. \E g \in HeadsOf(n_decl) : \E i \in 1..Len(C[g]) :
            r.handle = C[g][i] /\ (r.op = "next" => i < Len(C[g])) /\ (r.op = "prev" => i > 1)
    BY <1>0b, <2>1, <2>2, <2>3
  <2> QED BY <2>1, <2>4 DEF Legal, List!Operations, List!Insertions, Structure
<1>7. ASSUME NEW h \in List!Heads, List!Length(h) > 0,
             r \in [op : {"prev"}, handle : List!NodesOf(h) \ {n_reg.head[h]}]
      PROVE  Legal(n_decl, n_held, "none", C, r)
  <2>0. Len(C[h]) \in Nat /\ Len(C[h]) > 0 /\ n_reg.head[h] = C[h][1]
    BY <1>0, <1>0b, <1>7 DEF Linked
  <2>1. /\ r.op = "prev" /\ r.handle \in List!NodesOf(h) /\ r.handle # C[h][1]
    BY <1>7, <2>0
  <2>2. PICK k \in 1..Len(C[h]) : r.handle = C[h][k]
    BY <1>0a, <1>0b, <2>1
  <2>3. k > 1
    <3>1. k # 1
      BY <2>1, <2>2
    <3> QED BY <2>0, <3>1
  <2>4. \E g \in HeadsOf(n_decl) : \E i \in 1..Len(C[g]) :
            r.handle = C[g][i] /\ (r.op = "next" => i < Len(C[g])) /\ (r.op = "prev" => i > 1)
    BY <1>0b, <2>1, <2>2, <2>3
  <2> QED BY <2>1, <2>4 DEF Legal, List!Operations, List!Insertions, Structure
<1>8. ASSUME NEW h \in List!Heads, r \in [op : {"delete"}, head : {h}, handle : List!LastOf(h)]
      PROVE  Legal(n_decl, n_held, "none", C, r)
  <2>1. /\ r.op = "delete" /\ r.head = h /\ r.handle \in List!NodesOf(h) /\ ~n_decl.track_tail
        /\ r.handle = C[h][Len(C[h])]
    BY <1>0, <1>0b, <1>0c, <1>8 DEF List!LastOf
  <2>2. Len(C[h]) > 0
    <3>1. PICK k \in 1..Len(C[h]) : r.handle = C[h][k]
      BY <1>0a, <1>0b, <2>1
    <3> QED BY <1>0, <1>0b, <3>1
  <2> QED BY <1>0b, <2>1, <2>2
          DEF Legal, List!Operations, List!Insertions, Structure, Accesses, List!Reads
<1> DEFINE After(h) == [op : {"insert_after"}, head : {h}, data : n_decl.DATA,
                        handle : IF n_decl.track_tail THEN List!NodesOf(h) \ {n_reg.tail[h]}
                                 ELSE List!NodesOf(h)]
           NextOf(h) == [op : {"next"}, handle : List!NodesOf(h) \ {List!Last(List!Linked(h))}]
           PrevOf(h) == [op : {"prev"}, handle : List!NodesOf(h) \ {n_reg.head[h]}]
           Delete(h) == [op : {"delete"}, head : {h}, handle : List!LastOf(h)]
           Used == {i \in List!Heads : List!Length(i) > 0}
           Fixed == [op : {"insert_head", "insert_tail"}, head : List!Heads, data : n_decl.DATA]
                        \cup [op : {"delete_head"}, head : List!Heads]
                        \cup [op : {"alloc"}]
                        \cup [op : {"free"}, handle : n_held]
<1>9. r \in Fixed \cup (UNION {After(h) : h \in List!Heads})
               \cup (UNION {NextOf(h) \cup PrevOf(h) : h \in Used})
               \cup (UNION {Delete(h) : h \in List!Heads})
  BY DEF List!Structural
<1>10. ASSUME r \in Fixed PROVE Legal(n_decl, n_held, "none", C, r)
  BY <1>1, <1>2, <1>3, <1>4, <1>10
<1> HIDE DEF After, NextOf, PrevOf, Delete, Fixed
<1>11. CASE r \in UNION {After(h) : h \in List!Heads}
  <2>1. PICK h \in List!Heads : r \in After(h)
    BY <1>11
  <2> QED BY <1>5, <2>1 DEF After
<1>12. CASE r \in UNION {NextOf(h) \cup PrevOf(h) : h \in Used}
  <2>1. PICK h \in Used : r \in NextOf(h) \cup PrevOf(h)
    BY <1>12
  <2>2. h \in List!Heads /\ List!Length(h) > 0
    OBVIOUS
  <2> QED BY <1>6, <1>7, <2>1, <2>2 DEF NextOf, PrevOf
<1>13. CASE r \in UNION {Delete(h) : h \in List!Heads}
  <2>1. PICK h \in List!Heads : r \in Delete(h)
    BY <1>13
  <2> QED BY <1>8, <2>1 DEF Delete
<1> DEFINE U == UNION {After(h) : h \in List!Heads}
           V == UNION {NextOf(h) \cup PrevOf(h) : h \in Used}
           W == UNION {Delete(h) : h \in List!Heads}
<1>14. r \in Fixed \cup U \cup V \cup W
  BY <1>9
<1>15. /\ r \in U => Legal(n_decl, n_held, "none", C, r)
       /\ r \in V => Legal(n_decl, n_held, "none", C, r)
       /\ r \in W => Legal(n_decl, n_held, "none", C, r)
  BY <1>11, <1>12, <1>13
<1> HIDE DEF U, V, W
<1> QED BY <1>10, <1>14, <1>15

(* So is every request; only words are asked for meanwhile.                *)
LEMMA RequestIsLegal ==
    ASSUME n_decl \in ListDecls, Supports(n_decl), NEW F, NEW C, NEW b,
           Shape(n_decl, n_reg, n_held, b, F, C), NEW r \in List!Requests
    PROVE  /\ Legal(n_decl, n_held, b, C, r) /\ (r.op = "none" \/ Does(n_decl, r.op))
           /\ b # "none" => r.op \in {"none", "write_data", "read_data"}
           /\ r.op = "none" <=> r = List!None
<1>1. CASE r = List!None
  BY <1>1 DEF List!None, Legal, List!Operations, List!Insertions, Structure, Accesses, List!Reads
<1>2. CASE r # List!None
  <2>1. /\ r \in List!Words \cup (IF List!Calm THEN List!Structural ELSE {})
        /\ \E i \in DOMAIN n_decl.ops : n_decl.ops[i] = r.op
    BY <1>2 DEF List!Requests
  <2>2. Does(n_decl, r.op)
    BY <2>1 DEF Does
  <2>3. Legal(n_decl, n_held, b, C, r)
    <3>1. CASE r \in List!Words
      BY <2>2, <3>1, WordIsLegal
    <3>2. CASE r \notin List!Words
      <4>1. b = "none" /\ r \in List!Structural
        BY <2>1, <3>2, RunsIs
      <4> QED BY <2>2, <4>1, StructuralIsLegal
    <3> QED BY <3>1, <3>2
  <2>4. r.op # "none"
    BY <2>1, DeclaredOps
  <2> QED BY <1>2, <2>2, <2>3, <2>4 DEF Legal
<1> QED BY <1>1, <1>2

(* The nodes of a list.                                                    *)
Members(c) == {c[i] : i \in 1..Len(c)}

(* A list without repetition has as many members as places.                *)
LEMMA OnceCard ==
    ASSUME NEW c \in Seq(Nodes), Once(c)
    PROVE  /\ IsFiniteSet(Members(c)) /\ Cardinality(Members(c)) = Len(c)
           /\ \A x : x \in Members(c) <=> In(x, c)
           /\ Members(c) \subseteq Nodes
<1> DEFINE n == Len(c)
           M == Members(c)
<1>1. n \in Nat /\ c \in [1..n -> Nodes]
  OBVIOUS
<1>2. \A x : x \in M <=> In(x, c)
  BY DEF Members, In
<1>3. M \subseteq Nodes
  BY <1>1 DEF Members
<1>4. c \in [1..n -> M]
  <2>1. c = [i \in 1..n |-> c[i]]
    BY <1>1
  <2>2. \A i \in 1..n : c[i] \in M
    BY DEF Members
  <2> HIDE DEF M, n
  <2> QED BY <2>1, <2>2
<1>5. c \in Bijection(1..n, M)
  <2>1. \A i, j \in 1..n : c[i] = c[j] => i = j
    BY DEF Once
  <2>2. \A x \in M : \E i \in 1..n : c[i] = x
    BY DEF Members
  <2> HIDE DEF M, n
  <2>3. DOMAIN c = 1..n
    BY <1>4
  <2>4. IsInjective(c)
    BY <2>1, <2>3 DEF IsInjective
  <2> QED BY <1>4, <2>2, <2>4 DEF Bijection, Injection, Surjection
<1>6. IsFiniteSet(1..n) /\ Cardinality(1..n) = n
  <2> HIDE DEF n
  <2>1. 1 \in Int /\ n \in Int
    BY <1>1
  <2>2. IsFiniteSet(1..n) /\ Cardinality(1..n) = IF 1 > n THEN 0 ELSE n - 1 + 1
    BY <2>1, FS_Interval
  <2> QED BY <1>1, <2>2
<1>7. IsFiniteSet(M) /\ Cardinality(M) = Cardinality(1..n)
  <2> HIDE DEF M, n
  <2>1. ExistsBijection(1..n, M)
    BY <1>5 DEF ExistsBijection
  <2> QED BY <1>6, <2>1, FS_Bijection
<1> QED BY <1>2, <1>3, <1>6, <1>7

(* Sizes of disjoint sets add up.                                          *)
LEMMA DisjointSum ==
    ASSUME NEW A, NEW B, IsFiniteSet(A), IsFiniteSet(B), \A x \in A : x \notin B
    PROVE  IsFiniteSet(A \cup B) /\ Cardinality(A \cup B) = Cardinality(A) + Cardinality(B)
<1>1. A \cap B = {}
  OBVIOUS
<1>2. /\ IsFiniteSet(A \cup B)
      /\ Cardinality(A \cup B) = Cardinality(A) + Cardinality(B) - Cardinality(A \cap B)
  BY FS_Union
<1>3. Cardinality(A) \in Nat /\ Cardinality(B) \in Nat /\ Cardinality({}) = 0
  BY FS_CardinalityType, FS_EmptySet
<1> DEFINE k == Cardinality(A \cap B)
<1>4. k = 0
  BY <1>1, <1>3, Zenon
<1>5. Cardinality(A \cup B) = Cardinality(A) + Cardinality(B) - k
  BY <1>2
<1> HIDE DEF k
<1> QED BY <1>2, <1>3, <1>4, <1>5

(* The pool has NODES slots.                                               *)
LEMMA NodesAreFinite ==
    IsFiniteSet(Nodes) /\ Cardinality(Nodes) = NODES
<1>1. NODES \in Nat \ {0}
  BY PoolAssumption
<1> DEFINE m == NODES - 1
<1>2. m \in Int /\ 0 \in Int /\ ~(0 > m) /\ m - 0 + 1 = NODES
  BY <1>1
<1> HIDE DEF m
<1>3. IsFiniteSet(0..m) /\ Cardinality(0..m) = IF 0 > m THEN 0 ELSE m - 0 + 1
  BY <1>2, FS_Interval
<1>4. IsFiniteSet(0..m) /\ Cardinality(0..m) = NODES
  BY <1>2, <1>3
<1> QED BY <1>4 DEF Nodes, m

(* The sets that the pool is shared out into.                              *)
LEMMA PoolSets ==
    ASSUME n_decl \in ListDecls, NEW F, NEW C, NEW b,
           Shape(n_decl, n_reg, n_held, b, F, C)
    PROVE  /\ List!FreeSlots = Members(F) /\ List!PendingSlots = Pending(n_reg, b)
           /\ \A h \in HeadsOf(n_decl) : List!ChainSlots(h) = Members(C[h])
<1>1. /\ F \in Seq(Nodes) /\ Len(F) = n_reg.fl_cnt /\ n_reg.fl_rdp \in Pointers
      /\ n_reg.fl_cnt \in 0..NODES /\ NODES \in Nat
      /\ \A i \in 1..Len(F) : F[i] = n_reg.fl_mem[RingAt(n_reg.fl_rdp % NODES, i - 1)]
  BY PoolAssumption DEF Shape, RegsOK, RingOK
<1>2. List!FreeSlots = Members(F)
  <2> DEFINE slot(i) == n_reg.fl_mem[(n_reg.fl_rdp + i) % NODES]
             n == n_reg.fl_cnt
  <2>1. \A i \in 0..(n - 1) : i + 1 \in 1..n /\ F[i + 1] = slot(i)
    <3> TAKE i \in 0..(n - 1)
    <3>1. i \in 0..NODES /\ i + 1 \in 1..n /\ (i + 1) - 1 = i
      BY <1>1
    <3>2. (n_reg.fl_rdp + i) % NODES = RingAt(n_reg.fl_rdp % NODES, i)
      BY <1>1, <3>1, RingIndex
    <3>3. F[i + 1] = n_reg.fl_mem[RingAt(n_reg.fl_rdp % NODES, (i + 1) - 1)]
      BY <1>1, <3>1
    <3> QED BY <3>1, <3>2, <3>3
  <2>2. \A i \in 1..n : i - 1 \in 0..(n - 1) /\ F[i] = slot(i - 1)
    <3> TAKE i \in 1..n
    <3>1. i - 1 \in 0..(n - 1) /\ (i - 1) + 1 = i
      BY <1>1
    <3> QED BY <2>1, <3>1
  <2>3. List!FreeSlots = {slot(i) : i \in 0..(n - 1)}
    BY DEF List!FreeSlots
  <2>4. Members(F) = {F[i] : i \in 1..n}
    BY <1>1 DEF Members
  <2> HIDE DEF slot, n
  <2> QED BY <2>1, <2>2, <2>3, <2>4
<1>3. List!PendingSlots = Pending(n_reg, b)
  <2>1. \A op \in List!Insertions : List!Busy(op, n_reg) <=> op = b
    BY DEF Shape, OnlyBusy, List!Busy, List!Insertions, List!Operations
  <2>2. CASE b \in List!Insertions
    BY <2>1, <2>2 DEF List!PendingSlots, Pending
  <2>3. CASE b \notin List!Insertions
    BY <2>1, <2>3 DEF List!PendingSlots, Pending
  <2> QED BY <2>2, <2>3
<1>4. ASSUME NEW h \in HeadsOf(n_decl) PROVE List!ChainSlots(h) = Members(C[h])
  <2>1. List!Linked(h) = C[h] /\ List!Length(h) = Len(C[h])
    BY LinkedIs, LengthIs
  <2> QED BY <2>1 DEF List!ChainSlots, Members
<1> QED BY <1>2, <1>3, <1>4

(* The lists before head h, with what is outside of the lists.             *)
Held(n, F, H, P, C) == (Members(F) \cup P \cup H) \cup UNION {Members(C[g]) : g \in 0..(n - 1)}

(* The slots of the first lists are apart from those of the next one.      *)
LEMMA HeldGrows ==
    ASSUME NEW d, d.heads \in Nat, NEW F, NEW H, NEW P, NEW C, NEW n \in 0..(d.heads - 1),
           C \in [HeadsOf(d) -> Seq(Nodes)], F \in Seq(Nodes), ShareOK(d, F, H, P, C),
           H \subseteq Nodes, P \subseteq Nodes
    PROVE  /\ Held(n + 1, F, H, P, C) = Held(n, F, H, P, C) \cup Members(C[n])
           /\ \A x \in Held(n, F, H, P, C) : x \notin Members(C[n])
           /\ Held(n, F, H, P, C) \subseteq Nodes /\ Held(n + 1, F, H, P, C) \subseteq Nodes
<1>1. \A g \in HeadsOf(d) : /\ Members(C[g]) \subseteq Nodes
                            /\ \A x : x \in Members(C[g]) <=> In(x, C[g])
  BY OnceCard DEF ShareOK
<1>2. Members(F) \subseteq Nodes /\ \A x : x \in Members(F) <=> In(x, F)
  BY OnceCard DEF ShareOK
<1>3. n \in HeadsOf(d) /\ \A g \in 0..(n - 1) : g \in HeadsOf(d) /\ g # n
  BY DEF HeadsOf
<1>4. \A g : g \in 0..((n + 1) - 1) <=> g \in 0..(n - 1) \/ g = n
  OBVIOUS
<1>5. Held(n + 1, F, H, P, C) = Held(n, F, H, P, C) \cup Members(C[n])
  BY <1>4 DEF Held
<1>6. ASSUME NEW x \in Held(n, F, H, P, C) PROVE x \in Nodes /\ x \notin Members(C[n])
  <2>1. CASE x \in Members(F)
    BY <1>1, <1>2, <1>3, <2>1 DEF ShareOK
  <2>2. CASE x \in P \cup H
    BY <1>1, <1>3, <2>2 DEF ShareOK
  <2>3. CASE \E g \in 0..(n - 1) : x \in Members(C[g])
    <3>1. PICK g \in HeadsOf(d) : g # n /\ x \in Members(C[g])
      BY <1>3, <2>3
    <3> QED BY <1>1, <1>3, <3>1 DEF ShareOK
  <2> QED BY <2>1, <2>2, <2>3 DEF Held
<1>7. Members(C[n]) \subseteq Nodes
  BY <1>1, <1>3
<1> QED BY <1>5, <1>6, <1>7

(* Slots counted head by head.                                             *)
LEMMA HeldFirst ==
    ASSUME NEW d, NEW F \in Seq(Nodes), NEW H, NEW P, NEW C, ShareOK(d, F, H, P, C),
           H \subseteq Nodes, P \subseteq Nodes
    PROVE  Cardinality(Held(0, F, H, P, C)) = Len(F) + Cardinality(P) + Cardinality(H)
<1>1. Held(0, F, H, P, C) = (Members(F) \cup P) \cup H
  <2>1. 0..(0 - 1) = {}
    OBVIOUS
  <2>2. UNION {Members(C[g]) : g \in 0..(0 - 1)} = {}
    <3>1. \A x : x \notin UNION {Members(C[g]) : g \in 0..(0 - 1)}
      BY <2>1
    <3> QED BY <3>1
  <2> QED BY <2>2 DEF Held
<1>2. IsFiniteSet(P) /\ IsFiniteSet(H)
  BY NodesAreFinite, FS_Subset
<1>3. /\ IsFiniteSet(Members(F)) /\ Cardinality(Members(F)) = Len(F)
      /\ \A x : x \in Members(F) <=> In(x, F)
      /\ Members(F) \subseteq Nodes
  BY OnceCard DEF ShareOK
<1>4. (\A x \in Members(F) : x \notin P) /\ \A x \in Members(F) \cup P : x \notin H
  BY <1>3 DEF ShareOK
<1> DEFINE A == Members(F)
           B == A \cup P
<1> HIDE DEF A
<1>5. IsFiniteSet(B) /\ Cardinality(B) = Cardinality(A) + Cardinality(P)
  BY <1>2, <1>3, <1>4, DisjointSum DEF A
<1> HIDE DEF B
<1>6. IsFiniteSet(B \cup H) /\ Cardinality(B \cup H) = Cardinality(B) + Cardinality(H)
  BY <1>2, <1>4, <1>5, DisjointSum DEF A, B
<1>7. Held(0, F, H, P, C) = B \cup H /\ Cardinality(A) = Len(F)
  BY <1>1, <1>3 DEF A, B
<1> QED BY <1>5, <1>6, <1>7

(* So their number grows by its length.                                    *)
LEMMA HeldNext ==
    ASSUME NEW d, d.heads \in Nat, NEW F \in Seq(Nodes), NEW H, NEW P, NEW C,
           C \in [HeadsOf(d) -> Seq(Nodes)], ShareOK(d, F, H, P, C),
           H \subseteq Nodes, P \subseteq Nodes, NEW n \in 0..(d.heads - 1)
    PROVE  Cardinality(Held(n + 1, F, H, P, C)) = Len(C[n]) + Cardinality(Held(n, F, H, P, C))
<1> DEFINE A == Held(n, F, H, P, C)
           B == Members(C[n])
           Z == Held(n + 1, F, H, P, C)
<1>1. Z = A \cup B /\ (\A x \in A : x \notin B) /\ A \subseteq Nodes
  BY HeldGrows
<1>2. IsFiniteSet(B) /\ Cardinality(B) = Len(C[n])
  <2>1. n \in HeadsOf(d)
    BY DEF HeadsOf
  <2>2. C[n] \in Seq(Nodes) /\ Once(C[n])
    BY <2>1 DEF ShareOK
  <2> QED BY <2>2, OnceCard
<1> HIDE DEF A, B, Z
<1>3. IsFiniteSet(A)
  BY <1>1, NodesAreFinite, FS_Subset
<1>4. IsFiniteSet(A \cup B) /\ Cardinality(A \cup B) = Cardinality(A) + Cardinality(B)
  BY <1>1, <1>2, <1>3, DisjointSum
<1>5. Cardinality(A) \in Nat /\ Cardinality(B) \in Nat
  BY <1>2, <1>3, FS_CardinalityType
<1>6. Cardinality(Z) = Cardinality(B) + Cardinality(A)
  BY <1>1, <1>4, <1>5
<1> QED BY <1>2, <1>6 DEF A, B, Z

(* With all lists it is the size of the pool.                              *)
LEMMA HeldLast ==
    ASSUME NEW d, d.heads \in Nat, NEW F \in Seq(Nodes), NEW H, NEW P, NEW C,
           C \in [HeadsOf(d) -> Seq(Nodes)], ShareOK(d, F, H, P, C),
           H \subseteq Nodes, P \subseteq Nodes
    PROVE  Cardinality(Held(d.heads, F, H, P, C)) = NODES
<1> DEFINE Z == Held(d.heads, F, H, P, C)
<1>1. \A g \in HeadsOf(d) : /\ Members(C[g]) \subseteq Nodes
                            /\ \A x : x \in Members(C[g]) <=> In(x, C[g])
  BY OnceCard DEF ShareOK
<1>2. Members(F) \subseteq Nodes /\ \A x : x \in Members(F) <=> In(x, F)
  BY OnceCard DEF ShareOK
<1>3. \A g : g \in HeadsOf(d) <=> g \in 0..(d.heads - 1)
  BY DEF HeadsOf
<1>4. Z \subseteq Nodes
  BY <1>1, <1>2, <1>3 DEF Held
<1>5. \A x \in Nodes : x \in Z
  <2> TAKE x \in Nodes
  <2>1. In(x, F) \/ x \in H \/ x \in P \/ \E g \in HeadsOf(d) : In(x, C[g])
    BY DEF ShareOK
  <2> QED BY <1>1, <1>2, <1>3, <2>1 DEF Held
<1> HIDE DEF Z
<1>6. Z = Nodes
  BY <1>4, <1>5
<1> QED BY <1>6, NodesAreFinite DEF Z

(* A sum head by head is the only one.                                     *)
Sums(k, base, f) ==
    f = [h \in 0..k |-> IF h = 0 THEN base ELSE List!Length(h - 1) + f[h - 1]]

(* The equation of a running sum has one solution.                         *)
LEMMA OneSum ==
    ASSUME NEW k \in Nat, NEW base, NEW f, NEW g,
           Sums(k, base, f), Sums(k, base, g)
    PROVE  f = g
<1> DEFINE S == {h \in 0..k : f[h] # g[h]}
<1>1. S = {}
  <2> SUFFICES ASSUME S # {} PROVE FALSE
    OBVIOUS
  <2>1. S \in SUBSET Nat
    OBVIOUS
  <2>2. PICK m \in S : \A n \in S : m <= n
    <3> HIDE DEF S
    <3> QED BY <2>1, LeastNatural
  <2>3. m \in 0..k /\ f[m] # g[m]
    OBVIOUS
  <2>4. m # 0
    BY <2>3 DEF Sums
  <2>5. m - 1 \in 0..k /\ ~(m <= m - 1)
    BY <2>3, <2>4
  <2>6. m - 1 \notin S
    BY <2>2, <2>5
  <2>7. f[m - 1] = g[m - 1]
    BY <2>5, <2>6
  <2>8. f[m] = List!Length(m - 1) + f[m - 1] /\ g[m] = List!Length(m - 1) + g[m - 1]
    BY <2>3, <2>4 DEF Sums
  <2> QED BY <2>3, <2>7, <2>8
<1>2. \A h \in 0..k : f[h] = g[h]
  BY <1>1
<1>3. f = [h \in 0..k |-> f[h]] /\ g = [h \in 0..k |-> g[h]]
  BY DEF Sums
<1> QED BY <1>2, <1>3

(* The pool is shared out exactly.                                         *)
LEMMA ShapeIsExact ==
    ASSUME n_decl \in ListDecls, NEW F, NEW C, NEW b, Shape(n_decl, n_reg, n_held, b, F, C)
    PROVE  List!PoolIsExact
<1> DEFINE P == Pending(n_reg, b)
           H == n_held
<1>1. /\ List!FreeSlots = Members(F) /\ List!PendingSlots = P
      /\ \A h \in HeadsOf(n_decl) : List!ChainSlots(h) = Members(C[h])
  BY PoolSets
<1>2. /\ F \in Seq(Nodes) /\ Len(F) = n_reg.fl_cnt /\ C \in [HeadsOf(n_decl) -> Seq(Nodes)]
      /\ H \subseteq Nodes /\ ShareOK(n_decl, F, H, P, C)
  BY DEF Shape, RingOK
<1>3. n_decl.heads \in Nat /\ List!Heads = HeadsOf(n_decl) /\ List!Handles = Nodes
  BY PoolAssumption DEF List!Heads, List!Handles, HeadsOf, Nodes
<1>4. \A g \in HeadsOf(n_decl) : /\ Members(C[g]) \subseteq Nodes
                                 /\ \A x : x \in Members(C[g]) <=> In(x, C[g])
                                 /\ Cardinality(Members(C[g])) = Len(C[g])
  BY <1>2, OnceCard DEF ShareOK
<1>5. /\ Members(F) \subseteq Nodes /\ \A x : x \in Members(F) <=> In(x, F)
      /\ Cardinality(Members(F)) = Len(F)
  BY <1>2, OnceCard DEF ShareOK
<1>6. P \subseteq Nodes
  BY <1>2 DEF ShareOK
<1>7. List!Cardinality(List!FreeSlots) = n_reg.fl_cnt
  BY <1>1, <1>2, <1>5, CardIs
<1>8. \A h \in List!Heads : List!Cardinality(List!ChainSlots(h)) = List!Length(h)
  BY <1>1, <1>3, <1>4, CardIs, LengthIs
<1>9. UNION {List!FreeSlots, List!PendingSlots, n_held,
             UNION {List!ChainSlots(h) : h \in List!Heads}} = List!Handles
  <2> DEFINE U == UNION {List!FreeSlots, List!PendingSlots, n_held,
                         UNION {List!ChainSlots(h) : h \in List!Heads}}
  <2>1. \A x : x \in U <=> \/ x \in Members(F) \/ x \in P \/ x \in H
                           \/ \E h \in HeadsOf(n_decl) : x \in Members(C[h])
    BY <1>1, <1>3
  <2>2. \A x \in U : x \in Nodes
    BY <1>2, <1>4, <1>5, <1>6, <2>1
  <2>3. \A x \in Nodes : x \in U
    <3> HIDE DEF U
    <3> TAKE x \in Nodes
    <3>1. In(x, F) \/ x \in H \/ x \in P \/ \E g \in HeadsOf(n_decl) : In(x, C[g])
      BY <1>2 DEF ShareOK
    <3> QED BY <1>4, <1>5, <2>1, <3>1
  <2> HIDE DEF U
  <2>4. U = Nodes
    BY <2>2, <2>3
  <2> QED BY <1>3, <2>4 DEF U
<1> DEFINE k == n_decl.heads
           base == n_reg.fl_cnt + List!Cardinality(List!PendingSlots) + List!Cardinality(n_held)
           E(f) == f = [h \in 0..k |-> IF h = 0 THEN base ELSE List!Length(h - 1) + f[h - 1]]
           sizes == CHOOSE f : E(f)
           G(h) == Cardinality(Held(h, F, H, P, C))
           g == [h \in 0..k |-> G(h)]
<1>10. E(g)
  <2>1. G(0) = base
    <3>1. G(0) = Len(F) + Cardinality(P) + Cardinality(H)
      BY <1>2, <1>6, HeldFirst
    <3> QED BY <1>1, <1>2, <3>1, CardIs
  <2>2. ASSUME NEW h \in 0..k, h # 0 PROVE G(h) = List!Length(h - 1) + G(h - 1)
    <3>1. h - 1 \in 0..(n_decl.heads - 1) /\ (h - 1) + 1 = h
      BY <1>3, <2>2
    <3>2. List!Length(h - 1) = Len(C[h - 1])
      BY <3>1, LengthIs DEF HeadsOf
    <3> DEFINE n == h - 1
    <3> HIDE DEF n
    <3>4. n \in 0..(n_decl.heads - 1)
      BY <3>1 DEF n
    <3>3. Cardinality(Held(n + 1, F, H, P, C)) = Len(C[n]) + Cardinality(Held(n, F, H, P, C))
      BY <1>2, <1>3, <1>6, <3>4, HeldNext
    <3> QED BY <3>1, <3>2, <3>3 DEF n
  <2>3. \A h \in 0..k : h # 0 => h - 1 \in 0..k
    BY <1>3
  <2> HIDE DEF G, base
  <2>4. \A h \in 0..k : g[h] = IF h = 0 THEN base ELSE List!Length(h - 1) + g[h - 1]
    BY <2>1, <2>2, <2>3
  <2> QED BY <2>4
<1>11. E(sizes)
  <2> HIDE DEF E
  <2> QED BY <1>10
<1>12. sizes = g
  <2> HIDE DEF sizes, g, base
  <2>1. k \in Nat
    BY <1>3
  <2>2. Sums(k, base, sizes) /\ Sums(k, base, g)
    BY <1>10, <1>11 DEF Sums
  <2> QED BY <2>1, <2>2, OneSum
<1>13. g[k] = NODES
  <2>1. k \in 0..k
    BY <1>3
  <2>2. G(k) = NODES
    BY <1>2, <1>3, <1>6, HeldLast
  <2> QED BY <2>1, <2>2
<1>14. sizes[k] = NODES
  <2> HIDE DEF sizes, g
  <2> QED BY <1>12, <1>13
<1> QED BY <1>7, <1>8, <1>9, <1>14 DEF List!PoolIsExact

(* The links back match.                                                   *)
LEMMA ShapeLinksBack ==
    ASSUME n_decl \in ListDecls, NEW F, NEW C, NEW b, Shape(n_decl, n_reg, n_held, b, F, C)
    PROVE  List!BackLinksMatch
<1> SUFFICES ASSUME NEW h \in List!Heads
             PROVE  LET now == List!Linked(h) IN
                    /\ n_decl.track_tail /\ now # <<>> => n_reg.tail[h] = List!Last(now)
                    /\ n_decl.doubly => \A i \in 2..Len(now) : n_reg.prev[now[i]] = now[i - 1]
  BY DEF List!BackLinksMatch
<1>1. h \in HeadsOf(n_decl)
  BY DEF List!Heads, HeadsOf
<1>2. List!Linked(h) = C[h] /\ C[h] \in Seq(Nodes) /\ Linked(n_decl, n_reg, h, C[h])
  BY <1>1, LinkedIs DEF Shape
<1> DEFINE c == C[h]
<1>3. n_decl.track_tail /\ Len(c) > 0 => n_reg.tail[h] = c[Len(c)]
  BY <1>2 DEF Linked
<1>4. n_decl.doubly => \A i \in 1..(Len(c) - 1) : n_reg.prev[c[i + 1]] = c[i]
  BY <1>2 DEF Linked
<1>5. c # <<>> => Len(c) > 0
  BY <1>2
<1>6. List!Last(c) = c[Len(c)]
  BY DEF List!Last
<1>7. n_decl.doubly => \A i \in 2..Len(c) : n_reg.prev[c[i]] = c[i - 1]
  <2> SUFFICES ASSUME n_decl.doubly, NEW i \in 2..Len(c) PROVE n_reg.prev[c[i]] = c[i - 1]
    OBVIOUS
  <2>0. Len(c) \in Nat
    BY <1>2
  <2> DEFINE j == i - 1
  <2>1. j \in 1..(Len(c) - 1) /\ j + 1 = i
    BY <2>0
  <2> HIDE DEF j, c
  <2>2. n_reg.prev[c[j + 1]] = c[j]
    BY <1>4, <2>1
  <2> QED BY <2>1, <2>2 DEF j
<1> HIDE DEF c
<1>8. List!Linked(h) = c
  BY <1>2 DEF c
<1> QED BY <1>3, <1>5, <1>6, <1>7, <1>8

(* The registers of a class, but for the tails of a list that keeps none.  *)
Mirrors(d, s, z) == z = WithTail(s, z.tail) /\ (d.track_tail => z.tail = s.tail)

ListInv ==
    /\ n_decl \in ListDecls
    /\ \E b, F, C : Shape(n_decl, n_reg, n_held, b, F, C)
    /\ Mirrors(n_decl, n_reg, n_sim)

(* A class that mirrors the circuit agrees with it.                        *)
LEMMA MirrorAgrees ==
    ASSUME Mirrors(n_decl, n_reg, n_sim), Shaped(n_reg)
    PROVE  List!SimAgrees
<1>1. n_sim = WithTail(n_reg, n_sim.tail) /\ (n_decl.track_tail => n_sim.tail = n_reg.tail)
  BY DEF Mirrors
<1> DEFINE z == [n_sim EXCEPT !.tail = n_reg.tail]
<1>2. /\ Shaped(n_sim)
      /\ n_sim.fl_mem = n_reg.fl_mem /\ n_sim.fl_rdp = n_reg.fl_rdp /\ n_sim.fl_wrp = n_reg.fl_wrp
      /\ n_sim.fl_cnt = n_reg.fl_cnt /\ n_sim.next = n_reg.next /\ n_sim.prev = n_reg.prev
      /\ n_sim.head = n_reg.head
      /\ n_sim.length = n_reg.length /\ n_sim.data = n_reg.data /\ n_sim.ctl = n_reg.ctl
  BY <1>1, WithTailFacts
<1>3. /\ Shaped(z) /\ z.tail = n_reg.tail
      /\ z.fl_mem = n_sim.fl_mem /\ z.fl_rdp = n_sim.fl_rdp /\ z.fl_wrp = n_sim.fl_wrp
      /\ z.fl_cnt = n_sim.fl_cnt /\ z.next = n_sim.next /\ z.prev = n_sim.prev
      /\ z.head = n_sim.head
      /\ z.length = n_sim.length /\ z.data = n_sim.data /\ z.ctl = n_sim.ctl
  BY <1>2 DEF Shaped, Fields
<1> HIDE DEF z
<1>4. z = n_reg
  BY <1>2, <1>3, SameRegisters
<1> QED BY <1>1, <1>4 DEF z, List!SimAgrees

(* What the invariant says of the pool, the back links and the class.      *)
LEMMA InvPromises ==
    ASSUME ListsSupported, ListInv
    PROVE  PoolIsExact /\ List!SimAgrees
<1>1. PICK b, F, C : Shape(n_decl, n_reg, n_held, b, F, C)
  BY DEF ListInv
<1>2. n_decl \in ListDecls /\ Mirrors(n_decl, n_reg, n_sim)
  BY DEF ListInv
<1>3. PoolIsExact
  BY <1>1, <1>2, ShapeIsExact, ShapeLinksBack DEF PoolIsExact
<1>4. Shaped(n_reg)
  BY <1>1 DEF Shape, RegsOK
<1> QED BY <1>2, <1>3, <1>4, MirrorAgrees

(* Registers that are cleared.                                             *)
LEMMA ClearedMirrors ==
    ASSUME NEW s, NEW z, Shaped(s), z = WithTail(s, z.tail)
    PROVE  List!Cleared(z) = List!Cleared(s) /\ Mirrors(n_decl, List!Cleared(s), List!Cleared(s))
<1> DEFINE x == List!Cleared(s)
           y == List!Cleared(z)
<1>1. /\ Shaped(z) /\ z.data = s.data /\ z.next = s.next /\ z.prev = s.prev
  BY WithTailFacts
<1>2. ASSUME NEW t, Shaped(t), NEW u, u = List!Cleared(t)
      PROVE   /\ Shaped(u) /\ u.data = t.data /\ u.next = t.next /\ u.prev = t.prev
              /\ u.fl_mem = [i \in List!Handles |-> i] /\ u.fl_rdp = 0 /\ u.fl_wrp = 0
              /\ u.fl_cnt = NODES /\ u.head = [h \in List!Heads |-> 0]
              /\ u.tail = [h \in List!Heads |-> 0] /\ u.length = [h \in List!Heads |-> 0]
              /\ u.ctl = [op \in List!Operations |-> List!Idle]
  BY <1>2 DEF Shaped, Fields, List!Cleared
<1>3. /\ Shaped(x) /\ Shaped(y) /\ x.data = y.data /\ x.next = y.next /\ x.prev = y.prev
      /\ x.fl_mem = y.fl_mem /\ x.fl_rdp = y.fl_rdp /\ x.fl_wrp = y.fl_wrp
      /\ x.fl_cnt = y.fl_cnt /\ x.head = y.head /\ x.tail = y.tail /\ x.length = y.length
      /\ x.ctl = y.ctl
  <2>0. x = List!Cleared(s) /\ y = List!Cleared(z)
    OBVIOUS
  <2> HIDE DEF x, y
  <2>1. /\ Shaped(x) /\ x.data = s.data /\ x.next = s.next /\ x.prev = s.prev
        /\ x.fl_mem = [i \in List!Handles |-> i] /\ x.fl_rdp = 0 /\ x.fl_wrp = 0
        /\ x.fl_cnt = NODES /\ x.head = [h \in List!Heads |-> 0]
        /\ x.tail = [h \in List!Heads |-> 0] /\ x.length = [h \in List!Heads |-> 0]
        /\ x.ctl = [op \in List!Operations |-> List!Idle]
    BY <1>2, <2>0
  <2>2. /\ Shaped(y) /\ y.data = z.data /\ y.next = z.next /\ y.prev = z.prev
        /\ y.fl_mem = [i \in List!Handles |-> i] /\ y.fl_rdp = 0 /\ y.fl_wrp = 0
        /\ y.fl_cnt = NODES /\ y.head = [h \in List!Heads |-> 0]
        /\ y.tail = [h \in List!Heads |-> 0] /\ y.length = [h \in List!Heads |-> 0]
        /\ y.ctl = [op \in List!Operations |-> List!Idle]
    BY <1>1, <1>2, <2>0
  <2> QED BY <1>1, <2>1, <2>2
<1> HIDE DEF x, y
<1>4. x = y
  BY <1>3, SameRegisters
<1> DEFINE w == WithTail(x, x.tail)
<1>5. /\ Shaped(w) /\ w.tail = x.tail
      /\ w.fl_mem = x.fl_mem /\ w.fl_rdp = x.fl_rdp /\ w.fl_wrp = x.fl_wrp
      /\ w.fl_cnt = x.fl_cnt /\ w.next = x.next /\ w.prev = x.prev /\ w.head = x.head
      /\ w.length = x.length /\ w.data = x.data /\ w.ctl = x.ctl
  BY WithTailFacts
<1> HIDE DEF w
<1>6. x = w
  BY <1>3, <1>5, SameRegisters
<1> QED BY <1>4, <1>6 DEF w, x, y, Mirrors

(* The memories at power-up.                                               *)
LEMMA PowerUpShape ==
    ASSUME n_decl \in ListDecls
    PROVE  /\ Shape(n_decl, List!PowerUp, {}, "none", AllFree, NoLists(n_decl))
           /\ Mirrors(n_decl, List!PowerUp, List!PowerUp)
<1> DEFINE zeros == [i \in Nodes |-> 0]
           s == [fl_mem |-> zeros, fl_rdp |-> 0, fl_wrp |-> 0, fl_cnt |-> 0,
                 data |-> [i \in Nodes |-> NoData], next |-> zeros, prev |-> zeros,
                 head |-> 0, tail |-> 0, length |-> 0, ctl |-> 0]
<1>1. List!PowerUp = List!Cleared(s)
  BY DEF List!PowerUp, List!Handles, Nodes
<1>2. Shaped(s)
  BY LiteralIsShaped
<1>3. s.data = [i \in Nodes |-> NoData] /\ s.next = zeros /\ s.prev = zeros
  OBVIOUS
<1> HIDE DEF s
<1>4. zeros \in [Nodes -> Nodes]
  BY PoolAssumption DEF Nodes
<1>5. s.data \in [Nodes -> n_decl.DATA \cup {NoData}]
  BY <1>3
<1>6. Shape(n_decl, List!Cleared(s), {}, "none", AllFree, NoLists(n_decl))
  BY <1>2, <1>3, <1>4, <1>5, ClearedShape
<1> DEFINE w == WithTail(s, s.tail)
<1>7. /\ Shaped(w) /\ w.tail = s.tail
      /\ w.fl_mem = s.fl_mem /\ w.fl_rdp = s.fl_rdp /\ w.fl_wrp = s.fl_wrp
      /\ w.fl_cnt = s.fl_cnt /\ w.next = s.next /\ w.prev = s.prev /\ w.head = s.head
      /\ w.length = s.length /\ w.data = s.data /\ w.ctl = s.ctl
  BY WithTailFacts
<1> HIDE DEF w
<1>8. s = w
  BY <1>2, <1>7, SameRegisters
<1>9. Mirrors(n_decl, List!Cleared(s), List!Cleared(s))
  BY <1>2, <1>8, ClearedMirrors DEF w
<1> QED BY <1>1, <1>6, <1>9

(* Each edge keeps it.                                                     *)
LEMMA EdgeIs ==
    ASSUME n_decl \in ListDecls, Supports(n_decl), NEW F, NEW C, NEW b,
           Shape(n_decl, n_reg, n_held, b, F, C), NEW r \in List!Requests, List!Edge(r)
    PROVE  /\ b = "none" =>
                 /\ n_reg' = Accepted(n_reg, r) /\ n_held' = HandsAfter(n_reg, n_held, r)
                 /\ Shape(n_decl, n_reg', n_held', Begun(n_reg, r), FreeAfter(n_reg, F, r), C)
           /\ b # "none" =>
                 /\ n_reg' = Done(n_reg, b, r) /\ n_held' = n_held
                 /\ Shape(n_decl, n_reg', n_held', "none", FreeDone(n_reg, F, b),
                          ListsDone(n_reg, b, C))
<1>1. /\ Legal(n_decl, n_held, b, C, r) /\ (r.op = "none" \/ Does(n_decl, r.op))
      /\ b # "none" => r.op \in {"none", "write_data", "read_data"}
  BY RequestIsLegal
<1>2. n_reg' = List!Clocked(r, n_reg) /\ n_held' = HandsAfter(n_reg, n_held, r)
  BY DEF List!Edge, HandsAfter
<1>3. CASE b = "none"
  <2>1. /\ Calm(n_reg) /\ Fit(n_reg, r) /\ Shaped(n_reg)
    BY <1>1, <1>3, AtRest
  <2>2. n_reg' = Accepted(n_reg, r)
    BY <1>1, <1>2, <2>1, CalmEdge
  <2>3. Shape(n_decl, Accepted(n_reg, r), HandsAfter(n_reg, n_held, r), Begun(n_reg, r),
              FreeAfter(n_reg, F, r), C)
    BY <1>1, <1>3, AcceptedShape
  <2> QED BY <1>2, <1>3, <2>2, <2>3
<1>4. CASE b # "none"
  <2>1. Ending(n_decl, n_reg, b) /\ OnlyBusy(n_reg, b) /\ Shaped(n_reg)
    BY <1>4, Working
  <2>2. r.op = "none" \/ (r.op \in {"write_data", "read_data"} /\ Does(n_decl, r.op))
    BY <1>1, <1>4
  <2>3. n_reg' = Done(n_reg, b, r)
    BY <1>2, <2>1, <2>2, BusyEdge DEF Done
  <2>4. n_held' = n_held
    BY <1>2, <2>2 DEF HandsAfter
  <2>5. Shape(n_decl, Done(n_reg, b, r), n_held, "none", FreeDone(n_reg, F, b),
              ListsDone(n_reg, b, C))
    BY <1>1, <1>4, DoneShape
  <2> QED BY <1>4, <2>3, <2>4, <2>5
<1> QED BY <1>3, <1>4

(* A call of the class keeps step with an edge of the circuit.             *)
LEMMA EdgeMirrors ==
    ASSUME n_decl \in ListDecls, Supports(n_decl), NEW F, NEW C, NEW b,
           Shape(n_decl, n_reg, n_held, b, F, C), NEW r \in List!Requests, List!Edge(r),
           Mirrors(n_decl, n_reg, n_sim), n_sim' = List!eval_posedge(r, n_sim)
    PROVE  Mirrors(n_decl, n_reg', n_sim')
<1> DEFINE u == n_sim.tail
           z == List!eval_posedge(r, WithTail(n_reg, u))
<1>1. /\ Legal(n_decl, n_held, b, C, r) /\ (r.op = "none" \/ Does(n_decl, r.op))
      /\ b # "none" => r.op \in {"none", "write_data", "read_data"}
  BY RequestIsLegal
<1>2. n_sim = WithTail(n_reg, u) /\ (n_decl.track_tail => u = n_reg.tail)
  BY DEF Mirrors
<1>3. n_sim' = z
  BY <1>2
<1>4. CASE b = "none"
  <2>1. /\ Calm(n_reg) /\ Fit(n_reg, r) /\ Shaped(n_reg)
    BY <1>1, <1>4, AtRest
  <2>2. z = WithTail(Accepted(n_reg, r), u)
    BY <1>1, <2>1, CalmEdge
  <2>3. n_reg' = Accepted(n_reg, r)
    BY <1>4, EdgeIs
  <2>4. z.tail = u /\ Accepted(n_reg, r).tail = n_reg.tail
    <3>1. WithTail(Accepted(n_reg, r), u).tail = u
      BY WithTailFacts
    <3> QED BY <2>2, <3>1 DEF Accepted
  <2> HIDE DEF z, u
  <2> QED BY <1>2, <1>3, <2>2, <2>3, <2>4 DEF Mirrors
<1>5. CASE b # "none"
  <2>1. Ending(n_decl, n_reg, b) /\ OnlyBusy(n_reg, b) /\ Shaped(n_reg)
    BY <1>5, Working
  <2>2. r.op = "none" \/ (r.op \in {"write_data", "read_data"} /\ Does(n_decl, r.op))
    BY <1>1, <1>5
  <2> DEFINE y == Finished(n_decl, n_reg, b, WordsOf(n_reg, r), Ended(n_reg, b, r))
  <2>3. z = WithTail(y, z.tail) /\ (n_decl.track_tail => z.tail = y.tail)
    <3> HIDE DEF u, z
    <3> QED BY <1>2, <2>1, <2>2, SimBusyEdge DEF z
  <2>4. n_reg' = y
    BY <1>5, EdgeIs DEF Done
  <2> HIDE DEF z, y
  <2> QED BY <1>3, <2>3, <2>4 DEF Mirrors
<1> QED BY <1>4, <1>5

(* Every edge and reset of a linked list keeps the invariant.              *)
LEMMA ListStep ==
    ASSUME ListsSupported, ListInv, [List!SimNext]_list_vars
    PROVE  ListInv'
<1>1. PICK b, F, C : Shape(n_decl, n_reg, n_held, b, F, C)
  BY DEF ListInv
<1>2. n_decl \in ListDecls /\ Mirrors(n_decl, n_reg, n_sim) /\ Supports(n_decl)
  BY DEF ListInv, ListsSupported
<1>3. CASE UNCHANGED list_vars
  BY <1>1, <1>2, <1>3 DEF ListInv, list_vars
<1>4. CASE List!Reset /\ n_sim' = List!Cleared(n_sim)
  <2>1. n_decl' = n_decl /\ n_reg' = List!Cleared(n_reg) /\ n_held' = {}
    BY <1>4 DEF List!Reset
  <2>2. /\ Shaped(n_reg) /\ n_reg.data \in [Nodes -> n_decl.DATA \cup {NoData}]
        /\ n_reg.next \in [Nodes -> Nodes] /\ n_reg.prev \in [Nodes -> Nodes]
    BY <1>1 DEF Shape, RegsOK
  <2>3. Shape(n_decl, List!Cleared(n_reg), {}, "none", AllFree, NoLists(n_decl))
    BY <1>2, <2>2, ClearedShape
  <2>4. /\ List!Cleared(n_sim) = List!Cleared(n_reg)
        /\ Mirrors(n_decl, List!Cleared(n_reg), List!Cleared(n_reg))
    BY <1>2, <2>2, ClearedMirrors DEF Mirrors
  <2>5. Mirrors(n_decl', n_reg', n_sim')
    BY <1>4, <2>1, <2>4
  <2>6. Shape(n_decl', n_reg', n_held', "none", AllFree, NoLists(n_decl))
    BY <2>1, <2>3
  <2> QED BY <1>2, <2>1, <2>5, <2>6 DEF ListInv
<1>5. ASSUME NEW r \in List!Requests, List!Edge(r), n_sim' = List!eval_posedge(r, n_sim)
      PROVE  ListInv'
  <2>1. n_decl' = n_decl
    BY <1>5 DEF List!Edge
  <2>2. \E a, G, D : Shape(n_decl, n_reg', n_held', a, G, D)
    <3>1. CASE b = "none"
      <4>1. Shape(n_decl, n_reg', n_held', Begun(n_reg, r), FreeAfter(n_reg, F, r), C)
        BY <1>1, <1>2, <1>5, <3>1, EdgeIs
      <4> QED BY <4>1
    <3>2. CASE b # "none"
      <4>1. Shape(n_decl, n_reg', n_held', "none", FreeDone(n_reg, F, b), ListsDone(n_reg, b, C))
        BY <1>1, <1>2, <1>5, <3>2, EdgeIs
      <4> QED BY <4>1
    <3> QED BY <3>1, <3>2
  <2>3. Mirrors(n_decl, n_reg', n_sim')
    BY <1>1, <1>2, <1>5, EdgeMirrors
  <2> QED BY <1>2, <2>1, <2>2, <2>3 DEF ListInv
<1> QED BY <1>3, <1>4, <1>5 DEF List!SimNext

(* So does every step of a design.                                         *)
LEMMA StorageStep ==
    ASSUME ListsSupported, ListInv, [StorageNext]_<<construct, fifos_vars, list_vars>>
    PROVE  ListInv'
<1>1. [List!SimNext]_list_vars
  BY DEF StorageNext, Queues, Lists
<1> QED BY <1>1, ListStep

(* A design powers up in the invariant.                                    *)
LEMMA StorageInitial ==
    ASSUME StorageInit PROVE ListInv
<1>1. n_decl \in ListDecls /\ n_reg = List!PowerUp /\ n_held = {} /\ n_sim = List!PowerUp
  BY DEF StorageInit, List!SimInit, List!Init
<1> QED BY <1>1, PowerUpShape DEF ListInv

(* Every slot of the pool is in one place: in the free list, in the hands  *)
(* of who called alloc, with an insertion under way or in one list; tail   *)
(* registers and back links, patched an edge late, are those of the lists. *)
THEOREM ListPoolIsExact ==
    ASSUME ListsSupported PROVE StorageSpec => []PoolIsExact
<1>1. StorageInit => ListInv
  BY StorageInitial
<1>2. ListInv /\ [StorageNext]_<<construct, fifos_vars, list_vars>> => ListInv'
  BY StorageStep
<1>3. ListInv => PoolIsExact
  BY InvPromises
<1> QED BY <1>1, <1>2, <1>3, PTL DEF StorageSpec

(* The lists of the specification.                                         *)
PairsOf(s, c) == [i \in 1..Len(c) |-> <<c[i], s.data[c[i]]>>]
View(d, s, D) == [h \in HeadsOf(d) |-> PairsOf(s, D[h])]
ListsNow == [h \in List!Heads |-> List!Pairs(h)]

(* An insertion that got a slot.                                           *)
LEMMA InsertServed ==
    ASSUME NEW L, NEW M, NEW r, NEW at, NEW x, ListsNow = L, ListsNow' = M, n_held' = n_held,
           n_answer' \in {n_answer, NoData}, x \in List!Lists!Fresh,
           M = [L EXCEPT ![r.head] = List!InsertAt(L[r.head], at, <<x, r.data>>)]
    PROVE  List!Lists!Insert(r, at)
<1>1. \A c, k, y : List!Lists!InsertAt(c, k, y) = List!InsertAt(c, k, y)
  BY DEF List!Lists!InsertAt, List!InsertAt
<1>2. ListsNow' = [ListsNow EXCEPT ![r.head] = List!Lists!InsertAt(ListsNow[r.head], at, <<x, r.data>>)]
  BY <1>1
<1>3. List!Lists!Fresh # {}
  OBVIOUS
<1> QED BY <1>2, <1>3 DEF List!Lists!Insert, List!Lists!Quiet, ListsNow

(* An insertion into a full pool.                                          *)
LEMMA InsertWaits ==
    ASSUME NEW r, NEW at, ListsNow' = ListsNow, n_held' = n_held,
           n_answer' \in {n_answer, NoData}, List!Lists!Fresh = {}
    PROVE  List!Lists!Insert(r, at)
  BY DEF List!Lists!Insert, List!Lists!Quiet, ListsNow

(* A deletion that got a node.                                             *)
LEMMA UnlinkServed ==
    ASSUME NEW L, NEW M, NEW r, NEW at, ListsNow = L, ListsNow' = M, n_held' = n_held,
           L[r.head] # <<>>,
           M = [L EXCEPT ![r.head] = List!RemoveAt(L[r.head], at)],
           r.op = "delete_head" => n_answer' = L[r.head][at][2],
           r.op = "delete" => n_answer' \in {n_answer, NoData}
    PROVE  List!Lists!Unlink(r, at)
<1>1. \A c, k : List!Lists!RemoveAt(c, k) = List!RemoveAt(c, k)
  BY DEF List!Lists!RemoveAt, List!RemoveAt
<1>2. ListsNow' = [ListsNow EXCEPT ![r.head] = List!Lists!RemoveAt(ListsNow[r.head], at)]
  BY <1>1
<1> QED BY <1>2 DEF List!Lists!Unlink, List!Lists!Quiet, ListsNow

(* A deletion from an empty list.                                          *)
LEMMA UnlinkWaits ==
    ASSUME NEW r, NEW at, ListsNow' = ListsNow, n_held' = n_held,
           n_answer' \in {n_answer, NoData}, ListsNow[r.head] = <<>>
    PROVE  List!Lists!Unlink(r, at)
  BY DEF List!Lists!Unlink, List!Lists!Quiet, ListsNow

(* An alloc that got a slot.                                               *)
LEMMA AllocServed ==
    ASSUME NEW x, ListsNow' = ListsNow, n_answer' \in {n_answer, NoData},
           x \in List!Lists!Fresh, n_held' = n_held \cup {x}
    PROVE  List!Lists!Alloc
<1>1. List!Lists!Fresh # {}
  OBVIOUS
<1> QED BY <1>1 DEF List!Lists!Alloc, List!Lists!Quiet, ListsNow

(* An alloc from a full pool.                                              *)
LEMMA AllocWaits ==
    ASSUME ListsNow' = ListsNow, n_answer' \in {n_answer, NoData},
           List!Lists!Fresh = {}, n_held' = n_held
    PROVE  List!Lists!Alloc
  BY DEF List!Lists!Alloc, List!Lists!Quiet, ListsNow

Rewritten(L, r) ==
    [h \in DOMAIN L |-> [i \in DOMAIN L[h] |->
        IF L[h][i][1] = r.handle THEN <<r.handle, r.data>> ELSE L[h][i]]]

(* A word is rewritten where its handle is.                                *)
LEMMA WriteServed ==
    ASSUME NEW L, NEW M, NEW r, ListsNow = L, ListsNow' = M, n_held' = n_held,
           n_answer' \in {n_answer, NoData},
           M = Rewritten(L, r)
    PROVE  List!Lists!Write(r)
<1>1. ListsNow' = [h \in DOMAIN ListsNow |-> [i \in DOMAIN ListsNow[h] |->
          IF ListsNow[h][i][1] = r.handle THEN <<r.handle, r.data>> ELSE ListsNow[h][i]]]
  BY DEF Rewritten
<1> QED BY <1>1 DEF List!Lists!Write, List!Lists!Quiet, ListsNow

(* A word or a neighbour is read where the handle is.                      *)
LEMMA LookServed ==
    ASSUME NEW L, NEW r, NEW h, NEW k, ListsNow = L, ListsNow' = L, n_held' = n_held,
           n_answer' \in {n_answer, NoData}, h \in DOMAIN L, k \in DOMAIN L[h],
           L[h][k][1] = r.handle, List!Lists!PositionOf(r.handle, L[h]) = k,
           r.op \in {"read_data", "next", "prev"},
           r.op = "read_data" => n_reading' = L[h][k][2],
           r.op = "next" => n_reading' = L[h][k + 1][1],
           r.op = "prev" => n_reading' = L[h][k - 1][1]
    PROVE  List!Lists!Look(r)
<1>1. r.handle \in List!Lists!HandlesOf(L[h])
  BY DEF List!Lists!HandlesOf
<1>2. n_reading' = CASE r.op = "read_data" -> L[h][k][2]
                     [] r.op = "next"      -> L[h][k + 1][1]
                     [] r.op = "prev"      -> L[h][k - 1][1]
  OBVIOUS
<1>3. \E g \in DOMAIN L :
          /\ r.handle \in List!Lists!HandlesOf(L[g])
          /\ LET i == List!Lists!PositionOf(r.handle, L[g])
             IN  n_reading' = CASE r.op = "read_data" -> L[g][i][2]
                                [] r.op = "next"      -> L[g][i + 1][1]
                                [] r.op = "prev"      -> L[g][i - 1][1]
  BY <1>1, <1>2
<1> QED BY <1>3 DEF List!Lists!Look, List!Lists!Quiet, ListsNow

(* A list seen with its words.                                             *)
LEMMA PairsAre ==
    ASSUME NEW S, NEW c \in Seq(S), NEW s
    PROVE  /\ DOMAIN PairsOf(s, c) = 1..Len(c) /\ Len(PairsOf(s, c)) = Len(c)
           /\ \A i \in 1..Len(c) : PairsOf(s, c)[i] = <<c[i], s.data[c[i]]>>
<1> DEFINE z == PairsOf(s, c)
           n == Len(c)
<1>1. n \in Nat
  OBVIOUS
<1>2. DOMAIN z = 1..n /\ \A i \in 1..n : z[i] = <<c[i], s.data[c[i]]>>
  BY DEF PairsOf
<1> HIDE DEF z, n
<1>3. Len(z) = n
  BY <1>1, <1>2
<1> QED BY <1>2, <1>3 DEF z, n

(* It is a sequence of pairs.                                              *)
LEMMA PairsSeq ==
    ASSUME NEW S, NEW c \in Seq(S), NEW s, NEW T, \A i \in 1..Len(c) : <<c[i], s.data[c[i]]>> \in T
    PROVE  PairsOf(s, c) \in Seq(T)
<1> DEFINE z == PairsOf(s, c)
           n == Len(c)
<1>1. n \in Nat
  OBVIOUS
<1>2. z \in [1..n -> T]
  BY DEF PairsOf
<1> HIDE DEF z, n
<1>3. z \in Seq(T)
  BY <1>1, <1>2, SeqDef
<1> QED BY <1>3 DEF z

(* A handle has one position in it.                                        *)
LEMMA PositionIs ==
    ASSUME NEW S, NEW c \in Seq(S), NEW s, Once(c), NEW k \in 1..Len(c)
    PROVE  List!Lists!PositionOf(c[k], PairsOf(s, c)) = k
<1>1. DOMAIN PairsOf(s, c) = 1..Len(c) /\ \A i \in 1..Len(c) : PairsOf(s, c)[i][1] = c[i]
  BY PairsAre
<1>2. \A i \in 1..Len(c) : c[i] = c[k] => i = k
  BY DEF Once
<1>3. \A i \in DOMAIN PairsOf(s, c) : PairsOf(s, c)[i][1] = c[k] <=> i = k
  BY <1>1, <1>2
<1>4. k \in DOMAIN PairsOf(s, c)
  BY <1>1
<1> QED BY <1>3, <1>4 DEF List!Lists!PositionOf

(* It only depends on the words of its own nodes.                          *)
LEMMA PairsSame ==
    ASSUME NEW c, NEW s, NEW t, \A i \in 1..Len(c) : s.data[c[i]] = t.data[c[i]]
    PROVE  PairsOf(s, c) = PairsOf(t, c)
BY DEF PairsOf

(* A node put in is seen as a pair put in.                                 *)
LEMMA PairsIns ==
    ASSUME NEW c \in Seq(Nodes), NEW x \in Nodes, NEW k \in 1..(Len(c) + 1), NEW s, NEW t, NEW v,
           ~In(x, c), t.data[x] = v, \A y \in Nodes : y # x => t.data[y] = s.data[y]
    PROVE  PairsOf(t, Ins(c, k, x)) = List!InsertAt(PairsOf(s, c), k, <<x, v>>)
<1> DEFINE n == Len(c)
           e == Ins(c, k, x)
           p == PairsOf(s, c)
           q == PairsOf(t, e)
           S == {<<c[i], s.data[c[i]]>> : i \in 1..n} \cup {<<x, v>>}
           z == Ins(p, k, <<x, v>>)
<1>1. /\ e \in Seq(Nodes) /\ Len(e) = n + 1 /\ n \in Nat
      /\ \A i \in 1..(n + 1) : e[i] = IF i < k THEN c[i] ELSE IF i = k THEN x ELSE c[i - 1]
  BY InsFacts
<1>2. DOMAIN p = 1..n /\ Len(p) = n /\ \A i \in 1..n : p[i] = <<c[i], s.data[c[i]]>>
  BY PairsAre
<1>3. p \in Seq(S)
  <2>1. \A i \in 1..Len(c) : <<c[i], s.data[c[i]]>> \in S
    OBVIOUS
  <2> HIDE DEF S
  <2> QED BY <2>1, PairsSeq
<1>4. /\ DOMAIN q = 1..(n + 1) /\ Len(q) = n + 1
      /\ \A i \in 1..(n + 1) : q[i] = <<e[i], t.data[e[i]]>>
  <2> HIDE DEF e
  <2>1. e \in Seq(Nodes) /\ Len(e) = n + 1
    BY <1>1
  <2> HIDE DEF n
  <2>2. /\ DOMAIN PairsOf(t, e) = 1..Len(e) /\ Len(PairsOf(t, e)) = Len(e)
        /\ \A i \in 1..Len(e) : PairsOf(t, e)[i] = <<e[i], t.data[e[i]]>>
    <3>1. e \in Seq(Nodes)
      BY <2>1
    <3> QED BY <3>1, PairsAre
  <2> QED BY <2>1, <2>2
<1>5. \A i \in 1..n : c[i] \in Nodes /\ c[i] # x /\ t.data[c[i]] = s.data[c[i]]
  BY DEF In
<1>6. <<x, v>> \in S /\ k \in 1..(Len(p) + 1)
  BY <1>2
<1> HIDE DEF S, p
<1>7. /\ z \in Seq(S) /\ Len(z) = n + 1
      /\ \A i \in 1..(n + 1) : z[i] = IF i < k THEN p[i] ELSE IF i = k THEN <<x, v>> ELSE p[i - 1]
  <2> DEFINE w == <<x, v>>
  <2>1. Len(p) = n /\ w \in S
    BY <1>2, <1>6
  <2> HIDE DEF w, n
  <2>2. /\ Ins(p, k, w) \in Seq(S) /\ Len(Ins(p, k, w)) = Len(p) + 1
        /\ \A i \in 1..(Len(p) + 1) :
               Ins(p, k, w)[i] = IF i < k THEN p[i] ELSE IF i = k THEN w ELSE p[i - 1]
    <3>1. p \in Seq(S) /\ w \in S /\ k \in 1..(Len(p) + 1)
      BY <1>3, <1>6, <2>1
    <3> QED BY <3>1, InsIs, SMTT(180)
  <2> QED BY <2>1, <2>2 DEF w
<1>8. List!InsertAt(p, k, <<x, v>>) = z
  BY <1>3, <1>6, InsertIs
<1> HIDE DEF e, z, q, n
<1>9. ASSUME NEW i \in 1..(n + 1) PROVE z[i] = q[i]
  <2>1. q[i] = <<e[i], t.data[e[i]]>> /\ k \in Int /\ i \in Int
    BY <1>1, <1>4
  <2>2. CASE i < k
    <3>1. i \in 1..n
      BY <1>1, <2>2 DEF n
    <3>2. e[i] = c[i] /\ z[i] = p[i]
      BY <1>1, <1>7, <2>2
    <3> QED BY <1>2, <1>5, <2>1, <3>1, <3>2
  <2>3. CASE i = k
    <3>1. e[i] = x /\ z[i] = <<x, v>>
      BY <1>1, <1>7, <2>1, <2>3
    <3> QED BY <2>1, <3>1
  <2>4. CASE i > k
    <3>1. i - 1 \in 1..n
      BY <1>1, <2>1, <2>4
    <3>2. e[i] = c[i - 1] /\ z[i] = p[i - 1]
      BY <1>1, <1>7, <2>1, <2>4
    <3> QED BY <1>2, <1>5, <2>1, <3>1, <3>2, SMTT(30)
  <2> QED BY <2>1, <2>2, <2>3, <2>4
<1>10. z = q
  <2>1. DOMAIN z = 1..(n + 1) /\ z = [i \in DOMAIN z |-> z[i]]
    BY <1>7
  <2>2. q = [i \in DOMAIN q |-> q[i]]
    BY DEF q, PairsOf
  <2> QED BY <1>4, <1>9, <2>1, <2>2
<1> QED BY <1>8, <1>10 DEF p, q, e

(* A node taken out is seen as a pair taken out.                           *)
LEMMA PairsDel ==
    ASSUME NEW c \in Seq(Nodes), NEW k \in 1..Len(c), NEW s
    PROVE  PairsOf(s, Del(c, k)) = List!RemoveAt(PairsOf(s, c), k)
<1> DEFINE n == Len(c)
           e == Del(c, k)
           p == PairsOf(s, c)
           q == PairsOf(s, e)
           S == {<<c[i], s.data[c[i]]>> : i \in 1..n}
           z == Del(p, k)
<1>1. /\ e \in Seq(Nodes) /\ Len(e) = n - 1 /\ n \in Nat
      /\ \A i \in 1..(n - 1) : e[i] = IF i < k THEN c[i] ELSE c[i + 1]
  BY DelFacts
<1>2. /\ p \in Seq(S) /\ DOMAIN p = 1..n /\ Len(p) = n
      /\ \A i \in 1..n : p[i] = <<c[i], s.data[c[i]]>>
  <2>1. \A i \in 1..Len(c) : <<c[i], s.data[c[i]]>> \in S
    OBVIOUS
  <2> HIDE DEF S
  <2>2. p \in Seq(S)
    BY <2>1, PairsSeq
  <2>3. /\ DOMAIN p = 1..n /\ Len(p) = n
        /\ \A i \in 1..n : p[i] = <<c[i], s.data[c[i]]>>
    BY PairsAre
  <2> QED BY <2>2, <2>3
<1>3. /\ DOMAIN q = 1..(n - 1) /\ Len(q) = n - 1
      /\ \A i \in 1..(n - 1) : q[i] = <<e[i], s.data[e[i]]>>
  <2> HIDE DEF e
  <2>1. e \in Seq(Nodes) /\ Len(e) = n - 1
    BY <1>1
  <2> HIDE DEF n
  <2>2. /\ DOMAIN PairsOf(s, e) = 1..Len(e) /\ Len(PairsOf(s, e)) = Len(e)
        /\ \A i \in 1..Len(e) : PairsOf(s, e)[i] = <<e[i], s.data[e[i]]>>
    <3>1. e \in Seq(Nodes)
      BY <2>1
    <3> QED BY <3>1, PairsAre
  <2> QED BY <2>1, <2>2
<1>4. k \in 1..Len(p)
  BY <1>2
<1> HIDE DEF S, p
<1>5. /\ z \in Seq(S) /\ Len(z) = n - 1
      /\ \A i \in 1..(n - 1) : z[i] = IF i < k THEN p[i] ELSE p[i + 1]
  <2>1. Len(p) = n /\ p \in Seq(S)
    BY <1>2
  <2> HIDE DEF n
  <2>2. /\ Del(p, k) \in Seq(S) /\ Len(Del(p, k)) = Len(p) - 1
        /\ \A i \in 1..(Len(p) - 1) : Del(p, k)[i] = IF i < k THEN p[i] ELSE p[i + 1]
    <3>1. p \in Seq(S) /\ k \in 1..Len(p)
      BY <1>4, <2>1
    <3> QED BY <3>1, DelFacts
  <2> QED BY <2>1, <2>2
<1>6. List!RemoveAt(p, k) = z
  BY <1>2, <1>4, RemoveIs
<1> HIDE DEF e, z, q
<1>7. ASSUME NEW i \in 1..(n - 1) PROVE z[i] = q[i]
  <2>0. i \in 1..n /\ i + 1 \in 1..n
    BY <1>1
  <2>1. q[i] = <<e[i], s.data[e[i]]>>
    BY <1>3
  <2> HIDE DEF n
  <2>2. CASE i < k
    <3>2. e[i] = c[i] /\ z[i] = p[i]
      BY <1>1, <1>5, <2>2
    <3> QED BY <1>2, <2>0, <2>1, <3>2
  <2>3. CASE ~(i < k)
    <3>2. e[i] = c[i + 1] /\ z[i] = p[i + 1]
      BY <1>1, <1>5, <2>3
    <3> QED BY <1>2, <2>0, <2>1, <3>2
  <2> QED BY <2>2, <2>3
<1> HIDE DEF n
<1>8. z = q
  <2>1. DOMAIN z = 1..(n - 1) /\ z = [i \in DOMAIN z |-> z[i]]
    BY <1>5
  <2>2. q = [i \in DOMAIN q |-> q[i]]
    BY DEF q, PairsOf
  <2> QED BY <1>3, <1>7, <2>1, <2>2
<1> QED BY <1>6, <1>8 DEF p, q, e

(* What the specification sees of the registers.                           *)
Seen == \A b, F, C : Shape(n_decl, n_reg, n_held, b, F, C) =>
            ListsNow = View(n_decl, n_reg, ListsDone(n_reg, b, C))

(* The lists of the specification are those that the invariant names.      *)
LEMMA ListsAreSeen ==
    ASSUME ListsSupported, n_decl \in ListDecls
    PROVE  Seen
<1> SUFFICES ASSUME NEW b, NEW F, NEW C, Shape(n_decl, n_reg, n_held, b, F, C)
             PROVE  ListsNow = View(n_decl, n_reg, ListsDone(n_reg, b, C))
  BY DEF Seen
<1>1. Supports(n_decl)
  BY DEF ListsSupported
<1> DEFINE D == ListsDone(n_reg, b, C)
<1>2. \A h \in HeadsOf(n_decl) : List!Chain(h) = D[h]
  BY <1>1, ChainIs
<1> HIDE DEF D
<1>3. \A h \in HeadsOf(n_decl) : List!Pairs(h) = PairsOf(n_reg, D[h])
  BY <1>2 DEF List!Pairs, PairsOf
<1>4. List!Heads = HeadsOf(n_decl)
  BY DEF List!Heads, HeadsOf
<1> QED BY <1>3, <1>4 DEF ListsNow, View, D

(* Their handles are the nodes of the lists.                               *)
LEMMA HandlesAre ==
    ASSUME NEW c \in Seq(Nodes), NEW s
    PROVE  List!Lists!HandlesOf(PairsOf(s, c)) = Members(c)
<1>1. DOMAIN PairsOf(s, c) = 1..Len(c) /\ \A i \in 1..Len(c) : PairsOf(s, c)[i][1] = c[i]
  BY PairsAre
<1> QED BY <1>1 DEF List!Lists!HandlesOf, Members

(* The free slots, while no operation is under way.                        *)
LEMMA FreshAre ==
    ASSUME ListsSupported, n_decl \in ListDecls, NEW F, NEW C,
           Shape(n_decl, n_reg, n_held, "none", F, C)
    PROVE  /\ \A x : x \in List!Lists!Fresh <=> In(x, F)
           /\ n_reg.fl_cnt = 0 => List!Lists!Fresh = {}
           /\ n_reg.fl_cnt # 0 => List!Slot(n_reg) \in List!Lists!Fresh
<1>1. ListsNow = View(n_decl, n_reg, C)
  BY ListsAreSeen DEF Seen, ListsDone
<1>2. /\ F \in Seq(Nodes) /\ C \in [HeadsOf(n_decl) -> Seq(Nodes)] /\ n_held \subseteq Nodes
      /\ ShareOK(n_decl, F, n_held, {}, C) /\ RingOK(n_reg, F) /\ RegsOK(n_decl, n_reg)
  BY ShapeAtRest DEF RingOK
<1>3. DOMAIN ListsNow = HeadsOf(n_decl)
      /\ \A h \in HeadsOf(n_decl) : List!Lists!HandlesOf(ListsNow[h]) = Members(C[h])
  <2>1. \A h \in HeadsOf(n_decl) : ListsNow[h] = PairsOf(n_reg, C[h]) /\ C[h] \in Seq(Nodes)
    BY <1>1, <1>2 DEF View
  <2>2. DOMAIN ListsNow = HeadsOf(n_decl)
    BY <1>1 DEF View
  <2> QED BY <2>1, <2>2, HandlesAre
<1>4. List!Lists!Fresh = Nodes \ (n_held \cup UNION {List!Lists!HandlesOf(ListsNow[h]) : h \in DOMAIN ListsNow})
  BY DEF List!Lists!Fresh, List!Lists!InUse, ListsNow, Nodes
<1>5. \A h \in HeadsOf(n_decl) : \A x : x \in Members(C[h]) <=> In(x, C[h])
  BY <1>2, OnceCard DEF ShareOK
<1>6. \A x : x \in List!Lists!Fresh <=>
                x \in Nodes /\ x \notin n_held /\ \A h \in HeadsOf(n_decl) : ~In(x, C[h])
  BY <1>3, <1>4, <1>5
<1>7. \A x : In(x, F) => x \in Nodes
  BY <1>2 DEF In
<1>8. \A x : x \in List!Lists!Fresh <=> In(x, F)
  <2>1. \A x \in Nodes : In(x, F) => x \notin n_held /\ \A h \in HeadsOf(n_decl) : ~In(x, C[h])
    BY <1>2 DEF ShareOK
  <2>2. \A x \in Nodes : In(x, F) \/ x \in n_held \/ \E h \in HeadsOf(n_decl) : In(x, C[h])
    BY <1>2 DEF ShareOK
  <2> QED BY <1>6, <1>7, <2>1, <2>2
<1>9. Len(F) = n_reg.fl_cnt /\ n_reg.fl_cnt \in 0..NODES
  BY <1>2 DEF RingOK, RegsOK
<1>10. n_reg.fl_cnt = 0 => List!Lists!Fresh = {}
  BY <1>8, <1>9 DEF In
<1>11. ASSUME n_reg.fl_cnt # 0 PROVE In(List!Slot(n_reg), F)
  <2>1. 1 \in 1..Len(F) /\ NODES \in Nat
    BY <1>9, <1>11, PoolAssumption
  <2>2. F[1] = n_reg.fl_mem[RingAt(n_reg.fl_rdp % NODES, 1 - 1)]
    BY <1>2, <2>1 DEF RingOK
  <2>3. n_reg.fl_rdp % NODES \in Nodes
    BY <1>2, NextPointer DEF RegsOK
  <2>4. RingAt(n_reg.fl_rdp % NODES, 1 - 1) = n_reg.fl_rdp % NODES
    <3> DEFINE m == n_reg.fl_rdp % NODES
    <3>1. m \in 0..(NODES - 1)
      BY <2>3 DEF Nodes
    <3> HIDE DEF m
    <3>2. RingAt(m, 1 - 1) = m
      BY <2>1, <3>1 DEF RingAt
    <3> QED BY <3>2 DEF m
  <2> QED BY <2>1, <2>2, <2>4 DEF In, List!Slot
<1> QED BY <1>8, <1>10, <1>11

Calmly == n_answer' \in {n_answer, NoData}

(* The arm of each request.                                                *)
LEMMA ServeIs ==
    ASSUME NEW r
    PROVE  /\ r.op = "insert_head" /\ List!Lists!Insert(r, 1) => List!Lists!Serve(r)
           /\ r.op = "insert_tail" /\ List!Lists!Insert(r, Len(ListsNow[r.head]) + 1) =>
                 List!Lists!Serve(r)
           /\ r.op = "insert_after"
              /\ List!Lists!Insert(r, List!Lists!PositionOf(r.handle, ListsNow[r.head]) + 1) =>
                 List!Lists!Serve(r)
           /\ r.op = "delete_head" /\ List!Lists!Unlink(r, 1) => List!Lists!Serve(r)
           /\ r.op = "delete"
              /\ List!Lists!Unlink(r, List!Lists!PositionOf(r.handle, ListsNow[r.head])) =>
                 List!Lists!Serve(r)
           /\ r.op = "write_data" /\ List!Lists!Write(r) => List!Lists!Serve(r)
           /\ r.op = "alloc" /\ List!Lists!Alloc => List!Lists!Serve(r)
           /\ r.op = "free" /\ n_held' = n_held \ {r.handle} /\ ListsNow' = ListsNow /\ Calmly =>
                 List!Lists!Serve(r)
           /\ r.op = "none" /\ n_held' = n_held /\ ListsNow' = ListsNow /\ Calmly =>
                 List!Lists!Serve(r)
           /\ r.op = "reset" /\ n_held' = {} /\ n_answer' = NoData
              /\ ListsNow' = [h \in DOMAIN ListsNow |-> <<>>] => List!Lists!Serve(r)
           /\ r.op \in {"read_data", "next", "prev"} /\ List!Lists!Look(r) => List!Lists!Serve(r)
<1>1. ASSUME r.op = "insert_head", List!Lists!Insert(r, 1) PROVE List!Lists!Serve(r)
  BY <1>1 DEF List!Lists!Serve
<1>2. ASSUME r.op = "insert_tail", List!Lists!Insert(r, Len(ListsNow[r.head]) + 1)
      PROVE  List!Lists!Serve(r)
  BY <1>2 DEF List!Lists!Serve, ListsNow
<1>3. ASSUME r.op = "insert_after",
             List!Lists!Insert(r, List!Lists!PositionOf(r.handle, ListsNow[r.head]) + 1)
      PROVE  List!Lists!Serve(r)
  BY <1>3 DEF List!Lists!Serve, ListsNow
<1>4. ASSUME r.op = "delete_head", List!Lists!Unlink(r, 1) PROVE List!Lists!Serve(r)
  BY <1>4 DEF List!Lists!Serve
<1>5. ASSUME r.op = "delete",
             List!Lists!Unlink(r, List!Lists!PositionOf(r.handle, ListsNow[r.head]))
      PROVE  List!Lists!Serve(r)
  BY <1>5 DEF List!Lists!Serve, ListsNow
<1>6. ASSUME r.op = "write_data", List!Lists!Write(r) PROVE List!Lists!Serve(r)
  BY <1>6 DEF List!Lists!Serve
<1>7. ASSUME r.op = "alloc", List!Lists!Alloc PROVE List!Lists!Serve(r)
  BY <1>7 DEF List!Lists!Serve
<1>8. ASSUME r.op = "free", n_held' = n_held \ {r.handle}, ListsNow' = ListsNow, Calmly
      PROVE  List!Lists!Serve(r)
  BY <1>8 DEF List!Lists!Serve, List!Lists!Quiet, Calmly, ListsNow
<1>9. ASSUME r.op = "none", n_held' = n_held, ListsNow' = ListsNow, Calmly
      PROVE  List!Lists!Serve(r)
  BY <1>9 DEF List!Lists!Serve, List!Lists!Quiet, Calmly, ListsNow
<1>10. ASSUME r.op = "reset", n_held' = {}, n_answer' = NoData,
              ListsNow' = [h \in DOMAIN ListsNow |-> <<>>]
       PROVE  List!Lists!Serve(r)
  BY <1>10 DEF List!Lists!Serve, ListsNow
<1>11. ASSUME r.op \in {"read_data", "next", "prev"}, List!Lists!Look(r)
       PROVE  List!Lists!Serve(r)
  BY <1>11 DEF List!Lists!Serve
<1> QED BY <1>1, <1>2, <1>3, <1>4, <1>5, <1>6, <1>7, <1>8, <1>9, <1>10, <1>11

(* The first free slot.                                                    *)
LEMMA SlotIsFree ==
    ASSUME n_decl \in ListDecls, NEW s, NEW H, NEW F, NEW C, Shape(n_decl, s, H, "none", F, C),
           s.fl_cnt # 0
    PROVE  /\ List!Slot(s) \in Nodes /\ In(List!Slot(s), F)
           /\ \A h \in HeadsOf(n_decl) : ~In(List!Slot(s), C[h])
<1>1. RegsOK(n_decl, s) /\ RingOK(s, F) /\ ShareOK(n_decl, F, H, {}, C)
  BY ShapeAtRest
<1>2. /\ Len(F) = s.fl_cnt /\ s.fl_cnt \in 0..NODES /\ s.fl_mem \in [Nodes -> Nodes]
      /\ s.fl_rdp \in Pointers
  BY <1>1 DEF RingOK, RegsOK
<1>3. 1 \in 1..Len(F) /\ NODES \in Nat
  BY <1>2, PoolAssumption
<1>4. F[1] = s.fl_mem[RingAt(s.fl_rdp % NODES, 1 - 1)]
  BY <1>1, <1>3 DEF RingOK
<1>5. s.fl_rdp % NODES \in Nodes
  BY <1>2, NextPointer
<1>6. RingAt(s.fl_rdp % NODES, 1 - 1) = s.fl_rdp % NODES
  <2> DEFINE m == s.fl_rdp % NODES
  <2>1. m \in 0..(NODES - 1)
    BY <1>5 DEF Nodes
  <2> HIDE DEF m
  <2>2. RingAt(m, 1 - 1) = m
    BY <1>3, <2>1 DEF RingAt
  <2> QED BY <2>2 DEF m
<1>7. List!Slot(s) \in Nodes /\ In(List!Slot(s), F)
  BY <1>2, <1>3, <1>4, <1>5, <1>6 DEF In, List!Slot
<1> QED BY <1>1, <1>7 DEF ShareOK

(* The lists once an insertion is accepted.                                *)
LEMMA InsertionView ==
    ASSUME n_decl \in ListDecls, NEW s, NEW H, NEW F, NEW C, NEW r,
           Shape(n_decl, s, H, "none", F, C), Legal(n_decl, H, "none", C, r),
           r.op \in List!Insertions, s.fl_cnt # 0, NEW k \in 1..(Len(C[r.head]) + 1),
           Grown(Accepted(s, r), r.op, C[r.head]) = Ins(C[r.head], k, List!Slot(s))
    PROVE  View(n_decl, Accepted(s, r), ListsDone(Accepted(s, r), r.op, C)) =
              [View(n_decl, s, C) EXCEPT
                  ![r.head] = List!InsertAt(View(n_decl, s, C)[r.head], k,
                                            <<List!Slot(s), r.data>>)]
<1> DEFINE t == Accepted(s, r)
           x == List!Slot(s)
           h == r.head
           D == ListsDone(t, r.op, C)
<1>1. /\ r.op \in Structure /\ r.op \in List!Operations /\ r.op # "none" /\ r.op # "alloc"
      /\ r.op # "free" /\ r.op # "write_data" /\ Takes(s, r)
      /\ r.op # "delete_head" /\ r.op # "delete" /\ r.op \notin List!Reads
  BY DEF List!Insertions, Structure, List!Operations, Takes, List!Reads
<1>2. h \in HeadsOf(n_decl)
  BY <1>1 DEF Legal
<1>3. C \in [HeadsOf(n_decl) -> Seq(Nodes)] /\ RegsOK(n_decl, s)
  BY ShapeAtRest
<1>4. s.data \in [Nodes -> n_decl.DATA \cup {NoData}]
  BY <1>3 DEF RegsOK
<1>5. t.data = [s.data EXCEPT ![x] = r.data]
  BY <1>1 DEF Accepted
<1>6. x \in Nodes /\ \A g \in HeadsOf(n_decl) : ~In(x, C[g])
  BY SlotIsFree
<1>7. t.ctl[r.op].head = h
  <2>1. t.ctl[r.op] = Latch(s, r)
    BY <1>1 DEF Accepted
  <2>2. Latch(s, r) = [phase |-> "busy", handle |-> List!Slot(s), head |-> r.head,
                       was_empty |-> List!IsEmpty(s, r.head),
                       after |-> IF r.op = "insert_after" THEN r.handle ELSE 0]
    BY <1>1 DEF Latch
  <2> QED BY <2>1, <2>2
<1> HIDE DEF t, x
<1>8. D = [C EXCEPT ![h] = Ins(C[h], k, x)]
  BY <1>1, <1>7 DEF ListsDone, t, x
<1> HIDE DEF D, h
<1>9. \A y \in Nodes : t.data[y] = IF y = x THEN r.data ELSE s.data[y]
  BY <1>4, <1>5, <1>6
<1>10. PairsOf(t, D[h]) = List!InsertAt(PairsOf(s, C[h]), k, <<x, r.data>>)
  <2> DEFINE c == C[h]
             v == r.data
  <2>1. c \in Seq(Nodes) /\ ~In(x, c) /\ k \in 1..(Len(c) + 1)
    BY <1>2, <1>3, <1>6 DEF h
  <2>2. D[h] = Ins(c, k, x)
    BY <1>2, <1>3, <1>8
  <2> HIDE DEF c, v
  <2>3. PairsOf(t, Ins(c, k, x)) = List!InsertAt(PairsOf(s, c), k, <<x, v>>)
    <3>1. x \in Nodes
      BY <1>6
    <3>2. t.data[x] = v /\ \A y \in Nodes : y # x => t.data[y] = s.data[y]
      BY <1>9, <3>1 DEF v
    <3> QED BY <2>1, <3>1, <3>2, PairsIns
  <2> QED BY <2>2, <2>3 DEF c, v
<1>11. ASSUME NEW g \in HeadsOf(n_decl), g # h PROVE PairsOf(t, D[g]) = PairsOf(s, C[g])
  <2>1. D[g] = C[g] /\ C[g] \in Seq(Nodes) /\ ~In(x, C[g])
    BY <1>3, <1>6, <1>8, <1>11
  <2>2. \A i \in 1..Len(C[g]) : C[g][i] \in Nodes /\ C[g][i] # x
    BY <2>1 DEF In
  <2>3. \A i \in 1..Len(C[g]) : t.data[C[g][i]] = s.data[C[g][i]]
    BY <1>9, <2>2
  <2> QED BY <2>1, <2>3, PairsSame
<1>12. View(n_decl, t, D) =
          [View(n_decl, s, C) EXCEPT ![h] = List!InsertAt(View(n_decl, s, C)[h], k, <<x, r.data>>)]
  BY <1>2, <1>10, <1>11 DEF View, h
<1> QED BY <1>12 DEF t, x, D, h

(* The lists once a deletion is accepted.                                  *)
LEMMA DeletionView ==
    ASSUME n_decl \in ListDecls, NEW s, NEW H, NEW F, NEW C, NEW r,
           Shape(n_decl, s, H, "none", F, C), Legal(n_decl, H, "none", C, r),
           r.op \in Deletions, Begun(s, r) = r.op, NEW k \in 1..Len(C[r.head]),
           Grown(Accepted(s, r), r.op, C[r.head]) = Del(C[r.head], k)
    PROVE  View(n_decl, Accepted(s, r), ListsDone(Accepted(s, r), r.op, C)) =
              [View(n_decl, s, C) EXCEPT
                  ![r.head] = List!RemoveAt(View(n_decl, s, C)[r.head], k)]
<1> DEFINE t == Accepted(s, r)
           h == r.head
           D == ListsDone(t, r.op, C)
<1>1. /\ r.op \in Structure /\ r.op \in List!Operations /\ r.op # "none" /\ r.op # "alloc"
      /\ r.op # "free" /\ r.op # "write_data" /\ r.op \notin List!Insertions /\ ~Takes(s, r)
  BY DEF List!Insertions, Structure, List!Operations, Takes, Deletions
<1>2. h \in HeadsOf(n_decl)
  BY <1>1 DEF Legal
<1>3. C \in [HeadsOf(n_decl) -> Seq(Nodes)]
  BY ShapeAtRest
<1>5. t.data = s.data
  BY <1>1 DEF Accepted
<1>7. t.ctl[r.op].head = h
  <2>1. t.ctl[r.op] = Latch(s, r)
    BY <1>1 DEF Accepted
  <2>2. CASE r.op = "delete_head"
    <3>1. ~List!IsEmpty(s, r.head)
      BY <1>1, <2>2 DEF Begun
    <3>2. Latch(s, r) = [phase |-> "busy", handle |-> s.head[r.head], head |-> r.head]
      BY <1>1, <2>2, <3>1 DEF Latch, List!Reads
    <3> QED BY <2>1, <3>2
  <2>3. CASE r.op = "delete"
    <3>2. Latch(s, r) = [phase |-> "busy", handle |-> r.handle, head |-> r.head]
      BY <1>1, <2>3 DEF Latch, List!Reads
    <3> QED BY <2>1, <3>2
  <2> QED BY <2>2, <2>3 DEF Deletions
<1> HIDE DEF t
<1>8. D = [C EXCEPT ![h] = Del(C[h], k)]
  BY <1>1, <1>7 DEF ListsDone, t
<1> HIDE DEF D, h
<1>10. PairsOf(t, D[h]) = List!RemoveAt(PairsOf(s, C[h]), k)
  <2> DEFINE c == C[h]
  <2>1. c \in Seq(Nodes) /\ k \in 1..Len(c)
    BY <1>2, <1>3 DEF h
  <2>2. D[h] = Del(c, k)
    BY <1>2, <1>3, <1>8
  <2> HIDE DEF c
  <2>3. PairsOf(t, Del(c, k)) = PairsOf(s, Del(c, k))
    BY <1>5 DEF PairsOf
  <2>4. PairsOf(s, Del(c, k)) = List!RemoveAt(PairsOf(s, c), k)
    BY <2>1, PairsDel
  <2> QED BY <2>2, <2>3, <2>4 DEF c
<1>11. ASSUME NEW g \in HeadsOf(n_decl), g # h PROVE PairsOf(t, D[g]) = PairsOf(s, C[g])
  <2>1. D[g] = C[g]
    BY <1>3, <1>8, <1>11
  <2> QED BY <1>5, <2>1 DEF PairsOf
<1>12. View(n_decl, t, D) =
          [View(n_decl, s, C) EXCEPT ![h] = List!RemoveAt(View(n_decl, s, C)[h], k)]
  BY <1>2, <1>10, <1>11 DEF View, h
<1> QED BY <1>12 DEF t, D, h

(* A word that is rewritten.                                               *)
LEMMA WrittenView ==
    ASSUME NEW s, NEW t, NEW D, NEW r, NEW L, D \in [HeadsOf(n_decl) -> Seq(Nodes)],
           \A y \in Nodes : y # r.handle => t.data[y] = s.data[y],
           r.handle \in Nodes => t.data[r.handle] = r.data, L = View(n_decl, s, D)
    PROVE  View(n_decl, t, D) = Rewritten(L, r)
<1> DEFINE M == View(n_decl, t, D)
           R(h) == [i \in DOMAIN L[h] |->
                      IF L[h][i][1] = r.handle THEN <<r.handle, r.data>> ELSE L[h][i]]
<1>1. DOMAIN L = HeadsOf(n_decl) /\ \A h \in HeadsOf(n_decl) : L[h] = PairsOf(s, D[h])
  BY DEF View
<1>2. ASSUME NEW h \in HeadsOf(n_decl) PROVE PairsOf(t, D[h]) = R(h)
  <2> DEFINE c == D[h]
  <2>1. c \in Seq(Nodes)
    OBVIOUS
  <2>2. \A i \in 1..Len(c) : c[i] \in Nodes
    BY <2>1
  <2>3. L[h] = PairsOf(s, c)
    BY <1>1
  <2> HIDE DEF c
  <2>4. DOMAIN L[h] = 1..Len(c) /\ \A i \in 1..Len(c) : L[h][i] = <<c[i], s.data[c[i]]>>
    BY <2>3 DEF PairsOf
  <2>5. \A i \in 1..Len(c) : <<c[i], t.data[c[i]]>> =
            IF L[h][i][1] = r.handle THEN <<r.handle, r.data>> ELSE L[h][i]
    <3> TAKE i \in 1..Len(c)
    <3>1. c[i] \in Nodes /\ L[h][i] = <<c[i], s.data[c[i]]>>
      BY <2>2, <2>4
    <3>2. L[h][i][1] = c[i]
      BY <3>1
    <3>3. CASE c[i] = r.handle
      <4>1. t.data[c[i]] = r.data
        BY <3>1, <3>3
      <4> QED BY <3>2, <3>3, <4>1
    <3>4. CASE c[i] # r.handle
      <4>1. t.data[c[i]] = s.data[c[i]]
        BY <3>1, <3>4
      <4> QED BY <3>1, <3>2, <3>4, <4>1
    <3> QED BY <3>3, <3>4
  <2>6. PairsOf(t, c) = R(h)
    BY <2>4, <2>5 DEF PairsOf
  <2> QED BY <2>6 DEF c
<1>3. M = [h \in HeadsOf(n_decl) |-> PairsOf(t, D[h])]
  BY DEF View
<1> HIDE DEF R, M
<1>4. M = [h \in DOMAIN L |-> R(h)]
  BY <1>1, <1>2, <1>3
<1> QED BY <1>4 DEF M, R, Rewritten

(* What is not written stays.                                              *)
LEMMA SameView ==
    ASSUME NEW s, NEW t, NEW D, s.data = t.data
    PROVE  View(n_decl, s, D) = View(n_decl, t, D)
BY DEF View, PairsOf

(* An edge, as the specification sees it.                                  *)
LEMMA EdgeSeen ==
    ASSUME n_decl \in ListDecls, Supports(n_decl), NEW F, NEW C, NEW b,
           Shape(n_decl, n_reg, n_held, b, F, C), NEW r \in List!Requests, List!Edge(r),
           Seen, Seen'
    PROVE  /\ b = "none" =>
                 /\ ListsNow = View(n_decl, n_reg, C)
                 /\ ListsNow' = View(n_decl, n_reg', ListsDone(n_reg', Begun(n_reg, r), C))
           /\ b # "none" =>
                 /\ ListsNow = View(n_decl, n_reg, ListsDone(n_reg, b, C))
                 /\ ListsNow' = View(n_decl, n_reg', ListsDone(n_reg, b, C))
<1>1. n_decl' = n_decl
  BY DEF List!Edge
<1>2. ListsNow = View(n_decl, n_reg, ListsDone(n_reg, b, C))
  BY DEF Seen
<1>3. \A a, G, D : Shape(n_decl, n_reg', n_held', a, G, D) =>
          ListsNow' = View(n_decl, n_reg', ListsDone(n_reg', a, D))
  BY <1>1 DEF Seen
<1>4. CASE b = "none"
  <2>1. Shape(n_decl, n_reg', n_held', Begun(n_reg, r), FreeAfter(n_reg, F, r), C)
    BY <1>4, EdgeIs
  <2> QED BY <1>2, <1>3, <1>4, <2>1 DEF ListsDone
<1>5. CASE b # "none"
  <2>1. Shape(n_decl, n_reg', n_held', "none", FreeDone(n_reg, F, b), ListsDone(n_reg, b, C))
    BY <1>5, EdgeIs
  <2>2. \A D : ListsDone(n_reg', "none", D) = D
    BY DEF ListsDone
  <2> QED BY <1>2, <1>3, <1>5, <2>1, <2>2
<1> QED BY <1>4, <1>5

(* Its answers.                                                            *)
LEMMA EdgeAnswers ==
    ASSUME NEW r, List!Edge(r)
    PROVE  /\ n_asked' = r
           /\ r.op # "delete_head" => Calmly
           /\ r.op = "delete_head" /\ List!IsEmpty(n_reg, r.head) => Calmly
           /\ r.op = "delete_head" /\ ~List!IsEmpty(n_reg, r.head)
              /\ n_reg.ctl["delete_head"].phase # "busy" =>
                 n_answer' = n_reg.data[n_reg.head[r.head]]
           /\ r.op \notin List!Reads => n_reading' = NoData
           /\ r.op \in List!Reads => n_reading' = n_reg'.ctl[r.op].handle
<1>1. n_answer' = List!DeleteAnswer(r, n_reg) /\ n_asked' = r
      /\ n_reading' = IF r.op \in List!Reads THEN n_reg'.ctl[r.op].handle ELSE NoData
  BY DEF List!Edge
<1>2. r.op # "delete_head" => Calmly
  BY <1>1 DEF List!DeleteAnswer, List!Accepts, Calmly
<1>3. r.op = "delete_head" /\ List!IsEmpty(n_reg, r.head) => Calmly
  BY <1>1 DEF List!DeleteAnswer, Calmly
<1>4. r.op = "delete_head" /\ ~List!IsEmpty(n_reg, r.head)
      /\ n_reg.ctl["delete_head"].phase # "busy" => n_answer' = n_reg.data[n_reg.head[r.head]]
  BY <1>1 DEF List!DeleteAnswer, List!Accepts
<1> QED BY <1>1, <1>2, <1>3, <1>4

(* Insertions.                                                             *)
LEMMA InsertionServed ==
    ASSUME ListsSupported, n_decl \in ListDecls, NEW F, NEW C,
           Shape(n_decl, n_reg, n_held, "none", F, C), NEW r \in List!Requests, List!Edge(r),
           Seen, Seen', r.op \in List!Insertions
    PROVE  List!Lists!Serve(r)
<1> DEFINE t == Accepted(n_reg, r)
           x == List!Slot(n_reg)
           h == r.head
           c == C[h]
           L == View(n_decl, n_reg, C)
<1>1. Supports(n_decl)
  BY DEF ListsSupported
<1>2. Legal(n_decl, n_held, "none", C, r)
  BY <1>1, RequestIsLegal
<1>3. /\ r.op # "delete_head" /\ r.op # "free" /\ r.op # "alloc" /\ r.op # "write_data"
      /\ r.op # "delete" /\ r.op \in Structure
      /\ r.op = "insert_head" \/ r.op = "insert_tail" \/ r.op = "insert_after"
  BY DEF List!Insertions, Structure
<1>4. n_reg' = t /\ n_held' = n_held
  BY <1>1, <1>3, EdgeIs DEF HandsAfter
<1>5. ListsNow = L /\ ListsNow' = View(n_decl, t, ListsDone(t, Begun(n_reg, r), C))
  BY <1>1, <1>4, EdgeSeen
<1>6. Calmly
  BY <1>3, EdgeAnswers
<1>7. h \in HeadsOf(n_decl)
  BY <1>2, <1>3 DEF Legal
<1>8. C \in [HeadsOf(n_decl) -> Seq(Nodes)] /\ c \in Seq(Nodes) /\ Once(c)
  BY <1>7, ShapeAtRest DEF ShareOK
<1>9. CASE n_reg.fl_cnt = 0
  <2>1. Begun(n_reg, r) = "none" /\ ~Takes(n_reg, r)
    BY <1>3, <1>9 DEF Begun, Takes
  <2>2. t.data = n_reg.data
    BY <1>3, <2>1 DEF Accepted
  <2>3. ListsNow' = ListsNow
    BY <1>5, <2>1, <2>2, SameView DEF ListsDone
  <2>4. List!Lists!Fresh = {}
    BY <1>9, FreshAre
  <2>5. \A at : List!Lists!Insert(r, at)
    <3> TAKE at
    <3> QED BY <1>4, <1>6, <2>3, <2>4, InsertWaits DEF Calmly
  <2> QED BY <1>3, <2>5, ServeIs
<1>10. CASE n_reg.fl_cnt # 0
  <2>1. Begun(n_reg, r) = r.op
    BY <1>10 DEF Begun
  <2>2. x \in List!Lists!Fresh
    BY <1>10, FreshAre
  <2>3. ASSUME NEW k \in 1..(Len(c) + 1), Grown(t, r.op, c) = Ins(c, k, x)
        PROVE  List!Lists!Insert(r, k)
    <3>1. ListsNow' = [L EXCEPT ![r.head] = List!InsertAt(L[r.head], k, <<x, r.data>>)]
      BY <1>2, <1>5, <1>10, <2>1, <2>3, InsertionView
    <3> HIDE DEF L, x
    <3> QED BY <1>4, <1>5, <1>6, <2>2, <3>1, InsertServed DEF Calmly
  <2>4. t.ctl[r.op].handle = x /\ (r.op = "insert_after" => t.ctl[r.op].after = r.handle)
    <3>1. t.ctl[r.op] = Latch(n_reg, r)
      BY DEF Accepted, List!Operations, List!Insertions
    <3>2. Latch(n_reg, r) = [phase |-> "busy", handle |-> x, head |-> h,
                             was_empty |-> List!IsEmpty(n_reg, h),
                             after |-> IF r.op = "insert_after" THEN r.handle ELSE 0]
      BY <1>3, <1>10 DEF Latch, List!Reads
    <3> HIDE DEF x, h, t
    <3> QED BY <3>1, <3>2
  <2>5. L[h] = PairsOf(n_reg, c)
    BY <1>7 DEF View
  <2> HIDE DEF t, x, c, L
  <2>6. Len(c) \in Nat /\ 1 \in 1..(Len(c) + 1) /\ Len(c) + 1 \in 1..(Len(c) + 1)
    BY <1>8
  <2>7. CASE r.op = "insert_head"
    <3>1. Grown(t, r.op, c) = Ins(c, 1, x)
      BY <2>4, <2>7 DEF Grown
    <3> QED BY <2>3, <2>6, <2>7, <3>1, ServeIs
  <2>8. CASE r.op = "insert_tail"
    <3>1. Grown(t, r.op, c) = Ins(c, Len(c) + 1, x)
      BY <2>4, <2>8 DEF Grown
    <3>2. Len(ListsNow[r.head]) = Len(c)
      BY <1>5, <1>8, <2>5, PairsAre
    <3>3. List!Lists!Insert(r, Len(ListsNow[r.head]) + 1)
      BY <2>3, <2>6, <3>1, <3>2
    <3> QED BY <2>8, <3>3, ServeIs
  <2>9. CASE r.op = "insert_after"
    <3>1. PICK k \in 1..Len(c) : r.handle = c[k]
      BY <1>2, <2>9 DEF Legal, c
    <3>2. List!Position(r.handle, c) = k
      <4>1. DOMAIN c = 1..Len(c)
        BY <1>8
      <4> QED BY <1>8, <3>1, <4>1, PlaceOf
    <3>3. Grown(t, r.op, c) = Ins(c, k + 1, x)
      BY <2>4, <2>9, <3>2 DEF Grown
    <3>4. List!Lists!PositionOf(r.handle, ListsNow[r.head]) = k
      BY <1>5, <1>8, <2>5, <3>1, PositionIs
    <3>5. k + 1 \in 1..(Len(c) + 1)
      BY <2>6, <3>1
    <3>6. List!Lists!Insert(r, List!Lists!PositionOf(r.handle, ListsNow[r.head]) + 1)
      BY <2>3, <3>3, <3>4, <3>5
    <3> QED BY <2>9, <3>6, ServeIs
  <2> QED BY <1>3, <2>7, <2>8, <2>9
<1> QED BY <1>9, <1>10

(* Deletions.                                                              *)
LEMMA DeletionServed ==
    ASSUME ListsSupported, n_decl \in ListDecls, NEW F, NEW C,
           Shape(n_decl, n_reg, n_held, "none", F, C), NEW r \in List!Requests, List!Edge(r),
           Seen, Seen', r.op \in Deletions
    PROVE  List!Lists!Serve(r)
<1> DEFINE t == Accepted(n_reg, r)
           h == r.head
           c == C[h]
           L == View(n_decl, n_reg, C)
<1>1. Supports(n_decl)
  BY DEF ListsSupported
<1>2. Legal(n_decl, n_held, "none", C, r)
  BY <1>1, RequestIsLegal
<1>3. /\ r.op # "free" /\ r.op # "alloc" /\ r.op # "write_data"
      /\ r.op \notin List!Insertions /\ r.op \in Structure /\ r.op \in List!Operations
      /\ r.op = "delete_head" \/ r.op = "delete"
  BY DEF List!Insertions, Structure, Deletions, List!Operations
<1>4. n_reg' = t /\ n_held' = n_held
  BY <1>1, <1>3, EdgeIs DEF HandsAfter
<1>5. ListsNow = L /\ ListsNow' = View(n_decl, t, ListsDone(t, Begun(n_reg, r), C))
  BY <1>1, <1>4, EdgeSeen
<1>7. h \in HeadsOf(n_decl)
  BY <1>2, <1>3 DEF Legal
<1>8. /\ C \in [HeadsOf(n_decl) -> Seq(Nodes)] /\ c \in Seq(Nodes) /\ Once(c)
      /\ Linked(n_decl, n_reg, h, c)
  BY <1>7, ShapeAtRest DEF ShareOK
<1>9. List!IsEmpty(n_reg, h) <=> Len(c) = 0
  BY <1>2, <1>7, AtRest
<1>10. n_reg.ctl["delete_head"].phase # "busy"
  BY <1>2, AtRest DEF Calm, List!Operations
<1>11. L[h] = PairsOf(n_reg, c) /\ Len(L[h]) = Len(c) /\ Len(c) \in Nat
  <2>1. L[h] = PairsOf(n_reg, c)
    BY <1>7 DEF View
  <2> HIDE DEF L, c
  <2> QED BY <1>8, <2>1, PairsAre
<1>12. CASE r.op = "delete_head" /\ Len(c) = 0
  <2>1. Begun(n_reg, r) = "none" /\ ~Takes(n_reg, r)
    BY <1>3, <1>9, <1>12 DEF Begun, Takes
  <2>2. t.data = n_reg.data
    BY <1>3, <2>1 DEF Accepted
  <2>3. ListsNow' = ListsNow
    BY <1>5, <2>1, <2>2, SameView DEF ListsDone
  <2>4. Calmly
    BY <1>9, <1>12, EdgeAnswers
  <2>5. ListsNow[r.head] = <<>>
    <3>1. ListsNow[r.head] = [i \in 1..Len(c) |-> <<c[i], n_reg.data[c[i]]>>]
      BY <1>5, <1>11 DEF PairsOf
    <3> HIDE DEF c
    <3>2. 1..Len(c) = {}
      BY <1>12
    <3> QED BY <3>1, <3>2
  <2>6. List!Lists!Unlink(r, 1)
    BY <1>4, <2>3, <2>4, <2>5, UnlinkWaits DEF Calmly
  <2> QED BY <1>12, <2>6, ServeIs
<1>13. ASSUME Begun(n_reg, r) = r.op, NEW k \in 1..Len(c), Grown(t, r.op, c) = Del(c, k),
              r.op = "delete_head" => n_answer' = n_reg.data[c[k]]
       PROVE  List!Lists!Unlink(r, k)
  <2>1. ListsNow' = [L EXCEPT ![r.head] = List!RemoveAt(L[r.head], k)]
    BY <1>2, <1>5, <1>13, DeletionView
  <2>2. L[r.head] # <<>>
    <3> HIDE DEF L, c
    <3>1. Len(L[r.head]) # 0
      BY <1>11, <1>13
    <3> QED BY <3>1
  <2>3. L[r.head][k][2] = n_reg.data[c[k]]
    <3>1. L[r.head][k] = <<c[k], n_reg.data[c[k]]>>
      BY <1>11, <1>13 DEF PairsOf
    <3> HIDE DEF L, c
    <3> QED BY <3>1
  <2>4. r.op = "delete" => n_answer' \in {n_answer, NoData}
    BY EdgeAnswers DEF Calmly
  <2>5. r.op = "delete_head" => n_answer' = L[r.head][k][2]
    BY <1>13, <2>3
  <2> HIDE DEF L, c, t
  <2> QED BY <1>4, <1>5, <2>1, <2>2, <2>4, <2>5, UnlinkServed
<1>14. CASE r.op = "delete_head" /\ Len(c) # 0
  <2>1. Begun(n_reg, r) = r.op
    BY <1>9, <1>14 DEF Begun
  <2>2. Grown(t, r.op, c) = Del(c, 1)
    BY <1>14 DEF Grown
  <2>3. 1 \in 1..Len(c)
    BY <1>11, <1>14
  <2>4. n_answer' = n_reg.data[c[1]]
    <3>1. n_answer' = n_reg.data[n_reg.head[h]]
      BY <1>9, <1>10, <1>14, EdgeAnswers
    <3>2. n_reg.head[h] = c[1]
      <4> HIDE DEF c
      <4> QED BY <1>8, <1>11, <1>14 DEF Linked
    <3> QED BY <3>1, <3>2
  <2>5. List!Lists!Unlink(r, 1)
    BY <1>13, <2>1, <2>2, <2>3, <2>4
  <2> QED BY <1>14, <2>5, ServeIs
<1>15. CASE r.op = "delete"
  <2>1. Begun(n_reg, r) = r.op
    BY <1>15 DEF Begun
  <2>2. Len(c) > 0 /\ r.handle = c[Len(c)]
    BY <1>2, <1>15 DEF Legal
  <2>3. Grown(t, r.op, c) = Del(c, Len(c))
    BY <1>15 DEF Grown
  <2>4. Len(c) \in 1..Len(c)
    BY <1>11, <2>2
  <2>5. List!Lists!Unlink(r, Len(c))
    BY <1>13, <1>15, <2>1, <2>3, <2>4
  <2>6. List!Lists!PositionOf(r.handle, ListsNow[r.head]) = Len(c)
    <3> HIDE DEF c, L
    <3>1. List!Lists!PositionOf(c[Len(c)], PairsOf(n_reg, c)) = Len(c)
      BY <1>8, <2>4, PositionIs
    <3> QED BY <1>5, <1>11, <2>2, <3>1
  <2> QED BY <1>15, <2>5, <2>6, ServeIs
<1> QED BY <1>3, <1>12, <1>14, <1>15

(* Reads of a node of the lists.                                           *)
LEMMA ReadServed ==
    ASSUME n_decl \in ListDecls, NEW D, NEW h \in HeadsOf(n_decl), NEW r,
           D[h] \in Seq(Nodes), Once(D[h]), NEW k \in 1..Len(D[h]), r.handle = D[h][k],
           ListsNow = View(n_decl, n_reg, D), ListsNow' = ListsNow, n_held' = n_held, Calmly,
           r.op \in List!Reads,
           r.op = "read_data" => n_reading' = n_reg.data[r.handle],
           r.op = "next" => k < Len(D[h]) /\ n_reading' = D[h][k + 1],
           r.op = "prev" => k > 1 /\ n_reading' = D[h][k - 1]
    PROVE  List!Lists!Serve(r)
<1> DEFINE c == D[h]
           L == View(n_decl, n_reg, D)
<1>1. DOMAIN L = HeadsOf(n_decl) /\ L[h] = PairsOf(n_reg, c)
  BY DEF View
<1>2. c \in Seq(Nodes) /\ Once(c) /\ k \in 1..Len(c) /\ Len(c) \in Nat
  OBVIOUS
<1>3. /\ r.op = "next" => k < Len(c) /\ n_reading' = c[k + 1]
      /\ r.op = "prev" => k > 1 /\ n_reading' = c[k - 1]
      /\ r.op = "read_data" => n_reading' = n_reg.data[c[k]]
      /\ r.handle = c[k] /\ ListsNow = L
  OBVIOUS
<1> HIDE DEF c, L
<1>4. DOMAIN L[h] = 1..Len(c) /\ \A i \in 1..Len(c) : L[h][i] = <<c[i], n_reg.data[c[i]]>>
  BY <1>1 DEF PairsOf
<1>5. /\ L[h][k][1] = r.handle
      /\ r.op = "read_data" => n_reading' = L[h][k][2]
  BY <1>2, <1>3, <1>4
<1>6. r.op = "next" => n_reading' = L[h][k + 1][1]
  <2> HAVE r.op = "next"
  <2>1. k + 1 \in 1..Len(c)
    BY <1>2, <1>3
  <2> DEFINE m == k + 1
  <2> HIDE DEF m
  <2>2. L[h][m] = <<c[m], n_reg.data[c[m]]>>
    BY <1>4, <2>1 DEF m
  <2>3. L[h][m][1] = c[m]
    BY <2>2
  <2> QED BY <1>3, <2>3 DEF m
<1>7. r.op = "prev" => n_reading' = L[h][k - 1][1]
  <2> HAVE r.op = "prev"
  <2>1. k - 1 \in 1..Len(c)
    BY <1>2, <1>3
  <2> DEFINE m == k - 1
  <2> HIDE DEF m
  <2>2. L[h][m] = <<c[m], n_reg.data[c[m]]>>
    BY <1>4, <2>1 DEF m
  <2>3. L[h][m][1] = c[m]
    BY <2>2
  <2> QED BY <1>3, <2>3 DEF m
<1>8. List!Lists!PositionOf(r.handle, L[h]) = k
  <2>1. List!Lists!PositionOf(c[k], PairsOf(n_reg, c)) = k
    BY <1>2, PositionIs
  <2> QED BY <1>1, <1>3, <2>1
<1>9. List!Lists!Look(r)
  <2>1. h \in DOMAIN L /\ k \in DOMAIN L[h] /\ r.op \in {"read_data", "next", "prev"}
    BY <1>1, <1>2, <1>4 DEF List!Reads
  <2>2. ListsNow' = L /\ n_answer' \in {n_answer, NoData}
    BY <1>3 DEF Calmly
  <2> QED BY <1>3, <1>5, <1>6, <1>7, <1>8, <2>1, <2>2, LookServed
<1> QED BY <1>9, ServeIs DEF List!Reads

(* The other requests, while no operation is under way.                    *)
LEMMA OtherServed ==
    ASSUME ListsSupported, n_decl \in ListDecls, NEW F, NEW C,
           Shape(n_decl, n_reg, n_held, "none", F, C), NEW r \in List!Requests, List!Edge(r),
           Seen, Seen', r.op \notin List!Insertions, r.op \notin Deletions
    PROVE  List!Lists!Serve(r)
<1> DEFINE t == Accepted(n_reg, r)
           L == View(n_decl, n_reg, C)
<1>1. Supports(n_decl)
  BY DEF ListsSupported
<1>2. Legal(n_decl, n_held, "none", C, r) /\ (r.op = "none" \/ Does(n_decl, r.op))
  BY <1>1, RequestIsLegal
<1>3. /\ r.op # "delete_head" /\ r.op # "delete" /\ r.op \notin Deletions
      /\ r.op \notin List!Insertions /\ Begun(n_reg, r) = "none"
  BY DEF Deletions, Begun
<1>4. n_reg' = t /\ n_held' = HandsAfter(n_reg, n_held, r)
  BY <1>1, EdgeIs
<1>5. ListsNow = L /\ ListsNow' = View(n_decl, t, C)
  <2>1. \A s : ListsDone(s, "none", C) = C
    BY DEF ListsDone
  <2>2. ListsNow = L /\ ListsNow' = View(n_decl, n_reg', ListsDone(n_reg', Begun(n_reg, r), C))
    BY <1>1, EdgeSeen
  <2> QED BY <1>3, <1>4, <2>1, <2>2
<1>6. Calmly
  BY <1>3, EdgeAnswers
<1>7. r.op # "write_data" => ListsNow' = ListsNow
  <2> HAVE r.op # "write_data"
  <2>1. t.data = n_reg.data
    BY <1>3 DEF Accepted, Takes
  <2> QED BY <1>5, <2>1, SameView
<1>8. /\ C \in [HeadsOf(n_decl) -> Seq(Nodes)] /\ RegsOK(n_decl, n_reg)
      /\ \A h \in HeadsOf(n_decl) : Once(C[h]) /\ Linked(n_decl, n_reg, h, C[h])
  BY ShapeAtRest DEF ShareOK
<1>9. CASE r.op = "none"
  <2>1. n_held' = n_held
    BY <1>4, <1>9 DEF HandsAfter
  <2> QED BY <1>6, <1>7, <1>9, <2>1, ServeIs
<1>10. CASE r.op = "free"
  <2>1. n_held' = n_held \ {r.handle}
    BY <1>4, <1>10 DEF HandsAfter
  <2> QED BY <1>6, <1>7, <1>10, <2>1, ServeIs
<1>11. CASE r.op = "alloc"
  <2>1. CASE n_reg.fl_cnt = 0
    <3>1. n_held' = n_held
      BY <1>4, <1>11, <2>1 DEF HandsAfter
    <3>2. List!Lists!Fresh = {}
      BY <2>1, FreshAre
    <3>3. List!Lists!Alloc
      BY <1>6, <1>7, <1>11, <3>1, <3>2, AllocWaits DEF Calmly
    <3> QED BY <1>11, <3>3, ServeIs
  <2>2. CASE n_reg.fl_cnt # 0
    <3>1. n_held' = n_held \cup {List!Slot(n_reg)}
      BY <1>4, <1>11, <2>2 DEF HandsAfter
    <3>2. List!Slot(n_reg) \in List!Lists!Fresh
      BY <2>2, FreshAre
    <3>3. List!Lists!Alloc
      BY <1>6, <1>7, <1>11, <3>1, <3>2, AllocServed DEF Calmly
    <3> QED BY <1>11, <3>3, ServeIs
  <2> QED BY <2>1, <2>2
<1>12. CASE r.op = "write_data"
  <2>1. n_held' = n_held
    BY <1>4, <1>12 DEF HandsAfter
  <2>2. t.data = [n_reg.data EXCEPT ![r.handle] = r.data]
    BY <1>3, <1>12 DEF Accepted, Takes
  <2>3. n_reg.data \in [Nodes -> n_decl.DATA \cup {NoData}]
    BY <1>8 DEF RegsOK
  <2> DEFINE M == View(n_decl, t, C)
  <2>4. M = Rewritten(L, r)
    <3>1. /\ \A y \in Nodes : y # r.handle => t.data[y] = n_reg.data[y]
          /\ r.handle \in Nodes => t.data[r.handle] = r.data
      BY <2>2, <2>3
    <3>2. C \in [HeadsOf(n_decl) -> Seq(Nodes)]
      BY <1>8
    <3> DEFINE V == L
    <3>3. V = View(n_decl, n_reg, C)
      OBVIOUS
    <3> HIDE DEF t, V
    <3>4. M = Rewritten(V, r)
      BY <3>1, <3>2, <3>3, WrittenView
    <3> QED BY <3>4 DEF V
  <2> HIDE DEF L, M
  <2>5. List!Lists!Write(r)
    BY <1>5, <1>6, <2>1, <2>4, WriteServed DEF Calmly, M
  <2> QED BY <1>12, <2>5, ServeIs
<1>13. CASE r.op \in List!Reads
  <2>0. /\ r.op \in Accesses /\ r.op # "free" /\ r.op # "alloc" /\ r.op # "write_data"
        /\ r.op \in List!Operations
    BY <1>13 DEF Accesses, List!Reads, List!Operations
  <2>10. PICK h \in HeadsOf(n_decl) :
             \E k \in 1..Len(C[h]) : /\ r.handle = C[h][k]
                                     /\ r.op = "next" => k < Len(C[h])
                                     /\ r.op = "prev" => k > 1
    BY <1>2, <2>0 DEF Legal
  <2>1. PICK k \in 1..Len(C[h]) : /\ r.handle = C[h][k]
                                  /\ r.op = "next" => k < Len(C[h])
                                  /\ r.op = "prev" => k > 1
    BY <2>10
  <2>2. n_held' = n_held
    BY <1>4, <2>0 DEF HandsAfter
  <2>3. n_reading' = List!Read(r.op, r.handle, n_reg)
    <3>1. n_reading' = t.ctl[r.op].handle
      BY <1>4, <1>13, EdgeAnswers
    <3>2. t.ctl[r.op] = Latch(n_reg, r)
      BY <2>0 DEF Accepted
    <3>3. Latch(n_reg, r) = List!Answers(List!Read(r.op, r.handle, n_reg))
      BY <1>13, <2>0, LatchOfWord
    <3>4. \A v : List!Answers(v).handle = v
      BY DEF List!Answers
    <3> QED BY <3>1, <3>2, <3>3, <3>4
  <2>4. r.op = "read_data" => n_reading' = n_reg.data[r.handle]
    BY <2>3 DEF List!Read
  <2> DEFINE c == C[h]
  <2>5. c \in Seq(Nodes) /\ Once(c) /\ Linked(n_decl, n_reg, h, c) /\ Len(c) \in Nat
    BY <1>8, <2>10
  <2>6. r.op = "next" => k < Len(c) /\ n_reading' = c[k + 1]
    <3> HAVE r.op = "next"
    <3>1. n_reading' = n_reg.next[r.handle]
      BY <2>3 DEF List!Read
    <3>2. k < Len(c) /\ r.handle = c[k] /\ k \in 1..Len(c)
      BY <2>1
    <3> HIDE DEF c
    <3>3. k \in 1..(Len(c) - 1)
      BY <2>5, <3>2
    <3>4. n_reg.next[c[k]] = c[k + 1]
      BY <2>5, <3>3 DEF Linked
    <3> QED BY <3>1, <3>2, <3>4
  <2>7. r.op = "prev" => k > 1 /\ n_reading' = c[k - 1]
    <3> HAVE r.op = "prev"
    <3>1. n_reading' = n_reg.prev[r.handle]
      BY <2>3 DEF List!Read
    <3>2. k > 1 /\ r.handle = c[k] /\ k \in 1..Len(c)
      BY <2>1
    <3>3. n_decl.doubly
      BY <1>1, <1>2 DEF Supports
    <3> DEFINE m == k - 1
    <3> HIDE DEF c
    <3>4. m \in 1..(Len(c) - 1) /\ m + 1 = k
      BY <2>5, <3>2
    <3> HIDE DEF m
    <3>5. n_reg.prev[c[m + 1]] = c[m]
      BY <2>5, <3>3, <3>4 DEF Linked
    <3> QED BY <3>1, <3>2, <3>4, <3>5 DEF m
  <2>8. k \in 1..Len(c) /\ r.handle = c[k]
    BY <2>1
  <2> HIDE DEF L, t
  <2>9. ListsNow = View(n_decl, n_reg, C) /\ ListsNow' = ListsNow
    BY <1>5, <1>7, <2>0 DEF L
  <2> QED BY <1>6, <1>13, <2>10,  <2>2, <2>4, <2>5, <2>6, <2>7, <2>8, <2>9, ReadServed
<1> QED BY <1>2, <1>3, <1>9, <1>10, <1>11, <1>12, <1>13
        DEF Legal, List!Operations, List!Insertions, List!Reads

(* Accesses are asked of nodes that stay.                                     *)
LEMMA WordIsListed ==
    ASSUME n_decl \in ListDecls, Supports(n_decl), NEW F, NEW C, NEW b,
           Shape(n_decl, n_reg, n_held, b, F, C), b # "none", NEW r \in List!Requests,
           r.op # "none"
    PROVE  \E h \in HeadsOf(n_decl) : \E k \in 1..Len(ListsDone(n_reg, b, C)[h]) :
               r.handle = ListsDone(n_reg, b, C)[h][k]
<1>1. r # List!None
  BY RequestIsLegal
<1>2. r \in List!Words
  <2>1. r \in List!Words \cup (IF List!Calm THEN List!Structural ELSE {})
    BY <1>1 DEF List!Requests
  <2>2. ~List!Calm
    BY RunsIs
  <2> QED BY <2>1, <2>2
<1>3. PICK h \in HeadsOf(n_decl) : r.handle \in List!NodesOf(h)
  BY <1>2 DEF List!Words, List!Heads, HeadsOf
<1>4. \E k \in 1..Len(ListsDone(n_reg, b, C)[h]) : r.handle = ListsDone(n_reg, b, C)[h][k]
  <2> DEFINE x == r.handle
  <2>1. x \in List!NodesOf(h)
    BY <1>3
  <2> HIDE DEF x
  <2>2. \E k \in 1..Len(ListsDone(n_reg, b, C)[h]) : x = ListsDone(n_reg, b, C)[h][k]
    BY <1>3, <2>1, NodesAre
  <2> QED BY <2>2 DEF x
<1> QED BY <1>3, <1>4

(* Requests while an operation is under way.                               *)
LEMMA BusyServed ==
    ASSUME ListsSupported, n_decl \in ListDecls, NEW F, NEW C, NEW b, b # "none",
           Shape(n_decl, n_reg, n_held, b, F, C), NEW r \in List!Requests, List!Edge(r),
           Seen, Seen'
    PROVE  List!Lists!Serve(r)
<1> DEFINE t == Done(n_reg, b, r)
           D == ListsDone(n_reg, b, C)
           L == View(n_decl, n_reg, D)
<1>1. Supports(n_decl)
  BY DEF ListsSupported
<1>2. r.op \in {"none", "write_data", "read_data"}
  BY <1>1, RequestIsLegal
<1>3. n_reg' = t /\ n_held' = n_held /\ Shape(n_decl, t, n_held, "none", FreeDone(n_reg, F, b), D)
  <2>1. /\ n_reg' = t /\ n_held' = n_held
        /\ Shape(n_decl, n_reg', n_held', "none", FreeDone(n_reg, F, b), D)
    BY <1>1, EdgeIs
  <2> HIDE DEF t, D
  <2> QED BY <2>1
<1>4. ListsNow = L /\ ListsNow' = View(n_decl, t, D)
  <2>1. ListsNow = L /\ ListsNow' = View(n_decl, n_reg', D)
    BY <1>1, EdgeSeen
  <2> QED BY <1>3, <2>1
<1>5. Calmly
  BY <1>2, EdgeAnswers
<1>6. t.data = WordsOf(n_reg, r) /\ t.ctl = Ended(n_reg, b, r)
  BY DoneFields
<1>7. /\ D \in [HeadsOf(n_decl) -> Seq(Nodes)] /\ \A h \in HeadsOf(n_decl) : Once(D[h])
  <2> HIDE DEF t, D
  <2> QED BY <1>3, ShapeAtRest DEF ShareOK
<1>8. n_reg.data \in [Nodes -> n_decl.DATA \cup {NoData}] /\ b \in Structure
  BY DEF Shape, RegsOK
<1>9. r.op # "write_data" => ListsNow' = ListsNow
  <2> HAVE r.op # "write_data"
  <2>1. t.data = n_reg.data
    BY <1>6 DEF WordsOf
  <2> HIDE DEF t, D
  <2> QED BY <1>4, <2>1, SameView
<1>10. CASE r.op = "none"
  BY <1>3, <1>5, <1>9, <1>10, ServeIs
<1>11. CASE r.op = "write_data"
  <2>1. t.data = [n_reg.data EXCEPT ![r.handle] = r.data]
    BY <1>6, <1>11 DEF WordsOf
  <2> DEFINE M == View(n_decl, t, D)
  <2> HIDE DEF t, D
  <2>2. M = Rewritten(L, r)
    <3>1. /\ \A y \in Nodes : y # r.handle => t.data[y] = n_reg.data[y]
          /\ r.handle \in Nodes => t.data[r.handle] = r.data
      BY <1>8, <2>1
    <3>2. D \in [HeadsOf(n_decl) -> Seq(Nodes)]
      BY <1>7
    <3> DEFINE V == L
    <3>3. V = View(n_decl, n_reg, D)
      OBVIOUS
    <3> HIDE DEF V
    <3>4. M = Rewritten(V, r)
      BY <3>1, <3>2, <3>3, WrittenView
    <3> QED BY <3>4 DEF V
  <2> HIDE DEF L, M
  <2>3. List!Lists!Write(r)
    BY <1>3, <1>4, <1>5, <2>2, WriteServed DEF Calmly, M
  <2> QED BY <1>11, <2>3, ServeIs
<1>12. CASE r.op = "read_data"
  <2>6. PICK h \in HeadsOf(n_decl) : \E k \in 1..Len(D[h]) : r.handle = D[h][k]
    BY <1>1, <1>12, WordIsListed
  <2>1. PICK k \in 1..Len(D[h]) : r.handle = D[h][k]
    BY <2>6
  <2>2. r.op \in List!Reads /\ r.op \in Accesses /\ r.op \in List!Operations /\ r.op # b
    BY <1>8, <1>12 DEF List!Reads, Accesses, List!Operations, Structure
  <2>3. n_reading' = n_reg.data[r.handle]
    <3>1. n_reading' = t.ctl[r.op].handle
      BY <1>3, <2>2, EdgeAnswers
    <3>2. t.ctl[r.op] = Latch(n_reg, r)
      BY <1>6, <2>2 DEF Ended
    <3>3. Latch(n_reg, r) = List!Answers(List!Read(r.op, r.handle, n_reg))
      BY <2>2, LatchOfWord
    <3>4. List!Read(r.op, r.handle, n_reg) = n_reg.data[r.handle]
      BY <1>12 DEF List!Read
    <3>5. \A v : List!Answers(v).handle = v
      BY DEF List!Answers
    <3> HIDE DEF t
    <3> QED BY <3>1, <3>2, <3>3, <3>4, <3>5
  <2>4. r.op # "next" /\ r.op # "prev" /\ ListsNow' = ListsNow
    BY <1>9, <1>12
  <2>5. D[h] \in Seq(Nodes) /\ Once(D[h])
    BY <1>7, <2>6
  <2> HIDE DEF D, t
  <2> QED BY <1>3, <1>4, <1>5, <2>1, <2>6, <2>2, <2>3, <2>4, <2>5, ReadServed
<1> QED BY <1>2, <1>10, <1>11, <1>12

(* Every edge and reset of the registers is one of the specification.      *)
LEMMA ListsServed ==
    ASSUME ListsSupported, ListInv, Seen, Seen', [List!SimNext]_list_vars
    PROVE  [List!Lists!Next]_(List!Lists!vars)
<1>1. PICK b, F, C : Shape(n_decl, n_reg, n_held, b, F, C)
  BY DEF ListInv
<1>2. n_decl \in ListDecls /\ Mirrors(n_decl, n_reg, n_sim) /\ Supports(n_decl)
  BY DEF ListInv, ListsSupported
<1>3. CASE UNCHANGED list_vars
  <2>1. n_decl' = n_decl /\ n_reg' = n_reg /\ n_held' = n_held /\ n_asked' = n_asked
        /\ n_answer' = n_answer /\ n_reading' = n_reading
    BY <1>3 DEF list_vars
  <2>2. Shape(n_decl', n_reg', n_held', b, F, C)
    BY <1>1, <2>1
  <2>3. ListsNow = View(n_decl, n_reg, ListsDone(n_reg, b, C))
    BY <1>1 DEF Seen
  <2>4. ListsNow' = View(n_decl', n_reg', ListsDone(n_reg', b, C))
    BY <2>2 DEF Seen
  <2>5. ListsNow' = ListsNow
    BY <2>1, <2>3, <2>4
  <2> QED BY <2>1, <2>5 DEF List!Lists!vars, ListsNow
<1>4. CASE List!Reset /\ n_sim' = List!Cleared(n_sim)
  <2>1. /\ n_decl' = n_decl /\ n_reg' = List!Cleared(n_reg) /\ n_held' = {}
        /\ n_answer' = NoData /\ n_reading' = NoData /\ n_asked' = [op |-> "reset"]
    BY <1>4 DEF List!Reset
  <2>2. /\ Shaped(n_reg) /\ n_reg.data \in [Nodes -> n_decl.DATA \cup {NoData}]
        /\ n_reg.next \in [Nodes -> Nodes] /\ n_reg.prev \in [Nodes -> Nodes]
    BY <1>1 DEF Shape, RegsOK
  <2>3. Shape(n_decl, List!Cleared(n_reg), {}, "none", AllFree, NoLists(n_decl))
    BY <1>2, <2>2, ClearedShape
  <2>4. Shape(n_decl', n_reg', n_held', "none", AllFree, NoLists(n_decl))
    BY <2>1, <2>3
  <2>5. ListsNow' = View(n_decl', n_reg', NoLists(n_decl))
    BY <2>4 DEF Seen, ListsDone
  <2>6. ListsNow = View(n_decl, n_reg, ListsDone(n_reg, b, C))
    BY <1>1 DEF Seen
  <2>7. ListsNow' = [h \in DOMAIN ListsNow |-> <<>>]
    <3>1. DOMAIN ListsNow = HeadsOf(n_decl)
      BY <2>6 DEF View
    <3>2. \A s : PairsOf(s, <<>>) = <<>>
      BY DEF PairsOf
    <3>3. \A h \in HeadsOf(n_decl) : NoLists(n_decl)[h] = <<>>
      BY DEF NoLists
    <3>4. ListsNow' = [h \in HeadsOf(n_decl) |-> PairsOf(n_reg', NoLists(n_decl)[h])]
      BY <2>1, <2>5 DEF View
    <3> QED BY <3>1, <3>2, <3>3, <3>4
  <2> DEFINE r == [op |-> "reset"]
  <2>8. r.op = "reset" /\ n_asked' = r
    BY <2>1
  <2> HIDE DEF r
  <2>9. List!Lists!Serve(r)
    BY <2>1, <2>7, <2>8, ServeIs
  <2>10. List!Lists!Next
    BY <2>1, <2>8, <2>9 DEF List!Lists!Next
  <2> QED BY <2>10
<1>5. ASSUME NEW r \in List!Requests, List!Edge(r) PROVE List!Lists!Next
  <2>1. List!Lists!Serve(r)
    <3>1. CASE b # "none"
      BY <1>1, <1>2, <1>5, <3>1, BusyServed
    <3>2. CASE b = "none" /\ r.op \in List!Insertions
      BY <1>1, <1>2, <1>5, <3>2, InsertionServed
    <3>3. CASE b = "none" /\ r.op \in Deletions
      BY <1>1, <1>2, <1>5, <3>3, DeletionServed
    <3>4. CASE b = "none" /\ r.op \notin List!Insertions /\ r.op \notin Deletions
      BY <1>1, <1>2, <1>5, <3>4, OtherServed
    <3> QED BY <3>1, <3>2, <3>3, <3>4
  <2>2. n_asked' = r /\ (r.op \notin List!Reads => n_reading' = NoData)
    BY <1>5, EdgeAnswers
  <2> QED BY <2>1, <2>2 DEF List!Lists!Next, List!Reads
<1> QED BY <1>3, <1>4, <1>5 DEF List!SimNext

(* At power-up every list is empty.                                        *)
LEMMA ListsInitial ==
    ASSUME ListsSupported, StorageInit PROVE List!Lists!Init
<1>1. /\ n_decl \in ListDecls /\ n_reg = List!PowerUp /\ n_held = {}
      /\ n_answer = NoData /\ n_reading = NoData
  BY DEF StorageInit, List!SimInit, List!Init
<1>2. Shape(n_decl, n_reg, n_held, "none", AllFree, NoLists(n_decl))
  BY <1>1, PowerUpShape
<1>3. ListsNow = View(n_decl, n_reg, ListsDone(n_reg, "none", NoLists(n_decl)))
  BY <1>1, <1>2, ListsAreSeen DEF Seen
<1>4. ListsNow = View(n_decl, n_reg, NoLists(n_decl))
  BY <1>3 DEF ListsDone
<1>5. \A h \in DOMAIN ListsNow : ListsNow[h] = <<>>
  <2>1. \A s : PairsOf(s, <<>>) = <<>>
    BY DEF PairsOf
  <2>2. \A h \in HeadsOf(n_decl) : NoLists(n_decl)[h] = <<>>
    BY DEF NoLists
  <2>3. ListsNow = [h \in HeadsOf(n_decl) |-> PairsOf(n_reg, NoLists(n_decl)[h])]
    BY <1>4 DEF View
  <2> QED BY <2>1, <2>2, <2>3
<1> QED BY <1>1, <1>5 DEF List!Lists!Init, ListsNow

(* What the controllers do to head, next and prev over one or two edges is *)
(* one operation on the ordered lists that the user asked for, and reads,  *)
(* next, prev and delete_head answer from those lists.                     *)
THEOREM StorageImplementsLists ==
    ASSUME ListsSupported PROVE StorageSpec => ImplementsLists
<1>1. StorageInit => ListInv /\ List!Lists!Init
  BY StorageInitial, ListsInitial
<1>2. ListInv /\ [StorageNext]_<<construct, fifos_vars, list_vars>> => ListInv'
  BY StorageStep
<1>3. ListInv => Seen
  BY ListsAreSeen DEF ListInv
<1>4. /\ ListInv /\ Seen /\ Seen' /\ [StorageNext]_<<construct, fifos_vars, list_vars>>
      => [List!Lists!Next]_(List!Lists!vars)
  <2> SUFFICES ASSUME ListInv, Seen, Seen',
                      [StorageNext]_<<construct, fifos_vars, list_vars>>
               PROVE  [List!Lists!Next]_(List!Lists!vars)
    OBVIOUS
  <2>1. [List!SimNext]_list_vars
    BY DEF StorageNext, Queues, Lists
  <2> QED BY <2>1, ListsServed
<1> QED BY <1>1, <1>2, <1>3, <1>4, PTL
        DEF StorageSpec, ImplementsLists, List!ImplementsLists, List!Lists!Spec

(* A design with storage behaves as its FIFOs do: each body, each class    *)
(* and the latency-0 circuit step or wait in every step of the design.     *)
THEOREM StorageHasFifos == StorageSpec => FifosSpec /\ BodiesSpec /\ Spec
<1>1. StorageInit => FifosInit /\ emit_fifo /\ Init
  BY DEF StorageInit, FifosInit, emit_fifo
<1>2. [StorageNext]_<<construct, fifos_vars, list_vars>> => [FifosNext]_fifos_vars
  BY DEF StorageNext, Queues, Lists
<1>3. [FifosNext]_fifos_vars => [BodiesNext]_body_vars
  BY DEF FifosNext, SystemVerilog, SingleClock, DualClock, fifos_vars
<1>4. [BodiesNext]_body_vars => [Next]_vars
  BY DEF BodiesNext, Latency0, Latency1, Latency1Overflow, KindLifo, body_vars
<1> QED BY <1>1, <1>2, <1>3, <1>4, PTL DEF StorageSpec, FifosSpec, BodiesSpec, Spec

(* The pointers of the latency-0 FIFO stay at most DEPTH apart and all     *)
(* slots between them were written, in a design with any storage.          *)
THEOREM StorageOccupancy ==
    ASSUME DepthFitsBody PROVE StorageSpec => [](TypeOK /\ OccupancyInv)
  BY StorageHasFifos, SyncFifoOccupancy, PTL

(* Its pushes and pops are those of the bounded queue, dropping the oldest *)
(* word under OVERFLOW.                                                    *)
THEOREM StorageImplementsQueue ==
    ASSUME DepthFitsBody PROVE StorageSpec => ImplementsQueue
  BY StorageHasFifos, SyncFifoImplementsQueue, PTL

(* So are those of the latency-1 FIFO, and the stack circuit is the bounded*)
(* stack.                                                                  *)
THEOREM StorageBodiesImplement ==
    ASSUME DepthFitsBody PROVE StorageSpec => BodiesImplement
  BY StorageHasFifos, BodiesImplementSpecs, PTL

(* A word offered is the one stored at the head, in the latency-1 circuit  *)
(* and in the fields of the C++ classes, in a design with any storage.     *)
THEOREM StorageHeadsAreFresh ==
    ASSUME DepthFitsBody PROVE StorageSpec => []HeadsAreFresh
  BY StorageHasFifos, FifosHeadsAreFresh, PTL

(* After every eval() call the C++ class of a linked list holds the        *)
(* registers of the circuit, although it assigns them one after the        *)
(* other. The class of a blocking FIFO of either latency, of a latency-1   *)
(* drop-oldest FIFO and of a dual-clock FIFO takes on a rising edge the    *)
(* step of its specification, and otherwise none; so does that of a LIFO   *)
(* on every edge that does not push and pop at once.  Nothing is said of   *)
(* a LIFO edge that does both, nor of a latency-0 drop-oldest FIFO: there  *)
(* the class differs from the circuit.                                     *)
THEOREM StorageClassesAgree ==
    ASSUME DepthFitsBody, ListsSupported PROVE StorageSpec => ClassesAgree
<1>1. StorageSpec => ClassesImplement
  BY StorageHasFifos, FifoClassesImplement, PTL
<1>2. StorageInit => ListInv
  BY StorageInitial
<1>3. ListInv /\ [StorageNext]_<<construct, fifos_vars, list_vars>> => ListInv'
  BY StorageStep
<1>4. ListInv => List!SimAgrees
  BY InvPromises
<1>5. StorageSpec => [][List!SimAgrees']_list_vars
  BY <1>2, <1>3, <1>4, PTL DEF StorageSpec
<1> QED BY <1>1, <1>5, PTL DEF ClassesAgree, ClassesImplement
=============================================================================
