-------------------------- MODULE AsyncFifoProofs --------------------------
(***************************************************************************)
(* The dual-clock FIFO for every DEPTH that is a power of two and both     *)
(* latencies: the pointers each side sees are late and never wrong, and    *)
(* the circuit is the elastic queue, whatever the two clocks and the       *)
(* sampling flip-flops do.                                                 *)
(***************************************************************************)
EXTENDS AsyncFifo, FiniteSetTheorems, SequenceTheorems, WellFoundedInduction, TLAPS

(* The depths and the setting the body is meant for: pointers index mem    *)
(* with all values of their low bits, and pushes block.                    *)
Fits == Half = DEPTH /\ OVERFLOW = FALSE
-----------------------------------------------------------------------------
(* Induction over data, as the absence of a least counterexample.          *)
LEMMA LeastNatural ==
    ASSUME NEW S \in SUBSET Nat, S # {}
    PROVE  \E m \in S : \A k \in S : m <= k
<1> DEFINE T == {1..n : n \in S}
           R == StrictSubsetOrdering(Nat)
<1>1. \A n \in S : 1..n \in FiniteSubsetsOf(Nat)
  BY FS_Interval DEF FiniteSubsetsOf
<1>2. T \subseteq FiniteSubsetsOf(Nat) /\ T # {}
  BY <1>1
<1>3. IsWellFoundedOn(R, FiniteSubsetsOf(Nat))
  BY FS_StrictSubsetOrderingWellFounded
<1> HIDE DEF R
<1>4. PICK x \in T : \A y \in T : <<y, x>> \notin R
  <2> HIDE DEF T
  <2> QED BY <1>2, <1>3, WFMin
<1>5. PICK m \in S : x = 1..m
  OBVIOUS
<1>6. ASSUME NEW k \in S, ~(m <= k) PROVE FALSE
  <2>1. 1..k \subseteq 1..m /\ m \in 1..m /\ m \notin 1..k
    BY <1>6
  <2>2. <<1..k, 1..m>> \in R
    BY <2>1 DEF R, StrictSubsetOrdering
  <2> QED BY <1>4, <1>5, <2>2
<1> QED BY <1>6

(* A set that holds 0 and, with every number below n, the next one.        *)
LEMMA UpTo ==
    ASSUME NEW n \in Nat, NEW T, 0 \in T, \A k \in 0..(n - 1) : k \in T => k + 1 \in T
    PROVE  \A k \in 0..n : k \in T
<1> DEFINE Bad == {k \in 0..n : k \notin T}
<1> SUFFICES ASSUME Bad # {} PROVE FALSE
  OBVIOUS
<1>1. PICK m \in Bad : \A k \in Bad : m <= k
  <2>1. Bad \in SUBSET Nat
    OBVIOUS
  <2> QED BY <2>1, LeastNatural
<1>2. m \in 0..n /\ m \notin T /\ m # 0
  OBVIOUS
<1>3. m - 1 \in 0..(n - 1) /\ m - 1 \notin Bad /\ (m - 1) + 1 = m /\ m - 1 \in 0..n
  BY <1>1, <1>2
<1>4. m - 1 \in T
  BY <1>3
<1> QED BY <1>2, <1>3, <1>4

(* A recursion over 0..n that applies F again and again has a solution.    *)
Iterates(f, F, a, n) == f = [k \in 0..n |-> IF k = 0 THEN a ELSE F[f[k - 1]]]

(* The solution exists, and its values are in F's domain.                  *)
LEMMA IterationExists ==
    ASSUME NEW S, NEW F \in [S -> S], NEW a \in S, NEW n \in Nat
    PROVE  \E f \in [0..n -> S] : Iterates(f, F, a, n)
<1> DEFINE T == {k \in Nat : \E f \in [0..k -> S] : Iterates(f, F, a, k)}
<1>1. 0 \in T
  <2> DEFINE f == [k \in 0..0 |-> a]
  <2>1. f = [k \in 0..0 |-> IF k = 0 THEN a ELSE F[f[k - 1]]]
    OBVIOUS
  <2>2. f \in [0..0 -> S]
    OBVIOUS
  <2> QED BY <2>1, <2>2 DEF Iterates
<1>2. ASSUME NEW k \in Nat, NEW f \in [0..k -> S], Iterates(f, F, a, k) PROVE k + 1 \in T
  <2> DEFINE h == [i \in 0..(k + 1) |-> IF i = k + 1 THEN F[f[k]] ELSE f[i]]
  <2>1. \A i \in 0..k : h[i] = f[i] /\ f[i] = IF i = 0 THEN a ELSE F[f[i - 1]]
    BY <1>2 DEF Iterates
  <2>2. h \in [0..(k + 1) -> S]
    <3>1. k \in 0..k /\ \A i \in 0..(k + 1) : i # k + 1 => i \in 0..k
      OBVIOUS
    <3>2. F[f[k]] \in S /\ \A i \in 0..k : f[i] \in S
      BY <3>1
    <3> QED BY <3>1, <3>2
  <2>3. \A i \in 0..(k + 1) : h[i] = IF i = 0 THEN a ELSE F[h[i - 1]]
    <3> SUFFICES ASSUME NEW i \in 0..(k + 1) PROVE h[i] = IF i = 0 THEN a ELSE F[h[i - 1]]
      OBVIOUS
    <3>1. CASE i = k + 1
      <4>1. h[i] = F[f[k]] /\ i - 1 = k /\ k \in 0..k /\ i # 0
        BY <3>1
      <4> QED BY <2>1, <4>1
    <3>2. CASE i # k + 1
      <4>1. i \in 0..k /\ (i # 0 => i - 1 \in 0..k)
        BY <3>2
      <4> HIDE DEF h
      <4> QED BY <2>1, <4>1
    <3> QED BY <3>1, <3>2
  <2>4. h = [i \in 0..(k + 1) |-> h[i]]
    OBVIOUS
  <2> HIDE DEF h
  <2>5. h = [i \in 0..(k + 1) |-> IF i = 0 THEN a ELSE F[h[i - 1]]]
    BY <2>3, <2>4
  <2>6. k + 1 \in Nat /\ Iterates(h, F, a, k + 1)
    BY <2>5 DEF Iterates
  <2>7. \E e \in [0..(k + 1) -> S] : Iterates(e, F, a, k + 1)
    BY <2>2, <2>6
  <2> QED BY <2>6, <2>7
<1>3. n \in T
  <2>1. \A k \in 0..(n - 1) : k \in T => k + 1 \in T
    BY <1>2
  <2> HIDE DEF T
  <2>2. \A k \in 0..n : k \in T
    BY <1>1, <2>1, UpTo
  <2> QED BY <2>2
<1> QED BY <1>3

(* The powers of two.                                                      *)
LEMMA Pow2Facts ==
    /\ Pow2[0] = 1
    /\ \A n \in 0..(DEPTH - 1) : Pow2[n + 1] = 2 * Pow2[n]
    /\ \A n \in 0..DEPTH : Pow2[n] \in Nat /\ Pow2[n] > n
<1> USE AsyncFifoAssumption
<1> DEFINE F == [x \in Nat |-> 2 * x]
<1>1. F \in [Nat -> Nat] /\ DEPTH \in Nat /\ 1 \in Nat
  OBVIOUS
<1>2. PICK f \in [0..DEPTH -> Nat] : Iterates(f, F, 1, DEPTH)
  BY <1>1, IterationExists
<1>3. f = [n \in 0..DEPTH |-> IF n = 0 THEN 1 ELSE 2 * f[n - 1]]
  <2>1. \A n \in 0..DEPTH : n # 0 => F[f[n - 1]] = 2 * f[n - 1]
    <3> SUFFICES ASSUME NEW n \in 0..DEPTH, n # 0 PROVE F[f[n - 1]] = 2 * f[n - 1]
      OBVIOUS
    <3>1. n - 1 \in 0..DEPTH
      OBVIOUS
    <3>2. f[n - 1] \in Nat
      BY <3>1
    <3> QED BY <3>2
  <2> HIDE DEF F
  <2>2. f = [n \in 0..DEPTH |-> IF n = 0 THEN 1 ELSE F[f[n - 1]]]
    BY <1>2 DEF Iterates
  <2> QED BY <2>1, <2>2
<1>4. \E g : g = [n \in 0..DEPTH |-> IF n = 0 THEN 1 ELSE 2 * g[n - 1]]
  BY <1>3
<1>5. Pow2 = [n \in 0..DEPTH |-> IF n = 0 THEN 1 ELSE 2 * Pow2[n - 1]]
  BY <1>4 DEF Pow2
<1>6. Pow2[0] = 1
  <2>1. 0 \in 0..DEPTH
    OBVIOUS
  <2> QED BY <1>5, <2>1
<1>7. ASSUME NEW n \in 0..(DEPTH - 1) PROVE Pow2[n + 1] = 2 * Pow2[n]
  <2>1. n + 1 \in 0..DEPTH /\ n + 1 # 0 /\ (n + 1) - 1 = n
    OBVIOUS
  <2> QED BY <1>5, <2>1
<1>8. \A n \in 0..DEPTH : Pow2[n] \in Nat /\ Pow2[n] > n
  <2> DEFINE T == {n \in Nat : Pow2[n] \in Nat /\ Pow2[n] > n}
  <2>1. 0 \in T
    BY <1>6
  <2>2. ASSUME NEW k \in 0..(DEPTH - 1), k \in T PROVE k + 1 \in T
    <3>1. Pow2[k + 1] = 2 * Pow2[k] /\ Pow2[k] \in Nat /\ Pow2[k] > k
      BY <1>7, <2>2
    <3>2. 2 * Pow2[k] \in Nat /\ 2 * Pow2[k] > k + 1
      BY <3>1
    <3> QED BY <3>1, <3>2
  <2> HIDE DEF T
  <2>3. \A n \in 0..DEPTH : n \in T
    BY <1>1, <2>1, <2>2, UpTo
  <2> QED BY <2>3 DEF T
<1> QED BY <1>6, <1>7, <1>8

(* The width of the pointers: PTR_W - 1 bits index Half >= DEPTH slots.    *)
LEMMA WidthFacts ==
    /\ PTR_W \in Nat /\ PTR_W - 1 \in 1..DEPTH
    /\ Half \in Nat /\ Half >= DEPTH /\ Half = Pow2[PTR_W - 1]
<1> USE AsyncFifoAssumption
<1> DEFINE Enough == {n \in 0..DEPTH : Pow2[n] >= DEPTH}
           Fit(w) == Pow2[w] >= DEPTH /\ Pow2[w - 1] < DEPTH
<1>1. DEPTH \in Enough /\ Enough \in SUBSET Nat
  BY Pow2Facts
<1>2. PICK w \in Enough : \A k \in Enough : w <= k
  BY <1>1, LeastNatural
<1>3. w \in 0..DEPTH /\ Pow2[w] >= DEPTH /\ w # 0
  BY <1>2, Pow2Facts
<1>4. w - 1 \in 0..DEPTH /\ ~(w <= w - 1)
  BY <1>3
<1>5. w - 1 \notin Enough
  BY <1>2, <1>4
<1>6. Pow2[w - 1] < DEPTH
  BY <1>4, <1>5, Pow2Facts
<1>7. w \in 1..DEPTH /\ Fit(w)
  BY <1>3, <1>6
<1>8. PICK v \in 1..DEPTH : Fit(v) /\ v = CHOOSE u \in 1..DEPTH : Fit(u)
  BY <1>7
<1>9. PTR_W = v + 1
  BY <1>8 DEF PTR_W
<1>10. PTR_W \in Nat /\ PTR_W - 1 = v
  BY <1>9
<1> QED BY <1>8, <1>10, Pow2Facts DEF Half
-----------------------------------------------------------------------------
(* Halving: bit i of p is the parity of p >> i.                            *)
LEMMA ShiftFacts ==
    ASSUME NEW p \in Nat
    PROVE  /\ ShiftRight(p)[0] = p
           /\ \A i \in 0..PTR_W : ShiftRight(p)[i] \in Nat
           /\ \A i \in 0..(PTR_W - 1) : ShiftRight(p)[i + 1] = ShiftRight(p)[i] \div 2
<1> DEFINE F == [x \in Nat |-> x \div 2]
           s == ShiftRight(p)
<1>1. F \in [Nat -> Nat] /\ PTR_W \in Nat
  BY WidthFacts
<1>2. PICK f \in [0..PTR_W -> Nat] : Iterates(f, F, p, PTR_W)
  BY <1>1, IterationExists
<1>3. f = [i \in 0..PTR_W |-> IF i = 0 THEN p ELSE f[i - 1] \div 2]
  <2>1. \A i \in 0..PTR_W : i # 0 => F[f[i - 1]] = f[i - 1] \div 2
    <3> SUFFICES ASSUME NEW i \in 0..PTR_W, i # 0 PROVE F[f[i - 1]] = f[i - 1] \div 2
      OBVIOUS
    <3>1. i - 1 \in 0..PTR_W
      BY <1>1
    <3>2. f[i - 1] \in Nat
      BY <3>1
    <3> QED BY <3>2
  <2> HIDE DEF F
  <2>2. f = [i \in 0..PTR_W |-> IF i = 0 THEN p ELSE F[f[i - 1]]]
    BY <1>2 DEF Iterates
  <2> QED BY <2>1, <2>2
<1>4. \E g : g = [i \in 0..PTR_W |-> IF i = 0 THEN p ELSE g[i - 1] \div 2]
  BY <1>3
<1>5. s = [i \in 0..PTR_W |-> IF i = 0 THEN p ELSE s[i - 1] \div 2]
  BY <1>4 DEF ShiftRight
<1> HIDE DEF s
<1>6. s[0] = p
  <2>1. 0 \in 0..PTR_W
    BY <1>1
  <2> QED BY <1>5, <2>1
<1>7. ASSUME NEW i \in 0..(PTR_W - 1) PROVE s[i + 1] = s[i] \div 2
  <2>1. i + 1 \in 0..PTR_W /\ i + 1 # 0 /\ (i + 1) - 1 = i
    BY <1>1
  <2> QED BY <1>5, <2>1
<1>8. \A i \in 0..PTR_W : s[i] \in Nat
  <2> DEFINE T == {i \in Nat : s[i] \in Nat}
  <2>1. 0 \in T
    BY <1>6
  <2>2. ASSUME NEW k \in 0..(PTR_W - 1), k \in T PROVE k + 1 \in T
    <3>1. s[k + 1] = s[k] \div 2 /\ s[k] \in Nat
      BY <1>7, <2>2
    <3> QED BY <3>1
  <2> HIDE DEF T
  <2>3. \A i \in 0..PTR_W : i \in T
    BY <1>1, <2>1, <2>2, UpTo
  <2> QED BY <2>3 DEF T
<1> QED BY <1>6, <1>7, <1>8 DEF s

(* A pointer has PTR_W bits.                                               *)
LEMMA TopIsZero ==
    ASSUME NEW p \in Ptr
    PROVE  p \in Nat /\ ShiftRight(p)[PTR_W] = 0
<1> DEFINE w == PTR_W - 1
           s == ShiftRight(p)
<1>1. w \in 1..DEPTH /\ PTR_W \in Nat /\ w \in Nat /\ w + 1 = PTR_W /\ DEPTH \in Nat
  BY WidthFacts, AsyncFifoAssumption
<1>2. p \in Nat /\ p < 2 * Pow2[w] /\ Pow2[w] \in Nat
  BY WidthFacts DEF Ptr
<1>3. /\ s[0] = p
      /\ \A i \in 0..PTR_W : s[i] \in Nat
      /\ \A i \in 0..w : s[i + 1] = s[i] \div 2
  BY <1>2, ShiftFacts
<1>4. \A n \in 0..(DEPTH - 1) : Pow2[n + 1] = 2 * Pow2[n] /\ Pow2[n] \in Nat
  BY <1>1, Pow2Facts
<1> HIDE DEF w, s
<1>5. \A i \in 0..w : s[i] < 2 * Pow2[w - i]
  <2> DEFINE T == {i \in Nat : s[i] < 2 * Pow2[w - i]}
  <2>1. 0 \in T
    BY <1>1, <1>2, <1>3
  <2>2. ASSUME NEW k \in 0..(w - 1), k \in T PROVE k + 1 \in T
    <3>1. w - (k + 1) \in 0..(DEPTH - 1) /\ (w - (k + 1)) + 1 = w - k /\ k \in 0..w
          /\ k \in 0..PTR_W
      BY <1>1
    <3>2. Pow2[w - k] = 2 * Pow2[w - (k + 1)] /\ Pow2[w - (k + 1)] \in Nat
      BY <1>4, <3>1
    <3>3. s[k + 1] = s[k] \div 2 /\ s[k] \in Nat /\ s[k] < 2 * Pow2[w - k]
      BY <1>3, <2>2, <3>1
    <3>4. s[k + 1] < 2 * Pow2[w - (k + 1)]
      BY <3>2, <3>3
    <3> QED BY <3>4
  <2> HIDE DEF T
  <2>3. \A i \in 0..w : i \in T
    BY <1>1, <2>1, <2>2, UpTo
  <2> QED BY <2>3 DEF T
<1>6. w \in 0..w /\ w - w = 0 /\ w \in 0..PTR_W
  BY <1>1
<1>7. s[w] < 2 /\ s[w] \in Nat /\ s[w + 1] = s[w] \div 2
  BY <1>3, <1>5, <1>6, Pow2Facts
<1>8. s[w + 1] = 0
  BY <1>7
<1> QED BY <1>1, <1>2, <1>8 DEF s

(* The last pointer has every bit set.                                     *)
LEMMA LastIsOnes ==
    ASSUME NEW p, p = 2 * Half - 1, NEW i \in BitIndex
    PROVE  Bit(p, i) = 1
<1> DEFINE w == PTR_W - 1
           s == ShiftRight(p)
<1>1. w \in 1..DEPTH /\ PTR_W \in Nat /\ w \in Nat /\ w + 1 = PTR_W /\ DEPTH \in Nat
  BY WidthFacts, AsyncFifoAssumption
<1>2. p \in Nat /\ p = 2 * Pow2[w] - 1 /\ Pow2[w] \in Nat
  BY WidthFacts, AsyncFifoAssumption
<1>3. /\ s[0] = p
      /\ \A j \in 0..PTR_W : s[j] \in Nat
      /\ \A j \in 0..w : s[j + 1] = s[j] \div 2
  BY <1>2, ShiftFacts
<1>4. \A n \in 0..(DEPTH - 1) : Pow2[n + 1] = 2 * Pow2[n] /\ Pow2[n] \in Nat /\ Pow2[n] > 0
  BY <1>1, Pow2Facts
<1> HIDE DEF w, s
<1>5. \A j \in 0..w : s[j] = 2 * Pow2[w - j] - 1
  <2> DEFINE T == {j \in Nat : s[j] = 2 * Pow2[w - j] - 1}
  <2>1. 0 \in T
    BY <1>1, <1>2, <1>3
  <2>2. ASSUME NEW k \in 0..(w - 1), k \in T PROVE k + 1 \in T
    <3>1. w - (k + 1) \in 0..(DEPTH - 1) /\ (w - (k + 1)) + 1 = w - k /\ k \in 0..w
          /\ k \in 0..PTR_W
      BY <1>1
    <3>2. /\ Pow2[w - k] = 2 * Pow2[w - (k + 1)]
          /\ Pow2[w - (k + 1)] \in Nat /\ Pow2[w - (k + 1)] > 0
      BY <1>4, <3>1
    <3>3. s[k + 1] = s[k] \div 2 /\ s[k] \in Nat /\ s[k] = 2 * Pow2[w - k] - 1
      BY <1>3, <2>2, <3>1
    <3>4. s[k + 1] = 2 * Pow2[w - (k + 1)] - 1
      BY <3>2, <3>3
    <3> QED BY <3>4
  <2> HIDE DEF T
  <2>3. \A j \in 0..w : j \in T
    BY <1>1, <2>1, <2>2, UpTo
  <2> QED BY <2>3 DEF T
<1>6. i \in 0..w /\ w - i \in 0..DEPTH
  BY <1>1 DEF BitIndex, w
<1>7. s[i] = 2 * Pow2[w - i] - 1 /\ Pow2[w - i] \in Nat
  BY <1>5, <1>6, Pow2Facts
<1>8. s[i] % 2 = 1
  BY <1>7
<1> QED BY <1>8 DEF Bit, s

(* 0 has none.                                                             *)
LEMMA ZeroHasNone ==
    \A i \in 0..PTR_W : Bit(0, i) = 0
<1> DEFINE s == ShiftRight(0)
<1>1. /\ s[0] = 0 /\ PTR_W \in Nat
      /\ \A j \in 0..(PTR_W - 1) : s[j + 1] = s[j] \div 2
  BY ShiftFacts, WidthFacts
<1> HIDE DEF s
<1> DEFINE T == {j \in Nat : s[j] = 0}
<1>2. 0 \in T
  BY <1>1
<1>3. ASSUME NEW k \in 0..(PTR_W - 1), k \in T PROVE k + 1 \in T
  BY <1>1, <1>3
<1> HIDE DEF T
<1>4. \A j \in 0..PTR_W : j \in T
  BY <1>1, <1>2, <1>3, UpTo
<1>5. \A j \in 0..PTR_W : s[j] % 2 = 0
  BY <1>4 DEF T
<1> QED BY <1>5 DEF Bit, s

(* Counting up carries into place i when all places below hold ones.       *)
Carry(p, i) == \A j \in 0..(i - 1) : Bit(p, j) = 1

(* p + 1 has p's bits, inverted where the carry reaches.                   *)
LEMMA CountUp ==
    ASSUME NEW p \in Nat, NEW i \in 0..PTR_W
    PROVE  ShiftRight(p + 1)[i] = ShiftRight(p)[i] + IF Carry(p, i) THEN 1 ELSE 0
<1> DEFINE s == ShiftRight(p)
           t == ShiftRight(p + 1)
           T == {k \in Nat : t[k] = s[k] + IF Carry(p, k) THEN 1 ELSE 0}
<1>1. /\ s[0] = p /\ PTR_W \in Nat
      /\ \A j \in 0..PTR_W : s[j] \in Nat
      /\ \A j \in 0..(PTR_W - 1) : s[j + 1] = s[j] \div 2
  BY ShiftFacts, WidthFacts
<1>2. /\ t[0] = p + 1
      /\ \A j \in 0..PTR_W : t[j] \in Nat
      /\ \A j \in 0..(PTR_W - 1) : t[j + 1] = t[j] \div 2
  <2>1. p + 1 \in Nat
    OBVIOUS
  <2> QED BY <2>1, ShiftFacts
<1>3. \A j : Bit(p, j) = s[j] % 2
  BY DEF Bit
<1> HIDE DEF s, t
<1>4. 0 \in T
  <2>1. Carry(p, 0)
    BY DEF Carry
  <2> QED BY <1>1, <1>2, <2>1
<1>5. ASSUME NEW k \in 0..(PTR_W - 1), k \in T PROVE k + 1 \in T
  <2>1. k \in 0..PTR_W /\ s[k] \in Nat /\ t[k] = s[k] + IF Carry(p, k) THEN 1 ELSE 0
    BY <1>1, <1>5
  <2>2. s[k + 1] = s[k] \div 2 /\ t[k + 1] = t[k] \div 2
    BY <1>1, <1>2
  <2>3. Carry(p, k + 1) <=> Carry(p, k) /\ s[k] % 2 = 1
    <3>1. 0..((k + 1) - 1) = (0..(k - 1)) \cup {k}
      BY <1>1
    <3> QED BY <1>3, <3>1 DEF Carry
  <2>4. CASE Carry(p, k)
    <3>1. t[k + 1] = (s[k] + 1) \div 2
      BY <2>1, <2>2, <2>4
    <3>2. t[k + 1] = s[k + 1] + IF s[k] % 2 = 1 THEN 1 ELSE 0
      BY <2>1, <2>2, <3>1
    <3> QED BY <2>3, <2>4, <3>2
  <2>5. CASE ~Carry(p, k)
    <3>1. t[k + 1] = s[k + 1] + 0
      BY <2>1, <2>2, <2>5
    <3> QED BY <2>3, <2>5, <3>1
  <2> QED BY <2>4, <2>5
<1> HIDE DEF T
<1>6. \A k \in 0..PTR_W : k \in T
  BY <1>1, <1>4, <1>5, UpTo
<1> QED BY <1>6 DEF T, s, t
-----------------------------------------------------------------------------
(* The bits of a pointer.                                                  *)
LEMMA BitFacts ==
    ASSUME NEW p \in Ptr
    PROVE  /\ p \in Nat /\ Bit(p, PTR_W) = 0
           /\ \A i \in 0..PTR_W : Bit(p, i) \in {0, 1}
<1>1. p \in Nat /\ ShiftRight(p)[PTR_W] = 0
  BY TopIsZero
<1>2. \A i \in 0..PTR_W : ShiftRight(p)[i] \in Nat
  BY <1>1, ShiftFacts
<1>3. \A i \in 0..PTR_W : ShiftRight(p)[i] % 2 \in {0, 1}
  BY <1>2
<1> QED BY <1>1, <1>3 DEF Bit

(* Pointers with the same bits are the same.                               *)
LEMMA BitsDetermine ==
    ASSUME NEW p \in Ptr, NEW q \in Ptr, \A i \in BitIndex : Bit(p, i) = Bit(q, i)
    PROVE  p = q
<1> DEFINE s == ShiftRight(p)
           t == ShiftRight(q)
           T == {n \in Nat : s[PTR_W - n] = t[PTR_W - n]}
<1>1. PTR_W \in Nat /\ p \in Nat /\ q \in Nat /\ s[PTR_W] = 0 /\ t[PTR_W] = 0
  BY TopIsZero, WidthFacts
<1>2. /\ s[0] = p
      /\ \A i \in 0..PTR_W : s[i] \in Nat
      /\ \A i \in 0..(PTR_W - 1) : s[i + 1] = s[i] \div 2
  BY <1>1, ShiftFacts
<1>3. /\ t[0] = q
      /\ \A i \in 0..PTR_W : t[i] \in Nat
      /\ \A i \in 0..(PTR_W - 1) : t[i + 1] = t[i] \div 2
  BY <1>1, ShiftFacts
<1>4. \A i \in 0..(PTR_W - 1) : s[i] % 2 = t[i] % 2
  BY DEF Bit, BitIndex
<1> HIDE DEF s, t
<1>5. 0 \in T
  BY <1>1
<1>6. ASSUME NEW n \in 0..(PTR_W - 1), n \in T PROVE n + 1 \in T
  <2> DEFINE i == PTR_W - (n + 1)
  <2>1. i \in 0..(PTR_W - 1) /\ i \in 0..PTR_W /\ i + 1 = PTR_W - n
    BY <1>1
  <2>2. s[i + 1] = t[i + 1]
    BY <1>6, <2>1
  <2>3. s[i] \in Nat /\ t[i] \in Nat /\ s[i] \div 2 = t[i] \div 2 /\ s[i] % 2 = t[i] % 2
    BY <1>2, <1>3, <1>4, <2>1, <2>2
  <2> HIDE DEF i
  <2>4. s[i] = t[i]
    BY <2>3
  <2> QED BY <2>4 DEF i
<1> HIDE DEF T
<1>7. \A n \in 0..PTR_W : n \in T
  BY <1>1, <1>5, <1>6, UpTo
<1>8. PTR_W \in 0..PTR_W /\ PTR_W - PTR_W = 0
  BY <1>1
<1>9. s[0] = t[0]
  BY <1>7, <1>8 DEF T
<1> QED BY <1>2, <1>3, <1>9

(* The Gray code of a pointer.                                             *)
LEMMA CodeIs ==
    ASSUME NEW p \in Ptr
    PROVE  /\ bin2gray(p) \in Gray
           /\ \A i \in BitIndex : bin2gray(p)[i] = (Bit(p, i) + Bit(p, i + 1)) % 2
<1>1. bin2gray(p) = [i \in BitIndex |-> (Bit(p, i) + Bit(p, i + 1)) % 2]
  BY DEF bin2gray, GrayOf
<1>2. ASSUME NEW i \in BitIndex PROVE (Bit(p, i) + Bit(p, i + 1)) % 2 \in {0, 1}
  <2>1. i \in 0..PTR_W /\ i + 1 \in 0..PTR_W
    BY WidthFacts DEF BitIndex
  <2>2. Bit(p, i) \in {0, 1} /\ Bit(p, i + 1) \in {0, 1}
    BY <2>1, BitFacts
  <2> QED BY <2>2
<1> QED BY <1>1, <1>2 DEF Gray

(* The ones of a code word from place i up.                                *)
OnesFrom(g, i) == {j \in i..(PTR_W - 1) : g[j] = 1}

(* Their number is odd iff the pointer has bit i: what gray2bin computes.  *)
LEMMA CodeParity ==
    ASSUME NEW p \in Ptr, NEW i \in BitIndex
    PROVE  Cardinality(OnesFrom(bin2gray(p), i)) % 2 = Bit(p, i)
<1> DEFINE g == bin2gray(p)
           T == {n \in Nat : Cardinality(OnesFrom(g, PTR_W - n)) % 2 = Bit(p, PTR_W - n)}
<1>1. PTR_W \in Nat /\ Bit(p, PTR_W) = 0 /\ \A j \in 0..PTR_W : Bit(p, j) \in {0, 1}
  BY BitFacts, WidthFacts
<1>2. \A j \in 0..(PTR_W - 1) : g[j] = (Bit(p, j) + Bit(p, j + 1)) % 2
  BY CodeIs DEF BitIndex
<1> HIDE DEF g
<1>3. 0 \in T
  <2>1. OnesFrom(g, PTR_W - 0) = {}
    BY <1>1 DEF OnesFrom
  <2>2. Cardinality(OnesFrom(g, PTR_W - 0)) = 0
    BY <2>1, FS_EmptySet
  <2> QED BY <1>1, <2>2
<1>4. ASSUME NEW n \in 0..(PTR_W - 1), n \in T PROVE n + 1 \in T
  <2> DEFINE j == PTR_W - (n + 1)
  <2>1. j \in 0..(PTR_W - 1) /\ j + 1 = PTR_W - n /\ j \in 0..PTR_W /\ j + 1 \in 0..PTR_W
    BY <1>1
  <2>2. Cardinality(OnesFrom(g, j + 1)) % 2 = Bit(p, j + 1)
    BY <1>4, <2>1
  <2>3. /\ g[j] = (Bit(p, j) + Bit(p, j + 1)) % 2
        /\ Bit(p, j) \in {0, 1} /\ Bit(p, j + 1) \in {0, 1}
    BY <1>1, <1>2, <2>1
  <2> HIDE DEF j
  <2>4. /\ j \notin OnesFrom(g, j + 1)
        /\ OnesFrom(g, j) = IF g[j] = 1 THEN OnesFrom(g, j + 1) \cup {j} ELSE OnesFrom(g, j + 1)
    <3>1. j..(PTR_W - 1) = ((j + 1)..(PTR_W - 1)) \cup {j} /\ j \notin (j + 1)..(PTR_W - 1)
      BY <1>1, <2>1
    <3> QED BY <3>1 DEF OnesFrom
  <2>5. IsFiniteSet(OnesFrom(g, j + 1))
    <3>1. j + 1 \in Int /\ PTR_W - 1 \in Int
      BY <1>1, <2>1
    <3>2. IsFiniteSet((j + 1)..(PTR_W - 1))
      BY <3>1, FS_Interval
    <3> QED BY <3>2, FS_Subset DEF OnesFrom
  <2>6. PICK c \in Nat : c = Cardinality(OnesFrom(g, j + 1))
    BY <2>5, FS_CardinalityType
  <2>7. Cardinality(OnesFrom(g, j)) = IF g[j] = 1 THEN c + 1 ELSE c
    BY <2>4, <2>5, <2>6, FS_AddElement
  <2>8. Cardinality(OnesFrom(g, j)) % 2 = Bit(p, j)
    BY <2>2, <2>3, <2>6, <2>7
  <2> QED BY <2>8 DEF j
<1> HIDE DEF T
<1>5. \A n \in 0..PTR_W : n \in T
  BY <1>1, <1>3, <1>4, UpTo
<1>6. PTR_W - i \in 0..PTR_W /\ PTR_W - (PTR_W - i) = i
  BY <1>1 DEF BitIndex
<1>7. PTR_W - i \in T
  BY <1>5, <1>6
<1> QED BY <1>6, <1>7 DEF T, g

(* The decoder inverts the encoder.                                        *)
LEMMA GrayInverse ==
    ASSUME NEW p \in Ptr
    PROVE  gray2bin(bin2gray(p)) = p
<1> DEFINE g == bin2gray(p)
           Decoded(b) == \A i \in BitIndex : Bit(b, i) = Cardinality(OnesFrom(g, i)) % 2
<1>1. g \in Gray /\ Decoded(p)
  BY CodeIs, CodeParity
<1>2. gray2bin(g) = CHOOSE b \in Ptr : Decoded(b)
  BY <1>1 DEF gray2bin, BinOf, OnesFrom
<1>3. \A b \in Ptr : Decoded(b) => b = p
  <2> SUFFICES ASSUME NEW b \in Ptr, Decoded(b) PROVE b = p
    OBVIOUS
  <2>1. \A i \in BitIndex : Bit(b, i) = Bit(p, i)
    BY <1>1
  <2> QED BY <2>1, BitsDetermine
<1> HIDE DEF Decoded
<1>4. (CHOOSE b \in Ptr : Decoded(b)) = p
  BY <1>1, <1>3
<1> QED BY <1>2, <1>4

(* The next pointer.                                                       *)
LEMMA NextIs ==
    ASSUME NEW p \in Ptr
    PROVE  NextPtr(p) = (IF p = 2 * Half - 1 THEN 0 ELSE p + 1) /\ NextPtr(p) \in Ptr
<1>1. Half \in Nat /\ Half > 0 /\ p \in 0..(2 * Half - 1)
  BY WidthFacts, AsyncFifoAssumption DEF Ptr
<1>2. CASE p = 2 * Half - 1
  <2>1. p + 1 = 2 * Half /\ (2 * Half) % (2 * Half) = 0
    BY <1>1, <1>2
  <2> QED BY <1>1, <1>2, <2>1 DEF NextPtr, Ptr
<1>3. CASE p # 2 * Half - 1
  <2>1. (p + 1) % (2 * Half) = p + 1
    BY <1>1, <1>3
  <2> QED BY <1>1, <1>3, <2>1 DEF NextPtr, Ptr
<1> QED BY <1>2, <1>3

(* One bit of the code changes when the pointer moves.                     *)
LEMMA GrayStep ==
    ASSUME NEW p \in Ptr
    PROVE  \E z : \A i \in BitIndex : i # z => bin2gray(p)[i] = bin2gray(NextPtr(p))[i]
<1> DEFINE q == NextPtr(p)
<1>1. /\ p \in Nat /\ PTR_W \in Nat /\ PTR_W >= 1 /\ q \in Ptr
      /\ q = IF p = 2 * Half - 1 THEN 0 ELSE p + 1
      /\ BitIndex = 0..(PTR_W - 1)
  BY NextIs, BitFacts, WidthFacts DEF BitIndex
<1>2. /\ \A i \in 0..PTR_W : Bit(p, i) \in {0, 1} /\ Bit(q, i) \in {0, 1}
      /\ Bit(p, PTR_W) = 0 /\ Bit(q, PTR_W) = 0
  BY <1>1, BitFacts
<1>3. /\ \A i \in BitIndex : bin2gray(p)[i] = (Bit(p, i) + Bit(p, i + 1)) % 2
      /\ \A i \in BitIndex : bin2gray(q)[i] = (Bit(q, i) + Bit(q, i + 1)) % 2
  BY <1>1, CodeIs
<1> SUFFICES \E z : \A i \in BitIndex : i # z => bin2gray(p)[i] = bin2gray(q)[i]
  OBVIOUS
<1>4. CASE p = 2 * Half - 1
  <2>1. ASSUME NEW i \in BitIndex, i # PTR_W - 1 PROVE bin2gray(p)[i] = bin2gray(q)[i]
    <3>1. i + 1 \in BitIndex /\ i \in 0..PTR_W /\ i + 1 \in 0..PTR_W
      BY <1>1, <2>1
    <3>2. Bit(p, i) = 1 /\ Bit(p, i + 1) = 1 /\ Bit(q, i) = 0 /\ Bit(q, i + 1) = 0
      BY <1>1, <1>4, <3>1, LastIsOnes, ZeroHasNone
    <3>3. bin2gray(p)[i] = (1 + 1) % 2 /\ bin2gray(q)[i] = (0 + 0) % 2
      BY <1>3, <3>2
    <3> QED BY <3>3
  <2> QED BY <2>1
<1>5. CASE p # 2 * Half - 1
  <2> DEFINE Stopped == {i \in 0..PTR_W : ~Carry(p, i)}
             s == ShiftRight(p)
             t == ShiftRight(q)
  <2>1. q = p + 1
    BY <1>1, <1>5
  <2>2. /\ \A i \in 0..PTR_W : s[i] \in Nat /\ t[i] = s[i] + IF Carry(p, i) THEN 1 ELSE 0
        /\ s[PTR_W] = 0 /\ t[PTR_W] = 0
    <3>1. \A i \in 0..PTR_W : s[i] \in Nat
      BY <1>1, ShiftFacts
    <3>2. \A i \in 0..PTR_W : t[i] = s[i] + IF Carry(p, i) THEN 1 ELSE 0
      BY <1>1, <2>1, CountUp
    <3>3. s[PTR_W] = 0 /\ t[PTR_W] = 0
      BY <1>1, TopIsZero
    <3> QED BY <3>1, <3>2, <3>3
  <2>3. \A i : Bit(p, i) = s[i] % 2 /\ Bit(q, i) = t[i] % 2
    BY DEF Bit
  <2> HIDE DEF s, t
  <2>4. PTR_W \in Stopped
    <3>1. PTR_W \in 0..PTR_W
      BY <1>1
    <3>2. ~Carry(p, PTR_W)
      BY <2>2, <3>1
    <3> QED BY <3>1, <3>2
  <2>5. PICK m \in Stopped : \A k \in Stopped : m <= k
    <3>1. Stopped \in SUBSET Nat /\ Stopped # {}
      BY <2>4
    <3> QED BY <3>1, LeastNatural
  <2>6. m \in 0..PTR_W /\ ~Carry(p, m)
    OBVIOUS
  <2>7. \A i \in 0..PTR_W : Carry(p, i) <=> i < m
    <3> SUFFICES ASSUME NEW i \in 0..PTR_W PROVE Carry(p, i) <=> i < m
      OBVIOUS
    <3>1. CASE i < m
      <4>1. i \notin Stopped
        BY <2>5, <2>6, <3>1
      <4> QED BY <3>1, <4>1
    <3>2. CASE ~(i < m)
      <4>1. 0..(m - 1) \subseteq 0..(i - 1)
        BY <2>6, <3>2
      <4> QED BY <2>6, <3>2, <4>1 DEF Carry
    <3> QED BY <3>1, <3>2
  <2>8. ASSUME NEW i \in BitIndex, i # m - 1 PROVE bin2gray(p)[i] = bin2gray(q)[i]
    <3>1. i \in 0..PTR_W /\ i + 1 \in 0..PTR_W
      BY <1>1
    <3>2. Carry(p, i) <=> Carry(p, i + 1)
      BY <2>6, <2>7, <2>8, <3>1
    <3>3. /\ s[i] \in Nat /\ t[i] = s[i] + IF Carry(p, i) THEN 1 ELSE 0
          /\ s[i + 1] \in Nat /\ t[i + 1] = s[i + 1] + IF Carry(p, i + 1) THEN 1 ELSE 0
      BY <2>2, <3>1
    <3>4. PICK x, y \in Nat : x = s[i] /\ y = s[i + 1]
      BY <3>3
    <3>5. ((x % 2) + (y % 2)) % 2 = (((x + 1) % 2) + ((y + 1) % 2)) % 2
      OBVIOUS
    <3>6. ((s[i] % 2) + (s[i + 1] % 2)) % 2 = ((t[i] % 2) + (t[i + 1] % 2)) % 2
      <4>1. CASE Carry(p, i)
        BY <3>2, <3>3, <3>4, <3>5, <4>1
      <4>2. CASE ~Carry(p, i)
        BY <3>2, <3>3, <4>2
      <4> QED BY <4>1, <4>2
    <3>7. bin2gray(p)[i] = (Bit(p, i) + Bit(p, i + 1)) % 2
          /\ bin2gray(q)[i] = (Bit(q, i) + Bit(q, i + 1)) % 2
      BY <1>3
    <3>8. /\ Bit(p, i) = s[i] % 2 /\ Bit(p, i + 1) = s[i + 1] % 2
          /\ Bit(q, i) = t[i] % 2 /\ Bit(q, i + 1) = t[i + 1] % 2
      BY <2>3
    <3>9. bin2gray(p)[i] = ((s[i] % 2) + (s[i + 1] % 2)) % 2
      BY <3>7, <3>8
    <3>10. bin2gray(q)[i] = ((t[i] % 2) + (t[i + 1] % 2)) % 2
      <4> HIDE DEF q
      <4> QED BY <3>7, <3>8
    <3> QED BY <3>6, <3>9, <3>10
  <2> QED BY <2>8
<1> QED BY <1>4, <1>5

(* So a flip-flop that samples a moving pointer reads it before or after.  *)
LEMMA SampledPointer ==
    ASSUME NEW p \in Ptr, NEW q \in {p, NextPtr(p)},
           NEW x \in Sampled(bin2gray(p), bin2gray(q))
    PROVE  x \in {bin2gray(p), bin2gray(q)} /\ q \in Ptr
<1> DEFINE a == bin2gray(p)
           c == bin2gray(q)
<1>1. q \in Ptr
  BY NextIs
<1>2. a \in Gray /\ c \in Gray
  BY <1>1, CodeIs
<1>3. PICK z : \A i \in BitIndex : i # z => a[i] = c[i]
  <2>1. CASE q = p
    BY <2>1
  <2>2. CASE q # p
    BY <2>2, GrayStep
  <2> QED BY <2>1, <2>2
<1> HIDE DEF a, c
<1>4. PICK late \in SUBSET {i \in BitIndex : a[i] # c[i]} :
         x = [i \in BitIndex |-> IF i \in late THEN a[i] ELSE c[i]]
  BY DEF Sampled, a, c
<1>5. a = [i \in BitIndex |-> a[i]] /\ c = [i \in BitIndex |-> c[i]]
  BY <1>2 DEF Gray
<1>6. CASE z \in late
  <2>1. \A i \in BitIndex : (IF i \in late THEN a[i] ELSE c[i]) = a[i]
    BY <1>3, <1>6
  <2>2. x = a
    BY <1>4, <1>5, <2>1
  <2> QED BY <1>1, <2>2 DEF a
<1>7. CASE z \notin late
  <2>1. \A i \in BitIndex : i \notin late
    BY <1>3, <1>4, <1>7
  <2>2. x = c
    BY <1>4, <1>5, <2>1
  <2> QED BY <1>1, <2>2 DEF c
<1> QED BY <1>6, <1>7
-----------------------------------------------------------------------------
(* A residue of a number less than one lap below 0 or above the ring.      *)
LEMMA Residue ==
    ASSUME NEW n \in Nat, n > 0, NEW x \in Int
    PROVE  /\ 0 <= x /\ x < n => x % n = x
           /\ n <= x /\ x < 2 * n => x % n = x - n
           /\ x < 0 /\ 0 - n <= x => x % n = x + n
<1>1. ASSUME 0 <= x, x < n PROVE x % n = x
  BY <1>1
<1>2. ASSUME n <= x, x < 2 * n PROVE x % n = x - n
  BY <1>2
<1>3. ASSUME x < 0, 0 - n <= x PROVE x % n = x + n
  BY <1>3
<1> QED BY <1>1, <1>2, <1>3

(* The pointer i steps after p.                                            *)
PtrFrom(p, i) == IF p + i >= 2 * DEPTH THEN p + i - 2 * DEPTH ELSE p + i

(* The ring of 2 * DEPTH pointers without remainders.                      *)
LEMMA RingIs ==
    ASSUME Fits
    PROVE  /\ DEPTH \in Nat /\ DEPTH >= 2 /\ Half = DEPTH /\ Ptr = 0..(2 * DEPTH - 1)
           /\ \A p \in Ptr : /\ NextPtr(p) = IF p = 2 * DEPTH - 1 THEN 0 ELSE p + 1
                             /\ Idx(p) = IF p >= DEPTH THEN p - DEPTH ELSE p
           /\ \A wr, rd \in Ptr :
                 Distance(wr, rd) = IF wr >= rd THEN wr - rd ELSE wr + 2 * DEPTH - rd
<1>1. Half = DEPTH /\ DEPTH \in Nat /\ DEPTH >= 2
  BY AsyncFifoAssumption DEF Fits
<1>2. Ptr = 0..(2 * DEPTH - 1)
  BY <1>1 DEF Ptr
<1>3. ASSUME NEW p \in Ptr
      PROVE  /\ NextPtr(p) = IF p = 2 * DEPTH - 1 THEN 0 ELSE p + 1
             /\ Idx(p) = IF p >= DEPTH THEN p - DEPTH ELSE p
  <2>1. p % DEPTH = IF p >= DEPTH THEN p - DEPTH ELSE p
    BY <1>1, <1>2, Residue
  <2>2. NextPtr(p) = IF p = 2 * DEPTH - 1 THEN 0 ELSE p + 1
    BY <1>1, NextIs
  <2> QED BY <1>1, <2>1, <2>2 DEF Idx
<1>4. ASSUME NEW wr \in Ptr, NEW rd \in Ptr
      PROVE  Distance(wr, rd) = IF wr >= rd THEN wr - rd ELSE wr + 2 * DEPTH - rd
  <2> DEFINE lap == 2 * DEPTH
  <2>1. wr \in 0..(lap - 1) /\ rd \in 0..(lap - 1) /\ lap \in Nat /\ lap > 0
    BY <1>1, <1>2
  <2>2. Distance(wr, rd) = (wr - rd) % lap
    BY <1>1 DEF Distance
  <2> SUFFICES Distance(wr, rd) = IF wr >= rd THEN wr - rd ELSE wr + lap - rd
    OBVIOUS
  <2> HIDE DEF lap
  <2>3. wr - rd \in Int /\ wr - rd < lap /\ 0 - lap <= wr - rd
    BY <2>1
  <2>4. CASE wr >= rd
    BY <2>1, <2>2, <2>3, <2>4, Residue
  <2>5. CASE ~(wr >= rd)
    <3>1. wr - rd < 0
      BY <2>1, <2>5
    <3>2. (wr - rd) % lap = (wr - rd) + lap
      BY <2>1, <2>3, <3>1, Residue
    <3> QED BY <2>1, <2>2, <2>5, <3>2
  <2> QED BY <2>4, <2>5
<1> QED BY <1>1, <1>2, <1>3, <1>4

(* How the distance between two pointers changes when they move, and that  *)
(* full_r compares pointers DEPTH apart.                                   *)
LEMMA Apart ==
    ASSUME Fits, NEW wr \in Ptr, NEW rd \in Ptr
    PROVE  /\ Distance(wr, rd) \in 0..(2 * DEPTH - 1)
           /\ Distance(wr, rd) = 0 <=> wr = rd
           /\ (wr # rd /\ Idx(wr) = Idx(rd)) <=> Distance(wr, rd) = DEPTH
           /\ wr = NextPtr(rd) <=> Distance(wr, rd) = 1
           /\ Distance(wr, rd) < 2 * DEPTH - 1 =>
                 Distance(NextPtr(wr), rd) = Distance(wr, rd) + 1
           /\ Distance(wr, rd) > 0 =>
                 Distance(wr, NextPtr(rd)) = Distance(wr, rd) - 1
           /\ Distance(NextPtr(wr), NextPtr(rd)) = Distance(wr, rd)
<1>1. NextPtr(wr) \in Ptr /\ NextPtr(rd) \in Ptr
  BY NextIs
<1>2. DEPTH \in Nat /\ DEPTH >= 2 /\ wr \in 0..(2 * DEPTH - 1) /\ rd \in 0..(2 * DEPTH - 1)
  BY RingIs
<1>3. /\ NextPtr(wr) = IF wr = 2 * DEPTH - 1 THEN 0 ELSE wr + 1
      /\ NextPtr(rd) = IF rd = 2 * DEPTH - 1 THEN 0 ELSE rd + 1
  BY RingIs
<1> DEFINE w == NextPtr(wr)
           r == NextPtr(rd)
           here == Distance(wr, rd)
           ahead == Distance(w, rd)
           behind == Distance(wr, r)
           both == Distance(w, r)
           wslot == Idx(wr)
           rslot == Idx(rd)
<1>4. here = IF wr >= rd THEN wr - rd ELSE wr + 2 * DEPTH - rd
  BY RingIs
<1>5. ahead = IF w >= rd THEN w - rd ELSE w + 2 * DEPTH - rd
  BY <1>1, RingIs
<1>6. behind = IF wr >= r THEN wr - r ELSE wr + 2 * DEPTH - r
  BY <1>1, RingIs
<1>7. both = IF w >= r THEN w - r ELSE w + 2 * DEPTH - r
  BY <1>1, RingIs
<1>8. wslot = IF wr >= DEPTH THEN wr - DEPTH ELSE wr
  BY RingIs
<1>9. rslot = IF rd >= DEPTH THEN rd - DEPTH ELSE rd
  BY RingIs
<1>10. /\ w = IF wr = 2 * DEPTH - 1 THEN 0 ELSE wr + 1
       /\ r = IF rd = 2 * DEPTH - 1 THEN 0 ELSE rd + 1
  BY <1>3
<1> HIDE DEF w, r, here, ahead, behind, both, wslot, rslot
<1>11. here \in 0..(2 * DEPTH - 1) /\ (here = 0 <=> wr = rd) /\ (wr = r <=> here = 1)
  BY <1>2, <1>4, <1>10
<1>12. (wr # rd /\ wslot = rslot) <=> here = DEPTH
  BY <1>2, <1>4, <1>8, <1>9
<1>13. here < 2 * DEPTH - 1 => ahead = here + 1
  BY <1>2, <1>4, <1>5, <1>10
<1>14. here > 0 => behind = here - 1
  BY <1>2, <1>4, <1>6, <1>10
<1>15. both = here
  BY <1>2, <1>4, <1>7, <1>10
<1> QED
  BY <1>11, <1>12, <1>13, <1>14, <1>15 DEF w, r, here, ahead, behind, both, wslot, rslot

(* Slots counted from the read pointer: the wr-th is the one the next push *)
(* writes, moving the read pointer renumbers them, and no two of a window  *)
(* of DEPTH coincide.                                                      *)
LEMMA SlotsFrom ==
    ASSUME Fits, NEW wr \in Ptr, NEW rd \in Ptr
    PROVE  /\ PtrFrom(rd, 0) = rd
           /\ PtrFrom(rd, Distance(wr, rd)) = wr
           /\ \A i \in 0..(2 * DEPTH - 1) :
                 /\ PtrFrom(rd, i) \in Ptr /\ Idx(PtrFrom(rd, i)) \in Address
                 /\ (rd + i) % (2 * Half) = PtrFrom(rd, i)
           /\ \A i \in 0..(2 * DEPTH - 2) : PtrFrom(NextPtr(rd), i) = PtrFrom(rd, i + 1)
           /\ \A i, j \in 0..DEPTH :
                 Idx(PtrFrom(rd, i)) = Idx(PtrFrom(rd, j)) =>
                     i = j \/ (i = 0 /\ j = DEPTH) \/ (i = DEPTH /\ j = 0)
<1>1. DEPTH \in Nat /\ DEPTH >= 2 /\ wr \in 0..(2 * DEPTH - 1) /\ rd \in 0..(2 * DEPTH - 1)
  BY RingIs
<1>2. PtrFrom(rd, 0) = rd /\ PtrFrom(rd, Distance(wr, rd)) = wr
  <2> DEFINE n == Distance(wr, rd)
  <2>1. n = IF wr >= rd THEN wr - rd ELSE wr + 2 * DEPTH - rd
    BY RingIs
  <2>2. /\ PtrFrom(rd, n) = IF rd + n >= 2 * DEPTH THEN rd + n - 2 * DEPTH ELSE rd + n
        /\ PtrFrom(rd, 0) = IF rd + 0 >= 2 * DEPTH THEN rd + 0 - 2 * DEPTH ELSE rd + 0
    BY DEF PtrFrom
  <2> HIDE DEF n
  <2>3. PtrFrom(rd, 0) = rd /\ PtrFrom(rd, n) = wr
    BY <1>1, <2>1, <2>2
  <2> QED BY <2>3 DEF n
<1>3. ASSUME NEW i \in 0..(2 * DEPTH - 1)
      PROVE  /\ PtrFrom(rd, i) \in Ptr /\ Idx(PtrFrom(rd, i)) \in Address
             /\ (rd + i) % (2 * Half) = PtrFrom(rd, i)
  <2>1. PtrFrom(rd, i) \in 0..(2 * DEPTH - 1)
    BY <1>1 DEF PtrFrom
  <2>2. PtrFrom(rd, i) \in Ptr
    BY <2>1, RingIs
  <2>3. Idx(PtrFrom(rd, i)) \in Address
    <3> DEFINE p == PtrFrom(rd, i)
    <3>1. Idx(p) = IF p >= DEPTH THEN p - DEPTH ELSE p
      BY <2>2, RingIs
    <3> HIDE DEF p
    <3>2. p \in 0..(2 * DEPTH - 1)
      BY <2>1 DEF p
    <3>3. Idx(p) \in Address
      BY <1>1, <3>1, <3>2 DEF Address
    <3> QED BY <3>3 DEF p
  <2>4. (rd + i) % (2 * DEPTH) = PtrFrom(rd, i)
    <3> DEFINE lap == 2 * DEPTH
               x == rd + i
    <3>1. lap \in Nat /\ lap > 0 /\ x \in Int /\ 0 <= x /\ x < 2 * lap
      BY <1>1
    <3>2. PtrFrom(rd, i) = IF x >= lap THEN x - lap ELSE x
      BY <1>1 DEF PtrFrom
    <3> HIDE DEF lap, x
    <3>3. x % lap = PtrFrom(rd, i)
      BY <3>1, <3>2, Residue
    <3> QED BY <3>3 DEF lap, x
  <2> QED BY <2>2, <2>3, <2>4, RingIs
<1>4. \A i \in 0..(2 * DEPTH - 2) : PtrFrom(NextPtr(rd), i) = PtrFrom(rd, i + 1)
  <2>1. NextPtr(rd) = IF rd = 2 * DEPTH - 1 THEN 0 ELSE rd + 1
    BY RingIs
  <2> QED BY <1>1, <2>1 DEF PtrFrom
<1>5. ASSUME NEW i \in 0..DEPTH, NEW j \in 0..DEPTH, Idx(PtrFrom(rd, i)) = Idx(PtrFrom(rd, j))
      PROVE  i = j \/ (i = 0 /\ j = DEPTH) \/ (i = DEPTH /\ j = 0)
  <2>1. i \in 0..(2 * DEPTH - 1) /\ j \in 0..(2 * DEPTH - 1)
    BY <1>1
  <2>2. PtrFrom(rd, i) \in Ptr /\ PtrFrom(rd, j) \in Ptr
    BY <1>3, <2>1
  <2> DEFINE p == PtrFrom(rd, i)
             q == PtrFrom(rd, j)
  <2>3. /\ p = IF rd + i >= 2 * DEPTH THEN rd + i - 2 * DEPTH ELSE rd + i
        /\ q = IF rd + j >= 2 * DEPTH THEN rd + j - 2 * DEPTH ELSE rd + j
    BY DEF PtrFrom
  <2>4. /\ Idx(p) = IF p >= DEPTH THEN p - DEPTH ELSE p
        /\ Idx(q) = IF q >= DEPTH THEN q - DEPTH ELSE q
    BY <2>2, RingIs
  <2>5. Idx(p) = Idx(q)
    BY <1>5
  <2> HIDE DEF p, q
  <2> QED BY <1>1, <2>3, <2>4, <2>5
<1> QED BY <1>2, <1>3, <1>4, <1>5

(* The low bits of a pointer address mem.                                  *)
LEMMA IdxInside ==
    ASSUME Fits, NEW p \in Ptr
    PROVE  Idx(p) \in Address
BY RingIs DEF Address

(* The words between two pointers.                                         *)
WordsIn(m, wr, rd) ==
    [i \in 1..Distance(wr, rd) |-> ReadMem(m, Idx((rd + i - 1) % (2 * Half)))]

(* They are those in the slots counted from the read pointer.              *)
LEMMA WordsAre ==
    ASSUME Fits, NEW wr \in Ptr, NEW rd \in Ptr, NEW m
    PROVE  /\ DOMAIN WordsIn(m, wr, rd) = 1..Distance(wr, rd)
           /\ \A i \in 1..Distance(wr, rd) :
                 /\ Idx(PtrFrom(rd, i - 1)) \in Address
                 /\ WordsIn(m, wr, rd)[i] = m[Idx(PtrFrom(rd, i - 1))]
<1>1. DEPTH \in Nat /\ rd \in Nat /\ Distance(wr, rd) \in 0..(2 * DEPTH - 1)
  BY RingIs, Apart
<1>2. ASSUME NEW i \in 1..Distance(wr, rd)
      PROVE  /\ Idx(PtrFrom(rd, i - 1)) \in Address
             /\ WordsIn(m, wr, rd)[i] = m[Idx(PtrFrom(rd, i - 1))]
  <2>1. i - 1 \in 0..(2 * DEPTH - 1) /\ rd + (i - 1) = rd + i - 1
    BY <1>1
  <2>2. Idx(PtrFrom(rd, i - 1)) \in Address /\ (rd + (i - 1)) % (2 * Half) = PtrFrom(rd, i - 1)
    BY <2>1, SlotsFrom
  <2>3. WordsIn(m, wr, rd)[i] = ReadMem(m, Idx((rd + i - 1) % (2 * Half)))
    BY DEF WordsIn
  <2> QED BY <2>1, <2>2, <2>3 DEF ReadMem
<1> QED BY <1>2 DEF WordsIn

(* Words that are all payload are a sequence.                              *)
LEMMA WordsFacts ==
    ASSUME Fits, NEW wr \in Ptr, NEW rd \in Ptr, NEW m,
           \A i \in 1..Distance(wr, rd) : WordsIn(m, wr, rd)[i] \in Data
    PROVE  /\ WordsIn(m, wr, rd) \in Seq(Data)
           /\ Len(WordsIn(m, wr, rd)) = Distance(wr, rd)
<1> DEFINE n == Distance(wr, rd)
           s == WordsIn(m, wr, rd)
<1>1. n \in Nat
  BY Apart, AsyncFifoAssumption
<1>2. s \in [1..n -> Data] /\ DOMAIN s = 1..n
  BY DEF WordsIn
<1> HIDE DEF s, n
<1>3. s \in Seq(Data)
  BY <1>1, <1>2, SeqDef
<1>4. Len(s) = n
  BY <1>1, <1>2, <1>3, LenProperties
<1> QED BY <1>3, <1>4 DEF s, n

(* A pop removes the head.                                                 *)
LEMMA WordsTail ==
    ASSUME Fits, NEW wr \in Ptr, NEW rd \in Ptr, NEW m,
           \A i \in 1..Distance(wr, rd) : WordsIn(m, wr, rd)[i] \in Data, wr # rd
    PROVE  /\ WordsIn(m, wr, NextPtr(rd)) = Tail(WordsIn(m, wr, rd))
           /\ \A i \in 1..Distance(wr, NextPtr(rd)) : WordsIn(m, wr, NextPtr(rd))[i] \in Data
           /\ Head(WordsIn(m, wr, rd)) = ReadMem(m, Idx(rd))
           /\ WordsIn(m, wr, rd) # <<>>
<1> DEFINE n == Distance(wr, rd)
           s == WordsIn(m, wr, rd)
           t == WordsIn(m, wr, NextPtr(rd))
<1>1. DEPTH \in Nat /\ n \in 1..(2 * DEPTH - 1) /\ Distance(wr, NextPtr(rd)) = n - 1
  BY Apart, AsyncFifoAssumption
<1>2. s \in Seq(Data) /\ Len(s) = n /\ NextPtr(rd) \in Ptr
  BY WordsFacts, NextIs
<1>3. \A i \in 1..n : s[i] = m[Idx(PtrFrom(rd, i - 1))] /\ Idx(PtrFrom(rd, i - 1)) \in Address
  BY WordsAre
<1>4. \A i \in 1..(n - 1) : t[i] = m[Idx(PtrFrom(NextPtr(rd), i - 1))]
  BY <1>1, <1>2, WordsAre
<1>5. \A i \in 1..n : s[i] \in Data
  OBVIOUS
<1>6. t \in Seq(Data) /\ Len(t) = n - 1
      <=> \A i \in 1..(n - 1) : t[i] \in Data
  <2>1. (\A i \in 1..(n - 1) : t[i] \in Data) => t \in Seq(Data) /\ Len(t) = n - 1
    BY <1>1, <1>2, WordsFacts
  <2>2. t \in Seq(Data) /\ Len(t) = n - 1 => \A i \in 1..(n - 1) : t[i] \in Data
    BY ElementOfSeq
  <2> QED BY <2>1, <2>2
<1> HIDE DEF n, s, t
<1>7. \A i \in 1..(n - 1) : t[i] = s[i + 1]
  <2> SUFFICES ASSUME NEW i \in 1..(n - 1) PROVE t[i] = s[i + 1]
    OBVIOUS
  <2>1. i - 1 \in 0..(2 * DEPTH - 2) /\ i + 1 \in 1..n /\ (i + 1) - 1 = (i - 1) + 1
    BY <1>1
  <2>2. PtrFrom(NextPtr(rd), i - 1) = PtrFrom(rd, (i + 1) - 1)
    BY <2>1, SlotsFrom
  <2> QED BY <2>1, <2>2, <1>3, <1>4
<1>8. \A i \in 1..(n - 1) : t[i] \in Data
  BY <1>1, <1>5, <1>7
<1>9. s # <<>>
  BY <1>1, <1>2, EmptySeq
<1>10. Tail(s) \in Seq(Data) /\ Len(Tail(s)) = n - 1 /\ \A i \in 1..(n - 1) : Tail(s)[i] = s[i + 1]
  BY <1>2, <1>9, HeadTailProperties
<1>11. t = Tail(s)
  BY <1>6, <1>7, <1>8, <1>10, SeqEqual
<1>12. Head(s) = ReadMem(m, Idx(rd))
  <2>1. Head(s) = s[1] /\ 1 \in 1..n /\ 1 - 1 = 0
    BY <1>1, <1>2, <1>9
  <2>2. s[1] = m[Idx(rd)] /\ Idx(rd) \in Address
    BY <2>1, <1>3, SlotsFrom
  <2> QED BY <2>1, <2>2 DEF ReadMem
<1> QED BY <1>1, <1>8, <1>9, <1>11, <1>12 DEF n, s, t

(* A push appends: the slot it writes is none of those already stored.     *)
LEMMA WordsAppend ==
    ASSUME Fits, NEW wr \in Ptr, NEW rd \in Ptr,
           NEW m \in [Address -> Data \cup {NoData}], NEW d \in Data,
           \A i \in 1..Distance(wr, rd) : WordsIn(m, wr, rd)[i] \in Data,
           Distance(wr, rd) < DEPTH
    PROVE  /\ WordsIn(WriteMem(m, Idx(wr), d), NextPtr(wr), rd) = Append(WordsIn(m, wr, rd), d)
           /\ \A i \in 1..Distance(NextPtr(wr), rd) :
                 WordsIn(WriteMem(m, Idx(wr), d), NextPtr(wr), rd)[i] \in Data
<1> DEFINE n == Distance(wr, rd)
           w == WriteMem(m, Idx(wr), d)
           s == WordsIn(m, wr, rd)
           t == WordsIn(w, NextPtr(wr), rd)
<1>1. DEPTH \in Nat /\ n \in 0..(DEPTH - 1) /\ Distance(NextPtr(wr), rd) = n + 1
  BY Apart, AsyncFifoAssumption
<1>2. s \in Seq(Data) /\ Len(s) = n /\ NextPtr(wr) \in Ptr
  BY WordsFacts, NextIs
<1>3. \A i \in 1..n : s[i] = m[Idx(PtrFrom(rd, i - 1))]
  BY WordsAre
<1>4. \A i \in 1..(n + 1) :
         Idx(PtrFrom(rd, i - 1)) \in Address /\ t[i] = w[Idx(PtrFrom(rd, i - 1))]
  BY <1>1, <1>2, WordsAre
<1>5. Idx(wr) \in Address /\ Idx(wr) = Idx(PtrFrom(rd, n))
  <2>1. n \in 0..(2 * DEPTH - 1) /\ PtrFrom(rd, n) = wr
    BY <1>1, SlotsFrom
  <2> QED BY <2>1, SlotsFrom
<1>6. w = [m EXCEPT ![Idx(wr)] = d]
  BY <1>5 DEF WriteMem
<1>7. \A i \in 1..n : s[i] \in Data
  OBVIOUS
<1>8. (\A i \in 1..(n + 1) : t[i] \in Data) => t \in Seq(Data) /\ Len(t) = n + 1
  BY <1>1, <1>2, WordsFacts
<1> HIDE DEF n, w, s, t
<1>9. t[n + 1] = d
  <2>1. n + 1 \in 1..(n + 1) /\ (n + 1) - 1 = n
    BY <1>1
  <2> QED BY <2>1, <1>4, <1>5, <1>6
<1>10. \A i \in 1..n : t[i] = s[i]
  <2> SUFFICES ASSUME NEW i \in 1..n PROVE t[i] = s[i]
    OBVIOUS
  <2>1. i \in 1..(n + 1) /\ i - 1 \in 0..DEPTH /\ n \in 0..DEPTH
        /\ i - 1 # n /\ n # DEPTH /\ i - 1 # DEPTH
    BY <1>1
  <2>2. Idx(PtrFrom(rd, i - 1)) # Idx(wr)
    BY <2>1, <1>5, SlotsFrom
  <2> QED BY <2>1, <2>2, <1>3, <1>4, <1>6
<1>11. \A i \in 1..(n + 1) : i \in 1..n \/ i = n + 1
  BY <1>1
<1>12. \A i \in 1..(n + 1) : t[i] \in Data
  BY <1>7, <1>9, <1>10, <1>11
<1>13. /\ Append(s, d) \in Seq(Data) /\ Len(Append(s, d)) = n + 1
       /\ \A i \in 1..n : Append(s, d)[i] = s[i]
       /\ Append(s, d)[n + 1] = d
  BY <1>2, AppendProperties
<1>14. t = Append(s, d)
  BY <1>8, <1>9, <1>10, <1>11, <1>12, <1>13, SeqEqual
<1> QED BY <1>1, <1>12, <1>14 DEF n, w, s, t

-----------------------------------------------------------------------------
(* The chain of views of the read pointer, and of the write pointer: from  *)
(* the real pointer to the oldest copy.                                    *)
ReadSeenLate(wr, rd, s1, sync) ==
    /\ Distance(wr, rd) <= Distance(wr, s1)
    /\ Distance(wr, s1) <= Distance(wr, sync)
    /\ Distance(wr, sync) <= DEPTH
WriteSeenLate(wr, rd, s1, sync) ==
    /\ Distance(sync, rd) <= Distance(s1, rd)
    /\ Distance(s1, rd) <= Distance(wr, rd)

(* Where the pointers are after an edge that pushes, pops, or both.        *)
Moved(p, moves) == IF moves THEN NextPtr(p) ELSE p

(* A push the writer believes to have room for, and a pop of a word that   *)
(* is there, keep the chain; a synchronizer edge moves each copy up.       *)
LEMMA ReadViewsMove ==
    ASSUME Fits, NEW wr \in Ptr, NEW rd \in Ptr, NEW s1 \in Ptr, NEW sync \in Ptr,
           ReadSeenLate(wr, rd, s1, sync),
           NEW push \in BOOLEAN, NEW pop \in BOOLEAN,
           push => Distance(wr, sync) # DEPTH, pop => wr # rd
    PROVE  /\ ReadSeenLate(Moved(wr, push), Moved(rd, pop), s1, sync)
           /\ \A x \in {rd, Moved(rd, pop)} :
                 ReadSeenLate(Moved(wr, push), Moved(rd, pop), x, s1)
<1> DEFINE w == Moved(wr, push)
           r == Moved(rd, pop)
           one == IF push THEN 1 ELSE 0
<1>1. DEPTH \in Nat /\ DEPTH >= 2 /\ r \in Ptr
  BY AsyncFifoAssumption, NextIs DEF Moved
<1>2. /\ Distance(wr, rd) \in Nat /\ Distance(wr, s1) \in Nat /\ Distance(wr, sync) \in Nat
      /\ Distance(wr, r) \in Nat /\ Distance(wr, r) <= Distance(wr, rd)
  <2>1. Distance(wr, rd) \in Nat /\ Distance(wr, s1) \in Nat
        /\ Distance(wr, sync) \in Nat /\ Distance(wr, r) \in Nat
    BY <1>1, Apart
  <2>2. pop => Distance(wr, r) = Distance(wr, rd) - 1
    BY <2>1, <1>1, Apart DEF Moved
  <2>3. ~pop => r = rd
    BY DEF Moved
  <2> QED BY <2>1, <2>2, <2>3
<1>3. \A y \in {rd, r, s1, sync} : Distance(w, y) = Distance(wr, y) + one
  <2> SUFFICES ASSUME NEW y \in {rd, r, s1, sync}
               PROVE  Distance(w, y) = Distance(wr, y) + one
    OBVIOUS
  <2>1. y \in Ptr /\ Distance(wr, y) \in Nat
    BY <1>1, <1>2
  <2>2. CASE push
    <3>1. Distance(wr, y) < 2 * DEPTH - 1
      BY <1>1, <1>2, <2>2 DEF ReadSeenLate
    <3> QED BY <2>1, <2>2, <3>1, Apart DEF Moved
  <2>3. CASE ~push
    BY <2>1, <2>3 DEF Moved
  <2> QED BY <2>2, <2>3
<1>4. one \in {0, 1} /\ (one = 1 => Distance(wr, sync) # DEPTH)
  OBVIOUS
<1> HIDE DEF w, r, one
<1>5. ReadSeenLate(w, r, s1, sync)
  BY <1>1, <1>2, <1>3, <1>4 DEF ReadSeenLate
<1>6. ASSUME NEW x \in {rd, r} PROVE ReadSeenLate(w, r, x, s1)
  BY <1>1, <1>2, <1>3, <1>4 DEF ReadSeenLate
<1> QED BY <1>5, <1>6 DEF w, r

(* The same for the reader's copies of the write pointer.                  *)
LEMMA WriteViewsMove ==
    ASSUME Fits, NEW wr \in Ptr, NEW rd \in Ptr, NEW s1 \in Ptr, NEW sync \in Ptr,
           WriteSeenLate(wr, rd, s1, sync), Distance(wr, rd) <= DEPTH,
           NEW push \in BOOLEAN, NEW pop \in BOOLEAN,
           pop => sync # rd
    PROVE  /\ WriteSeenLate(Moved(wr, push), Moved(rd, pop), s1, sync)
           /\ \A x \in {wr, Moved(wr, push)} :
                 WriteSeenLate(Moved(wr, push), Moved(rd, pop), x, s1)
<1> DEFINE w == Moved(wr, push)
           r == Moved(rd, pop)
           one == IF pop THEN 1 ELSE 0
<1>1. DEPTH \in Nat /\ DEPTH >= 2 /\ r \in Ptr
  BY AsyncFifoAssumption, NextIs DEF Moved
<1>2. /\ Distance(wr, rd) \in Nat /\ Distance(s1, rd) \in Nat /\ Distance(sync, rd) \in Nat
      /\ Distance(wr, r) \in Nat
      /\ pop => Distance(sync, rd) > 0
  BY <1>1, Apart
<1>3. \A y \in {wr, s1, sync} : Distance(y, r) = Distance(y, rd) - one
  <2> SUFFICES ASSUME NEW y \in {wr, s1, sync}
               PROVE  Distance(y, r) = Distance(y, rd) - one
    OBVIOUS
  <2>1. y \in Ptr /\ Distance(y, rd) \in Nat
    BY <1>1, <1>2
  <2>2. CASE pop
    <3>1. Distance(y, rd) > 0
      BY <1>2, <2>2 DEF WriteSeenLate
    <3> QED BY <2>1, <2>2, <3>1, Apart DEF Moved
  <2>3. CASE ~pop
    BY <2>1, <2>3 DEF Moved
  <2> QED BY <2>2, <2>3
<1>4. one \in {0, 1}
  OBVIOUS
<1> HIDE DEF r, one
<1>5. Distance(wr, r) <= Distance(w, r) /\ Distance(w, r) \in Nat
  <2>1. CASE push
    <3>1. Distance(wr, r) < 2 * DEPTH - 1
      BY <1>1, <1>2, <1>3, <1>4
    <3>2. Distance(w, r) = Distance(wr, r) + 1
      BY <1>1, <2>1, <3>1, Apart DEF Moved
    <3> QED BY <1>2, <3>2
  <2>2. CASE ~push
    BY <1>2, <2>2 DEF Moved
  <2> QED BY <2>1, <2>2
<1> HIDE DEF w
<1>6. WriteSeenLate(w, r, s1, sync)
  BY <1>2, <1>3, <1>4, <1>5 DEF WriteSeenLate
<1>7. ASSUME NEW x \in {wr, w} PROVE WriteSeenLate(w, r, x, s1)
  BY <1>2, <1>3, <1>4, <1>5 DEF WriteSeenLate
<1> QED BY <1>6, <1>7 DEF w, r

(* A push into a FIFO that is neither empty nor full leaves its head.      *)
LEMMA HeadKept ==
    ASSUME Fits, NEW wr \in Ptr, NEW rd \in Ptr, wr # rd, Distance(wr, rd) # DEPTH,
           NEW m \in [Address -> Data \cup {NoData}], NEW d
    PROVE  ReadMem(WriteMem(m, Idx(wr), d), Idx(rd)) = ReadMem(m, Idx(rd))
<1>1. Idx(wr) # Idx(rd)
  BY Apart
<1> QED BY <1>1 DEF ReadMem, WriteMem

(* The words stored after an edge: those before it, without the head if it *)
(* was popped, and with the pushed word.                                   *)
LEMMA WordsMove ==
    ASSUME Fits, NEW wr \in Ptr, NEW rd \in Ptr,
           NEW m \in [Address -> Data \cup {NoData}], NEW d,
           \A i \in 1..Distance(wr, rd) : WordsIn(m, wr, rd)[i] \in Data,
           NEW push \in BOOLEAN, NEW pop \in BOOLEAN,
           push => d \in Data /\ Distance(wr, rd) < DEPTH, pop => wr # rd
    PROVE  LET written == IF push THEN WriteMem(m, Idx(wr), d) ELSE m
               w == Moved(wr, push)
               r == Moved(rd, pop)
               rest == IF pop THEN Tail(WordsIn(m, wr, rd)) ELSE WordsIn(m, wr, rd)
           IN  /\ w \in Ptr /\ r \in Ptr
               /\ written \in [Address -> Data \cup {NoData}]
               /\ WordsIn(written, w, r) = IF push THEN Append(rest, d) ELSE rest
               /\ \A i \in 1..Distance(w, r) : WordsIn(written, w, r)[i] \in Data
               /\ pop => /\ WordsIn(m, wr, rd) # <<>>
                         /\ Head(WordsIn(m, wr, rd)) = ReadMem(m, Idx(rd))
               /\ Len(WordsIn(m, wr, rd)) = Distance(wr, rd)
<1> DEFINE written == IF push THEN WriteMem(m, Idx(wr), d) ELSE m
           w == Moved(wr, push)
           r == Moved(rd, pop)
           rest == IF pop THEN Tail(WordsIn(m, wr, rd)) ELSE WordsIn(m, wr, rd)
<1>1. w \in Ptr /\ r \in Ptr /\ Idx(wr) \in Address
  BY NextIs, IdxInside DEF Moved
<1>2. written \in [Address -> Data \cup {NoData}]
  BY <1>1 DEF WriteMem
<1>4. Len(WordsIn(m, wr, rd)) = Distance(wr, rd)
  BY WordsFacts
<1>5. /\ WordsIn(m, wr, r) = rest
      /\ \A i \in 1..Distance(wr, r) : WordsIn(m, wr, r)[i] \in Data
      /\ Distance(wr, r) \in Nat /\ Distance(wr, r) <= Distance(wr, rd)
      /\ pop => /\ WordsIn(m, wr, rd) # <<>>
                /\ Head(WordsIn(m, wr, rd)) = ReadMem(m, Idx(rd))
  <2>1. Distance(wr, rd) \in Nat
    BY Apart, AsyncFifoAssumption
  <2>2. CASE pop
    <3>1. r = NextPtr(rd) /\ rest = Tail(WordsIn(m, wr, rd))
      BY <2>2 DEF Moved
    <3> HIDE DEF r, rest
    <3>2. Distance(wr, NextPtr(rd)) = Distance(wr, rd) - 1 /\ Distance(wr, rd) > 0
      <4>1. Distance(wr, rd) > 0
        BY <2>1, <2>2, Apart
      <4> QED BY <4>1, Apart
    <3>3. Distance(wr, r) \in Nat /\ Distance(wr, r) <= Distance(wr, rd)
      BY <2>1, <3>1, <3>2
    <3> QED BY <2>2, <3>1, <3>3, WordsTail
  <2>3. CASE ~pop
    BY <2>1, <2>3 DEF Moved
  <2> QED BY <2>2, <2>3
<1>6. /\ WordsIn(written, w, r) = IF push THEN Append(rest, d) ELSE rest
      /\ \A i \in 1..Distance(w, r) : WordsIn(written, w, r)[i] \in Data
  <2>1. CASE push
    <3>1. w = NextPtr(wr) /\ written = WriteMem(m, Idx(wr), d)
      BY <2>1 DEF Moved
    <3> HIDE DEF w, r, written, rest
    <3>2. Distance(wr, r) < DEPTH
      BY <1>5, <2>1, Apart, AsyncFifoAssumption
    <3> QED BY <1>1, <1>5, <2>1, <3>1, <3>2, WordsAppend
  <2>2. CASE ~push
    BY <1>5, <2>2 DEF Moved
  <2> QED BY <2>1, <2>2
<1> QED BY <1>1, <1>2, <1>4, <1>5, <1>6

-----------------------------------------------------------------------------
(* The inductive invariant.  Every synchronizer flip-flop holds the code   *)
(* of some pointer, the stored slots hold words, and a prefetched head is  *)
(* the oldest word, one the reader's own copy of wr_ptr already covers.    *)
IsCode(g) == \E p \in Ptr : g = bin2gray(p)

HeadHeld ==
    head_valid => /\ latency = 1
                  /\ ~raw_empty_r
                  /\ pop_data_r = ReadMem(mem, Idx(rd_ptr_bin))

AsyncInv ==
    /\ latency \in {0, 1} /\ head_valid \in BOOLEAN
    /\ mem \in [Address -> Data \cup {NoData}]
    /\ wr_ptr_bin \in Ptr /\ rd_ptr_bin \in Ptr
    /\ IsCode(rd_ptr_gray_s1) /\ IsCode(rd_ptr_gray_sync)
    /\ IsCode(wr_ptr_gray_s1) /\ IsCode(wr_ptr_gray_sync)
    /\ ViewsAreLate
    /\ \A i \in 1..Count : Stored[i] \in Data
    /\ HeadHeld

(* A code names one pointer.                                               *)
LEMMA CodeOf ==
    ASSUME NEW g, IsCode(g)
    PROVE  gray2bin(g) \in Ptr
BY GrayInverse DEF IsCode

(* What a synchronizer's first flip-flop holds after an edge on which the  *)
(* pointer may have moved: the code of the pointer before or after.        *)
LEMMA CapturedCode ==
    ASSUME NEW p \in Ptr, NEW moves \in BOOLEAN,
           NEW g \in Sampled(bin2gray(p), bin2gray(Moved(p, moves)))
    PROVE  IsCode(g) /\ gray2bin(g) \in {p, Moved(p, moves)}
<1> DEFINE q == Moved(p, moves)
<1>1. q \in {p, NextPtr(p)} /\ q \in Ptr
  BY NextIs DEF Moved
<1> HIDE DEF q
<1>2. g \in {bin2gray(p), bin2gray(q)}
  BY <1>1, SampledPointer DEF q
<1>3. gray2bin(bin2gray(p)) = p /\ gray2bin(bin2gray(q)) = q
  BY <1>1, GrayInverse
<1>4. IsCode(g) /\ gray2bin(g) \in {p, q}
  BY <1>1, <1>2, <1>3 DEF IsCode
<1> QED BY <1>4 DEF q

(* What the read port has fetched after an edge, pop being the transfer.   *)
Fetched(pop) ==
    /\ head_valid' \in BOOLEAN
    /\ rd_ptr_bin' = Moved(rd_ptr_bin, pop)
    /\ head_valid' => /\ latency = 1
                      /\ rd_ptr_bin' # wr_ptr_bin_rd
                      /\ pop_data_r' = ReadMem(mem, Idx(rd_ptr_bin'))

(* The read port of both latencies.                                        *)
LEMMA ReadPort ==
    ASSUME AsyncInv, NEW pop_ready \in BOOLEAN, Pop(pop_ready)
    PROVE  LET pop == pop_valid /\ pop_ready
           IN  /\ Fetched(pop)
               /\ pop => ~raw_empty_r /\ pop_data = ReadMem(mem, Idx(rd_ptr_bin))
               /\ popped' = IF pop THEN pop_data ELSE NoData
<1> DEFINE pop == pop_valid /\ pop_ready
<1>1. head_valid \in BOOLEAN /\ HeadHeld
  BY DEF AsyncInv
<1>2. popped' = IF pop THEN pop_data ELSE NoData
  BY DEF Pop
<1>3. CASE latency = 1
  <2>1. Prefetch(pop_ready) /\ pop_valid = head_valid /\ pop_data = pop_data_r
    BY <1>3 DEF Pop, pop_valid, pop_data
  <2>2. pop => ~raw_empty_r /\ pop_data = ReadMem(mem, Idx(rd_ptr_bin))
    BY <1>1, <2>1 DEF HeadHeld
  <2>3. ASSUME ~head_valid PROVE Fetched(pop)
    <3>1. /\ rd_ptr_bin' = rd_ptr_bin
          /\ head_valid' = ~raw_empty_r
          /\ ~raw_empty_r => pop_data_r' = ReadMem(mem, Idx(rd_ptr_bin))
      BY <2>1, <2>3 DEF Prefetch
    <3>2. ~pop
      BY <2>1, <2>3
    <3> QED BY <1>3, <2>1, <3>1, <3>2 DEF Fetched, Moved, raw_empty_r
  <2>4. ASSUME head_valid /\ pop_ready PROVE Fetched(pop)
    <3>1. /\ rd_ptr_bin' = rd_ptr_next
          /\ head_valid' = ~next_empty_r
          /\ ~next_empty_r => pop_data_r' = ReadMem(mem, Idx(rd_ptr_next))
      BY <2>1, <2>4 DEF Prefetch
    <3>2. pop
      BY <2>1, <2>4
    <3> QED BY <1>3, <3>1, <3>2 DEF Fetched, Moved, next_empty_r, rd_ptr_next
  <2>5. ASSUME head_valid /\ ~pop_ready PROVE Fetched(pop)
    <3>1. rd_ptr_bin' = rd_ptr_bin /\ head_valid' /\ pop_data_r' = pop_data_r
          /\ head_valid' \in BOOLEAN
      BY <2>1, <2>5 DEF Prefetch
    <3>2. ~pop /\ ~raw_empty_r /\ pop_data_r = ReadMem(mem, Idx(rd_ptr_bin))
      BY <1>1, <2>1, <2>5 DEF HeadHeld
    <3> QED BY <1>3, <3>1, <3>2 DEF Fetched, Moved, raw_empty_r
  <2> QED BY <1>1, <1>2, <2>2, <2>3, <2>4, <2>5
<1>4. CASE latency # 1
  <2>1. CombinationalRead(pop_ready) /\ pop_valid = ~raw_empty_r
        /\ pop_data = ReadMem(mem, Idx(rd_ptr_bin)) /\ ~head_valid
    BY <1>1, <1>4 DEF Pop, pop_valid, pop_data, HeadHeld
  <2>2. Fetched(pop)
    BY <1>1, <2>1 DEF CombinationalRead, Fetched, Moved, rd_ptr_next
  <2> QED BY <1>2, <2>1, <2>2
<1> QED BY <1>3, <1>4

(* What any clock edge does to the invariant and to the stored words: the  *)
(* three clock actions differ in who moves and whose flip-flops sample.    *)
LEMMA EdgeStep ==
    ASSUME Fits, AsyncInv, NEW d, NEW push \in BOOLEAN, NEW pop \in BOOLEAN,
           push => d \in Data /\ ~full_r,
           pop => ~raw_empty_r,
           mem' = IF push THEN WriteMem(mem, Idx(wr_ptr_bin), d) ELSE mem,
           wr_ptr_bin' = Moved(wr_ptr_bin, push),
           Fetched(pop), latency' = latency,
           UNCHANGED <<rd_ptr_gray_s1, rd_ptr_gray_sync>> \/ SyncReadPointer,
           UNCHANGED <<wr_ptr_gray_s1, wr_ptr_gray_sync>> \/ SyncWritePointer
    PROVE  LET rest == IF pop THEN Tail(Stored) ELSE Stored
           IN  /\ AsyncInv'
               /\ Stored' = IF push THEN Append(rest, d) ELSE rest
               /\ push => Len(Stored) < DEPTH
               /\ pop => Stored # <<>> /\ Head(Stored) = ReadMem(mem, Idx(rd_ptr_bin))
<1> DEFINE wr == wr_ptr_bin
           rd == rd_ptr_bin
           rd1 == gray2bin(rd_ptr_gray_s1)
           rd2 == gray2bin(rd_ptr_gray_sync)
           wr1 == gray2bin(wr_ptr_gray_s1)
           wr2 == gray2bin(wr_ptr_gray_sync)
           w == Moved(wr, push)
           r == Moved(rd, pop)
<1>1. /\ wr \in Ptr /\ rd \in Ptr /\ mem \in [Address -> Data \cup {NoData}]
      /\ IsCode(rd_ptr_gray_s1) /\ IsCode(rd_ptr_gray_sync)
      /\ IsCode(wr_ptr_gray_s1) /\ IsCode(wr_ptr_gray_sync)
      /\ ReadSeenLate(wr, rd, rd1, rd2) /\ WriteSeenLate(wr, rd, wr1, wr2)
      /\ \A i \in 1..Distance(wr, rd) : WordsIn(mem, wr, rd)[i] \in Data
      /\ Stored = WordsIn(mem, wr, rd)
  BY DEF AsyncInv, ViewsAreLate, ReadSeenLate, WriteSeenLate, Stored, Count, WordsIn,
         rd_ptr_bin_wr, wr_ptr_bin_rd
<1>2. rd1 \in Ptr /\ rd2 \in Ptr /\ wr1 \in Ptr /\ wr2 \in Ptr
  BY <1>1, CodeOf
<1>3. /\ DEPTH \in Nat /\ Distance(wr, rd) \in Nat
      /\ Distance(wr, rd1) \in Nat /\ Distance(wr, rd2) \in Nat
      /\ Distance(wr1, rd) \in Nat /\ Distance(wr2, rd) \in Nat
  BY <1>1, <1>2, Apart, AsyncFifoAssumption
<1>4. Distance(wr, rd) <= DEPTH
  BY <1>1, <1>3 DEF ReadSeenLate
<1>5. push => d \in Data /\ Distance(wr, rd2) # DEPTH /\ Distance(wr, rd) < DEPTH
  <2>1. push => Distance(wr, rd2) # DEPTH
    BY <1>1, <1>2, Apart DEF full_r, rd_ptr_bin_wr
  <2>2. Distance(wr, rd2) # DEPTH => Distance(wr, rd) < DEPTH
    BY <1>1, <1>3 DEF ReadSeenLate
  <2> QED BY <2>1, <2>2
<1>6. pop => wr2 # rd /\ wr # rd
  <2>1. pop => wr2 # rd
    BY DEF raw_empty_r, wr_ptr_bin_rd
  <2>2. wr2 # rd => Distance(wr2, rd) # 0
    BY <1>1, <1>2, Apart
  <2>3. Distance(wr2, rd) # 0 => Distance(wr, rd) # 0
    BY <1>1, <1>3 DEF WriteSeenLate
  <2>4. Distance(wr, rd) # 0 => wr # rd
    BY <1>1, Apart
  <2> QED BY <2>1, <2>2, <2>3, <2>4
<1>7. wr' = w /\ rd' = r
  BY DEF Fetched
<1>8. /\ w \in Ptr /\ r \in Ptr
      /\ mem' \in [Address -> Data \cup {NoData}]
      /\ WordsIn(mem', w, r)
            = LET rest == IF pop THEN Tail(Stored) ELSE Stored
              IN  IF push THEN Append(rest, d) ELSE rest
      /\ \A i \in 1..Distance(w, r) : WordsIn(mem', w, r)[i] \in Data
      /\ pop => Stored # <<>> /\ Head(Stored) = ReadMem(mem, Idx(rd))
      /\ Len(Stored) = Distance(wr, rd)
  BY <1>1, <1>5, <1>6, WordsMove
<1>9. /\ Stored' = WordsIn(mem', wr', rd')
      /\ Count' = Distance(wr', rd')
  BY DEF Stored, Count, WordsIn
<1>10. /\ ReadSeenLate(w, r, rd1, rd2)
       /\ \A x \in {rd, r} : ReadSeenLate(w, r, x, rd1)
  BY <1>1, <1>2, <1>5, <1>6, ReadViewsMove
<1>11. /\ WriteSeenLate(w, r, wr1, wr2)
       /\ \A x \in {wr, w} : WriteSeenLate(w, r, x, wr1)
  BY <1>1, <1>2, <1>4, <1>6, WriteViewsMove
<1> HIDE DEF w, r
<1>12. /\ IsCode(rd_ptr_gray_s1') /\ IsCode(rd_ptr_gray_sync')
       /\ ReadSeenLate(wr', rd', gray2bin(rd_ptr_gray_s1'), gray2bin(rd_ptr_gray_sync'))
  <2>1. CASE UNCHANGED <<rd_ptr_gray_s1, rd_ptr_gray_sync>>
    BY <1>1, <1>7, <1>10, <2>1
  <2>2. CASE SyncReadPointer
    <3>1. /\ rd_ptr_gray_s1' \in Sampled(bin2gray(rd), bin2gray(rd'))
          /\ rd_ptr_gray_sync' = rd_ptr_gray_s1
      BY <2>2 DEF SyncReadPointer, rd_ptr_gray
    <3>2. rd_ptr_gray_s1' \in Sampled(bin2gray(rd), bin2gray(Moved(rd, pop)))
      BY <1>7, <3>1 DEF r
    <3>3. IsCode(rd_ptr_gray_s1') /\ gray2bin(rd_ptr_gray_s1') \in {rd, Moved(rd, pop)}
      BY <1>1, <3>2, CapturedCode
    <3>4. gray2bin(rd_ptr_gray_s1') \in {rd, r}
      BY <3>3 DEF r
    <3> QED BY <1>1, <1>7, <1>10, <3>1, <3>3, <3>4
  <2> QED BY <2>1, <2>2
<1>13. /\ IsCode(wr_ptr_gray_s1') /\ IsCode(wr_ptr_gray_sync')
       /\ WriteSeenLate(wr', rd', gray2bin(wr_ptr_gray_s1'), gray2bin(wr_ptr_gray_sync'))
       /\ wr_ptr_gray_sync' \in {wr_ptr_gray_s1, wr_ptr_gray_sync}
  <2>1. CASE UNCHANGED <<wr_ptr_gray_s1, wr_ptr_gray_sync>>
    BY <1>1, <1>7, <1>11, <2>1
  <2>2. CASE SyncWritePointer
    <3>1. /\ wr_ptr_gray_s1' \in Sampled(bin2gray(wr), bin2gray(wr'))
          /\ wr_ptr_gray_sync' = wr_ptr_gray_s1
      BY <2>2 DEF SyncWritePointer, wr_ptr_gray
    <3>2. wr_ptr_gray_s1' \in Sampled(bin2gray(wr), bin2gray(Moved(wr, push)))
      BY <1>7, <3>1 DEF w
    <3>3. IsCode(wr_ptr_gray_s1') /\ gray2bin(wr_ptr_gray_s1') \in {wr, Moved(wr, push)}
      BY <1>1, <3>2, CapturedCode
    <3>4. gray2bin(wr_ptr_gray_s1') \in {wr, w}
      BY <3>3 DEF w
    <3> QED BY <1>1, <1>7, <1>11, <3>1, <3>3, <3>4
  <2> QED BY <2>1, <2>2
<1>14. HeadHeld'
  <2> SUFFICES ASSUME head_valid'
               PROVE  /\ latency' = 1
                      /\ rd' # gray2bin(wr_ptr_gray_sync')
                      /\ pop_data_r' = ReadMem(mem', Idx(rd'))
    BY DEF HeadHeld, raw_empty_r, wr_ptr_bin_rd
  <2>1. latency' = 1 /\ r # wr2 /\ pop_data_r' = ReadMem(mem, Idx(r))
    BY <1>7 DEF Fetched, wr_ptr_bin_rd
  <2>2. /\ Distance(wr2, r) \in Nat /\ Distance(wr1, r) \in Nat /\ Distance(w, r) \in Nat
        /\ Distance(wr2, r) # 0
    BY <1>2, <1>3, <1>8, <2>1, Apart
  <2>3. Distance(wr1, r) # 0 /\ Distance(w, r) # 0
    BY <1>11, <2>2 DEF WriteSeenLate
  <2>4. r # wr1
    BY <1>2, <1>8, <2>3, Apart
  <2>5. rd' # gray2bin(wr_ptr_gray_sync')
    BY <1>7, <1>13, <2>1, <2>4
  <2>6. CASE push
    <3>1. Distance(wr, r) \in Nat /\ Distance(wr, r) # 0 /\ Distance(wr, r) < DEPTH
      <4>1. WriteSeenLate(w, r, wr, wr1) /\ Distance(wr, r) \in Nat
        BY <1>1, <1>3, <1>8, <1>11, Apart
      <4>2. Distance(wr, r) # 0
        BY <2>2, <2>3, <4>1 DEF WriteSeenLate
      <4>3. CASE pop
        <5>1. Distance(wr, rd) > 0
          BY <1>1, <1>3, <1>6, <4>3, Apart
        <5>2. Distance(wr, NextPtr(rd)) = Distance(wr, rd) - 1
          BY <1>1, <5>1, Apart
        <5> QED BY <1>3, <1>4, <4>1, <4>2, <4>3, <5>2 DEF r, Moved
      <4>4. CASE ~pop
        BY <1>5, <2>6, <4>1, <4>2, <4>4 DEF r, Moved
      <4> QED BY <4>3, <4>4
    <3>2. wr # r /\ Distance(wr, r) # DEPTH
      BY <1>1, <1>3, <1>8, <3>1, Apart
    <3>3. ReadMem(WriteMem(mem, Idx(wr), d), Idx(r)) = ReadMem(mem, Idx(r))
      BY <1>1, <1>8, <3>2, HeadKept
    <3> QED BY <1>7, <2>1, <2>5, <2>6, <3>3
  <2>7. CASE ~push
    BY <1>7, <2>1, <2>5, <2>7
  <2> QED BY <2>6, <2>7
<1>15. ViewsAreLate'
  BY <1>12, <1>13 DEF ViewsAreLate, ReadSeenLate, WriteSeenLate, Count,
                      rd_ptr_bin_wr, wr_ptr_bin_rd
<1>16. AsyncInv'
  <2>1. latency' \in {0, 1} /\ head_valid' \in BOOLEAN
    BY DEF AsyncInv, Fetched
  <2>2. /\ mem' \in [Address -> Data \cup {NoData}]
        /\ wr_ptr_bin' \in Ptr /\ rd_ptr_bin' \in Ptr
        /\ \A i \in 1..Count' : Stored'[i] \in Data
    BY <1>7, <1>8, <1>9
  <2> QED BY <1>12, <1>13, <1>14, <1>15, <2>1, <2>2 DEF AsyncInv
<1>17. Stored' = LET rest == IF pop THEN Tail(Stored) ELSE Stored
                 IN  IF push THEN Append(rest, d) ELSE rest
  BY <1>7, <1>8, <1>9
<1>18. push => Len(Stored) < DEPTH
  BY <1>5, <1>8
<1> QED BY <1>8, <1>16, <1>17, <1>18

(* The write port: a push is a word the writer believes to have room for.  *)
LEMMA WritePort ==
    ASSUME Fits, NEW push_data \in Data \cup {NoData}, Push(push_data)
    PROVE  LET push == push_data # NoData /\ push_ready
           IN  /\ push \in BOOLEAN
               /\ push => push_data \in Data /\ ~full_r
               /\ mem' = IF push THEN WriteMem(mem, Idx(wr_ptr_bin), push_data) ELSE mem
               /\ wr_ptr_bin' = Moved(wr_ptr_bin, push)
               /\ pushed' = IF push THEN push_data ELSE NoData
<1>1. push_ready <=> ~full_r
  BY DEF push_ready, Fits
<1> QED BY <1>1 DEF Push, Moved

(* Nothing fetched, nothing popped: the read side between its own edges.   *)
LEMMA ReadPortIdle ==
    ASSUME AsyncInv, UNCHANGED readSide
    PROVE  Fetched(FALSE) /\ UNCHANGED <<wr_ptr_gray_s1, wr_ptr_gray_sync>>
<1>1. /\ rd_ptr_bin' = rd_ptr_bin /\ head_valid' = head_valid
      /\ pop_data_r' = pop_data_r
      /\ UNCHANGED <<wr_ptr_gray_s1, wr_ptr_gray_sync>>
  BY DEF readSide
<1>2. head_valid \in BOOLEAN /\ HeadHeld
  BY DEF AsyncInv
<1>3. Fetched(FALSE)
  BY <1>1, <1>2 DEF HeadHeld, Fetched, Moved, raw_empty_r
<1> QED BY <1>1, <1>3

(* Every clock action keeps the invariant and transfers words.             *)
LEMMA ClockStep ==
    ASSUME Fits, AsyncInv,
           \/ \E push_data \in Data \cup {NoData} : WriteClock(push_data)
           \/ \E pop_ready \in BOOLEAN : ReadClock(pop_ready)
           \/ \E push_data \in Data \cup {NoData}, pop_ready \in BOOLEAN :
                 BothClocks(push_data, pop_ready)
    PROVE  AsyncInv' /\ Elastic!Next
<1>1. ASSUME NEW d \in Data \cup {NoData}, NEW push \in BOOLEAN, NEW pop \in BOOLEAN,
             AsyncInv',
             LET rest == IF pop THEN Tail(Stored) ELSE Stored
             IN  Stored' = IF push THEN Append(rest, d) ELSE rest,
             push => d # NoData,
             push => Len(Stored) < DEPTH,
             pop => Stored # <<>>,
             pushed' = IF push THEN d ELSE NoData,
             popped' = IF pop THEN Head(Stored) ELSE NoData
      PROVE  Elastic!Next
  <2> DEFINE word == IF push THEN d ELSE NoData
  <2>1. word \in Data \cup {NoData} /\ (word # NoData <=> push) /\ (push => word = d)
    BY <1>1
  <2>2. Elastic!Transfer(word, pop)
    BY <1>1, <2>1 DEF Elastic!Transfer
  <2> QED BY <2>1, <2>2 DEF Elastic!Next
<1>2. ASSUME NEW push_data \in Data \cup {NoData}, WriteClock(push_data)
      PROVE  AsyncInv' /\ Elastic!Next
  <2> DEFINE push == push_data # NoData /\ push_ready
  <2>1. /\ Push(push_data) /\ UNCHANGED readSide /\ latency' = latency
        /\ popped' = NoData /\ SyncReadPointer
    BY <1>2 DEF WriteClock
  <2>2. /\ push \in BOOLEAN
        /\ push => push_data \in Data /\ ~full_r
        /\ mem' = IF push THEN WriteMem(mem, Idx(wr_ptr_bin), push_data) ELSE mem
        /\ wr_ptr_bin' = Moved(wr_ptr_bin, push)
        /\ pushed' = IF push THEN push_data ELSE NoData
        /\ push => push_data # NoData
    BY <2>1, WritePort
  <2>3. Fetched(FALSE) /\ UNCHANGED <<wr_ptr_gray_s1, wr_ptr_gray_sync>>
    BY <2>1, ReadPortIdle
  <2> HIDE DEF push
  <2>4. /\ AsyncInv'
        /\ Stored' = IF push THEN Append(Stored, push_data) ELSE Stored
        /\ push => Len(Stored) < DEPTH
    BY <2>1, <2>2, <2>3, EdgeStep
  <2> QED BY <1>1, <2>1, <2>2, <2>4
<1>3. ASSUME NEW pop_ready \in BOOLEAN, ReadClock(pop_ready)
      PROVE  AsyncInv' /\ Elastic!Next
  <2> DEFINE pop == pop_valid /\ pop_ready
  <2>1. /\ Pop(pop_ready) /\ mem' = mem /\ wr_ptr_bin' = wr_ptr_bin
        /\ UNCHANGED <<rd_ptr_gray_s1, rd_ptr_gray_sync>> /\ latency' = latency
        /\ pushed' = NoData /\ SyncWritePointer
    BY <1>3 DEF ReadClock, writeSide
  <2>2. /\ pop \in BOOLEAN /\ Fetched(pop)
        /\ pop => ~raw_empty_r /\ pop_data = ReadMem(mem, Idx(rd_ptr_bin))
        /\ popped' = IF pop THEN pop_data ELSE NoData
    BY <2>1, ReadPort
  <2>3. wr_ptr_bin' = Moved(wr_ptr_bin, FALSE)
    BY <2>1 DEF Moved
  <2> HIDE DEF pop
  <2>4. /\ AsyncInv'
        /\ Stored' = IF pop THEN Tail(Stored) ELSE Stored
        /\ pop => Stored # <<>> /\ Head(Stored) = ReadMem(mem, Idx(rd_ptr_bin))
    BY <2>1, <2>2, <2>3, EdgeStep
  <2>5. popped' = IF pop THEN Head(Stored) ELSE NoData
    BY <2>2, <2>4
  <2> QED BY <1>1, <2>1, <2>2, <2>4, <2>5
<1>4. ASSUME NEW push_data \in Data \cup {NoData}, NEW pop_ready \in BOOLEAN,
             BothClocks(push_data, pop_ready)
      PROVE  AsyncInv' /\ Elastic!Next
  <2> DEFINE push == push_data # NoData /\ push_ready
             pop == pop_valid /\ pop_ready
  <2>1. /\ Push(push_data) /\ Pop(pop_ready) /\ latency' = latency
        /\ SyncReadPointer /\ SyncWritePointer
    BY <1>4 DEF BothClocks
  <2>2. /\ push \in BOOLEAN
        /\ push => push_data \in Data /\ ~full_r
        /\ mem' = IF push THEN WriteMem(mem, Idx(wr_ptr_bin), push_data) ELSE mem
        /\ wr_ptr_bin' = Moved(wr_ptr_bin, push)
        /\ pushed' = IF push THEN push_data ELSE NoData
        /\ push => push_data # NoData
    BY <2>1, WritePort
  <2>3. /\ pop \in BOOLEAN /\ Fetched(pop)
        /\ pop => ~raw_empty_r /\ pop_data = ReadMem(mem, Idx(rd_ptr_bin))
        /\ popped' = IF pop THEN pop_data ELSE NoData
    BY <2>1, ReadPort
  <2> HIDE DEF push, pop
  <2>4. /\ AsyncInv'
        /\ LET rest == IF pop THEN Tail(Stored) ELSE Stored
           IN  Stored' = IF push THEN Append(rest, push_data) ELSE rest
        /\ push => Len(Stored) < DEPTH
        /\ pop => Stored # <<>> /\ Head(Stored) = ReadMem(mem, Idx(rd_ptr_bin))
    BY <2>1, <2>2, <2>3, EdgeStep
  <2>5. popped' = IF pop THEN Head(Stored) ELSE NoData
    BY <2>3, <2>4
  <2> QED BY <1>1, <2>2, <2>3, <2>4, <2>5
<1> QED BY <1>2, <1>3, <1>4

(* The cleared pointers, of the initial state and of a reset.              *)
LEMMA ClearedState ==
    ASSUME Fits
    PROVE  /\ 0 \in Ptr /\ Distance(0, 0) = 0 /\ DEPTH \in Nat
           /\ IsCode(bin2gray(0)) /\ gray2bin(bin2gray(0)) = 0
           /\ Idx(0) \in Address
<1>1. 0 \in Ptr /\ DEPTH \in Nat
  BY WidthFacts, AsyncFifoAssumption DEF Ptr, Fits
<1> QED BY <1>1, Apart, GrayInverse, NextIs, IdxInside DEF IsCode

(* A reset empties the queue, whatever it writes into slot 0.              *)
LEMMA ResetStep ==
    ASSUME Fits, AsyncInv, Reset
    PROVE  AsyncInv' /\ Elastic!Reset
<1>1. /\ wr_ptr_bin' = 0 /\ rd_ptr_bin' = 0
      /\ rd_ptr_gray_s1' = bin2gray(0) /\ rd_ptr_gray_sync' = bin2gray(0)
      /\ wr_ptr_gray_s1' = bin2gray(0) /\ wr_ptr_gray_sync' = bin2gray(0)
      /\ head_valid' = FALSE /\ latency' = latency
      /\ pushed' = NoData /\ popped' = NoData
  BY DEF Reset
<1>2. mem' \in [Address -> Data \cup {NoData}]
  <2>1. mem \in [Address -> Data \cup {NoData}]
    BY DEF AsyncInv
  <2> QED BY <2>1 DEF Reset, WriteMem
<1>3. Count' = 0 /\ Stored' = <<>>
  BY <1>1, ClearedState DEF Count, Stored
<1>4. ViewsAreLate'
  BY <1>1, <1>3, ClearedState DEF ViewsAreLate, rd_ptr_bin_wr, wr_ptr_bin_rd
<1>5. HeadHeld'
  BY <1>1 DEF HeadHeld
<1>6. latency \in {0, 1}
  BY DEF AsyncInv
<1>7. AsyncInv'
  <2>1. \A i \in 1..Count' : Stored'[i] \in Data
    BY <1>3
  <2>2. /\ latency' \in {0, 1} /\ head_valid' \in BOOLEAN
        /\ wr_ptr_bin' \in Ptr /\ rd_ptr_bin' \in Ptr
        /\ IsCode(rd_ptr_gray_s1') /\ IsCode(rd_ptr_gray_sync')
        /\ IsCode(wr_ptr_gray_s1') /\ IsCode(wr_ptr_gray_sync')
    BY <1>1, <1>6, ClearedState
  <2> QED BY <1>2, <1>4, <1>5, <2>1, <2>2 DEF AsyncInv
<1> QED BY <1>1, <1>3, <1>7 DEF Elastic!Reset

(* Power-up.                                                               *)
LEMMA AsyncInitial ==
    ASSUME Fits, Init PROVE AsyncInv /\ Elastic!Init
<1>1. Count = 0 /\ Stored = <<>>
  BY ClearedState DEF Init, Count, Stored
<1>2. ViewsAreLate
  BY <1>1, ClearedState DEF Init, ViewsAreLate, rd_ptr_bin_wr, wr_ptr_bin_rd
<1>3. mem \in [Address -> Data \cup {NoData}]
  BY DEF Init
<1>4. AsyncInv
  <2>1. (\A i \in 1..Count : Stored[i] \in Data) /\ HeadHeld
    BY <1>1 DEF Init, HeadHeld
  <2>2. /\ latency \in {0, 1} /\ head_valid \in BOOLEAN
        /\ wr_ptr_bin \in Ptr /\ rd_ptr_bin \in Ptr
        /\ IsCode(rd_ptr_gray_s1) /\ IsCode(rd_ptr_gray_sync)
        /\ IsCode(wr_ptr_gray_s1) /\ IsCode(wr_ptr_gray_sync)
    BY ClearedState DEF Init
  <2> QED BY <1>2, <1>3, <2>1, <2>2 DEF AsyncInv
<1> QED BY <1>1, <1>4 DEF Init, Elastic!Init

(* The inductive step and the refinement step together.                    *)
LEMMA AsyncStep ==
    ASSUME Fits, AsyncInv, [Next]_vars
    PROVE  AsyncInv' /\ [Elastic!Next]_(Elastic!vars)
<1>1. CASE UNCHANGED vars
  <2>1. /\ UNCHANGED <<latency, mem, wr_ptr_bin, rd_ptr_gray_s1, rd_ptr_gray_sync>>
        /\ UNCHANGED <<rd_ptr_bin, wr_ptr_gray_s1, wr_ptr_gray_sync, head_valid, pop_data_r>>
        /\ UNCHANGED <<pushed, popped>>
    BY <1>1 DEF vars, writeSide, readSide
  <2>2. Stored' = Stored /\ Count' = Count
    BY <2>1 DEF Stored, Count
  <2>3. ViewsAreLate' /\ HeadHeld'
    BY <2>1, <2>2 DEF AsyncInv, ViewsAreLate, HeadHeld, rd_ptr_bin_wr, wr_ptr_bin_rd,
                      raw_empty_r
  <2> QED BY <2>1, <2>2, <2>3 DEF AsyncInv, Elastic!vars
<1>2. CASE Reset
  BY <1>2, ResetStep DEF Elastic!Next
<1>3. CASE Next /\ ~Reset
  BY <1>3, ClockStep DEF Next
<1> QED BY <1>1, <1>2, <1>3

(* Each side of the dual-clock FIFO sees the other's pointer late but      *)
(* never wrong, for every power-of-two depth, every interleaving of the    *)
(* clocks and every outcome of sampling a changing pointer.                *)
THEOREM AsyncFifoViews ==
    ASSUME Fits PROVE Spec => []ViewsAreLate
<1>1. Init => AsyncInv
  BY AsyncInitial
<1>2. AsyncInv /\ [Next]_vars => AsyncInv'
  BY AsyncStep
<1>3. AsyncInv => ViewsAreLate
  BY DEF AsyncInv
<1> QED BY <1>1, <1>2, <1>3, PTL DEF Spec

(* The dual-clock FIFO carries words across in order and exactly once, at  *)
(* most DEPTH of them in flight, with either latency.                      *)
THEOREM AsyncFifoImplementsQueue ==
    ASSUME Fits PROVE Spec => ImplementsElasticQueue
<1>1. Init => AsyncInv /\ Elastic!Init
  BY AsyncInitial
<1>2. AsyncInv /\ [Next]_vars => AsyncInv' /\ [Elastic!Next]_(Elastic!vars)
  BY AsyncStep
<1> QED BY <1>1, <1>2, PTL DEF Spec, ImplementsElasticQueue, Elastic!Spec
=============================================================================
