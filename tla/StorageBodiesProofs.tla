------------------------ MODULE StorageBodiesProofs -------------------------
(***************************************************************************)
(* The bodies of a design's storage, one by one.                           *)
(*                                                                         *)
(* The circuits and the simulation classes of a `fifo` declaration are the *)
(* bounded queue or stack, for every depth the chosen body supports and    *)
(* every payload set.                                                      *)
(*                                                                         *)
(* Of a `linklist` declaration: an edge of the circuit, and a call of the  *)
(* generated class, is one operation accepted and one ended, as whole      *)
(* functions of the registers, because at most two of the controllers that *)
(* run in turn have anything to do.  The circuit and the class accept and  *)
(* end an operation alike.  StorageProofs puts them together.              *)
(***************************************************************************)
EXTENDS Storage, SequenceTheorems, FiniteSetTheorems, WellFoundedInduction, Integers, TLAPS

-----------------------------------------------------------------------------
(* The ring of FIFO pointers.                                              *)

(* The instance's depth is one the body chosen from the declaration can    *)
(* hold: then both bodies run on a ring of 2*DEPTH pointers.               *)
DepthFitsBody == use_general_depth \/ IsPowerOfTwo(DEPTH)

(* 2^$clog2(DEPTH) is DEPTH itself for a power of two.                     *)
LEMMA HalfIsDepth ==
    ASSUME DepthFitsBody PROVE Half = DEPTH
<1>1. CASE use_general_depth
  BY <1>1 DEF Half
<1>2. CASE ~use_general_depth
  <2>1. IsPowerOfTwo(DEPTH)
    BY <1>2 DEF DepthFitsBody
  <2>2. DEPTH \in DEPTH..(2 * DEPTH) /\ IsCeilPow2(DEPTH)
    BY <2>1, FifoAssumption DEF IsCeilPow2
  <2>3. \A h \in DEPTH..(2 * DEPTH) : IsCeilPow2(h) => h = DEPTH
    BY <2>1, FifoAssumption DEF IsCeilPow2
  <2>4. CeilPow2 \in DEPTH..(2 * DEPTH) /\ IsCeilPow2(CeilPow2)
    BY <2>2 DEF CeilPow2
  <2>5. CeilPow2 = DEPTH
    BY <2>3, <2>4
  <2> QED
    BY <2>5, <1>2 DEF Half
<1> QED
  BY <1>1, <1>2

(* The successor of a pointer is a pointer; indices address mem.           *)
LEMMA NextPtrType ==
    ASSUME DepthFitsBody, NEW p \in Ptr
    PROVE  NextPtr(p) \in Ptr /\ Idx(p) \in Address
BY HalfIsDepth, FifoAssumption DEF Ptr, Address, NextPtr, Idx

(* How the distance between the pointers changes when one of them moves.   *)
LEMMA DistanceFacts ==
    ASSUME DepthFitsBody, NEW wr \in Ptr, NEW rd \in Ptr
    PROVE  /\ Distance(wr, rd) \in 0..(2 * DEPTH - 1)
           /\ Distance(wr, rd) = 0 <=> wr = rd
           /\ IsFull(wr, rd) <=> Distance(wr, rd) = DEPTH
           /\ wr = NextPtr(rd) <=> Distance(wr, rd) = 1 
           /\ Distance(wr, rd) < 2 * DEPTH - 1 =>
                 Distance(NextPtr(wr), rd) = Distance(wr, rd) + 1
           /\ Distance(wr, rd) > 0 =>
                 Distance(wr, NextPtr(rd)) = Distance(wr, rd) - 1
           /\ Distance(NextPtr(wr), NextPtr(rd)) = Distance(wr, rd)
<1> USE HalfIsDepth, FifoAssumption DEF Ptr, Distance, NextPtr
<1>1. Distance(wr, rd) \in 0..(2 * DEPTH - 1) /\ (Distance(wr, rd) = 0 <=> wr = rd)
  OBVIOUS
<1>2. IsFull(wr, rd) <=> Distance(wr, rd) = DEPTH
  BY DEF IsFull, Idx
<1>3. wr = NextPtr(rd) <=> Distance(wr, rd) = 1
  OBVIOUS
<1>4. Distance(wr, rd) < 2 * DEPTH - 1 =>
         Distance(NextPtr(wr), rd) = Distance(wr, rd) + 1
  OBVIOUS
<1>5. Distance(wr, rd) > 0 =>
         Distance(wr, NextPtr(rd)) = Distance(wr, rd) - 1
  OBVIOUS
<1>6. Distance(NextPtr(wr), NextPtr(rd)) = Distance(wr, rd)
  OBVIOUS
<1> QED
  BY <1>1, <1>2, <1>3, <1>4, <1>5, <1>6

(* Slots counted from the read pointer: the wr-th is the one the next push *)
(* writes, moving the read pointer renumbers them, and no two of a window  *)
(* of DEPTH coincide.                                                      *)
LEMMA SlotFacts ==
    ASSUME DepthFitsBody, NEW wr \in Ptr, NEW rd \in Ptr
    PROVE  /\ PtrFrom(rd, 0) = rd
           /\ PtrFrom(rd, Distance(wr, rd)) = wr
           /\ \A i \in 0..(2 * DEPTH - 1) : Idx(PtrFrom(rd, i)) \in Address
           /\ \A i \in 0..(2 * DEPTH - 2) :
                 PtrFrom(NextPtr(rd), i) = PtrFrom(rd, i + 1)
           /\ \A i, j \in 0..DEPTH :
                 Idx(PtrFrom(rd, i)) = Idx(PtrFrom(rd, j)) =>
                     i = j \/ (i = 0 /\ j = DEPTH) \/ (i = DEPTH /\ j = 0)
<1> USE HalfIsDepth, FifoAssumption DEF Ptr, PtrFrom
<1>1. PtrFrom(rd, 0) = rd /\ PtrFrom(rd, Distance(wr, rd)) = wr
  BY DEF Distance
<1>2. \A i \in 0..(2 * DEPTH - 1) : Idx(PtrFrom(rd, i)) \in Address
  BY DEF Idx, Address
<1>3. \A i \in 0..(2 * DEPTH - 2) : PtrFrom(NextPtr(rd), i) = PtrFrom(rd, i + 1)
  BY DEF NextPtr
<1>4. \A i, j \in 0..DEPTH :
         Idx(PtrFrom(rd, i)) = Idx(PtrFrom(rd, j)) =>
             i = j \/ (i = 0 /\ j = DEPTH) \/ (i = DEPTH /\ j = 0)
  BY DEF Idx
<1> QED
  BY <1>1, <1>2, <1>3, <1>4

(* What Words gives for two pointers at most DEPTH apart.                  *)
LEMMA WordsFacts ==
    ASSUME DepthFitsBody, NEW wr \in Ptr, NEW rd \in Ptr,
           NEW m \in [Address -> Data \cup {NoData}],
           \A i \in 1..Distance(wr, rd) : Words(m, wr, rd)[i] \in Data
    PROVE  /\ Words(m, wr, rd) \in Seq(Data)
           /\ Len(Words(m, wr, rd)) = Distance(wr, rd)
           /\ \A i \in 1..Distance(wr, rd) :
                 Words(m, wr, rd)[i] = m[Idx(PtrFrom(rd, i - 1))]
<1> DEFINE n == Distance(wr, rd)
<1>1. n \in 0..(2 * DEPTH - 1) /\ n \in Nat
  BY DistanceFacts, FifoAssumption
<1>2. Words(m, wr, rd) \in [1..n -> Data]
  BY DEF Words
<1>3. Words(m, wr, rd) \in Seq(Data)
  BY <1>1, <1>2, SeqDef
<1>4. DOMAIN Words(m, wr, rd) = 1..n
  BY DEF Words
<1>5. Len(Words(m, wr, rd)) = n
  BY <1>1, <1>3, <1>4, LenProperties
<1>6. \A i \in 1..n : Idx(PtrFrom(rd, i - 1)) \in Address
  BY <1>1, SlotFacts, FifoAssumption
<1>7. \A i \in 1..n : Words(m, wr, rd)[i] = m[Idx(PtrFrom(rd, i - 1))]
  BY <1>6 DEF Words, ReadMem
<1> QED
  BY <1>3, <1>5, <1>7

(* A pop, or the drop of the oldest word, removes the head.                *)
LEMMA WordsTail ==
    ASSUME DepthFitsBody, NEW wr \in Ptr, NEW rd \in Ptr,
           NEW m \in [Address -> Data \cup {NoData}],
           \A i \in 1..Distance(wr, rd) : Words(m, wr, rd)[i] \in Data,
           wr # rd
    PROVE  /\ Words(m, wr, NextPtr(rd)) = Tail(Words(m, wr, rd))
           /\ \A i \in 1..Distance(wr, NextPtr(rd)) :
                 Words(m, wr, NextPtr(rd))[i] \in Data
           /\ Head(Words(m, wr, rd)) = ReadMem(m, Idx(rd))
           /\ Words(m, wr, rd) # <<>>
<1> DEFINE n == Distance(wr, rd)
           s == Words(m, wr, rd)
           t == Words(m, wr, NextPtr(rd))
<1>1. n \in 1..(2 * DEPTH - 1) /\ Distance(wr, NextPtr(rd)) = n - 1
  BY DistanceFacts, FifoAssumption
<1>2. s \in Seq(Data) /\ Len(s) = n
      /\ \A i \in 1..n : s[i] = m[Idx(PtrFrom(rd, i - 1))]
  BY WordsFacts
<1>3. s # <<>>
  BY <1>1, <1>2, EmptySeq, FifoAssumption
<1>4. \A i \in 1..(n - 1) : t[i] = s[i + 1]
  <2> SUFFICES ASSUME NEW i \in 1..(n - 1) PROVE t[i] = s[i + 1]
    OBVIOUS
  <2>1. i - 1 \in 0..(2 * DEPTH - 2) /\ i + 1 \in 1..n /\ (i + 1) - 1 = (i - 1) + 1
    BY <1>1, FifoAssumption
  <2>2. PtrFrom(NextPtr(rd), i - 1) = PtrFrom(rd, (i + 1) - 1)
    BY <2>1, SlotFacts
  <2> QED
    BY <2>1, <2>2, <1>1 DEF Words
<1>5. \A i \in 1..(n - 1) : t[i] \in Data
  BY <1>1, <1>2, <1>4, ElementOfSeq, FifoAssumption
<1>6. t \in Seq(Data) /\ Len(t) = n - 1
  BY <1>1, <1>5, NextPtrType, WordsFacts
<1>7. Tail(s) \in Seq(Data) /\ Len(Tail(s)) = n - 1
      /\ \A i \in 1..(n - 1) : Tail(s)[i] = s[i + 1]
  BY <1>2, <1>3, HeadTailProperties
<1>8. t = Tail(s)
  BY <1>4, <1>6, <1>7, SeqEqual
<1>9. Head(s) = ReadMem(m, Idx(rd))
  <2>1. Head(s) = s[1]
    BY <1>2, <1>3
  <2>2. 1 \in 1..n /\ 1 - 1 = 0
    BY <1>1, FifoAssumption
  <2>3. s[1] = m[Idx(rd)]
    BY <2>2, <1>2, SlotFacts
  <2> QED
    BY <2>1, <2>3, NextPtrType DEF ReadMem
<1> QED
  BY <1>1, <1>3, <1>5, <1>8, <1>9

(* A push appends: the slot it writes is none of those already stored.     *)
LEMMA WordsAppend ==
    ASSUME DepthFitsBody, NEW wr \in Ptr, NEW rd \in Ptr,
           NEW m \in [Address -> Data \cup {NoData}], NEW d \in Data,
           \A i \in 1..Distance(wr, rd) : Words(m, wr, rd)[i] \in Data,
           Distance(wr, rd) < DEPTH
    PROVE  /\ Words(WriteMem(m, Idx(wr), d), NextPtr(wr), rd)
                 = Append(Words(m, wr, rd), d)
           /\ \A i \in 1..Distance(NextPtr(wr), rd) :
                 Words(WriteMem(m, Idx(wr), d), NextPtr(wr), rd)[i] \in Data
<1> DEFINE n == Distance(wr, rd)
           w == WriteMem(m, Idx(wr), d)
           s == Words(m, wr, rd)
           t == Words(w, NextPtr(wr), rd)
<1>1. n \in 0..(DEPTH - 1) /\ Distance(NextPtr(wr), rd) = n + 1
  BY DistanceFacts, FifoAssumption
<1>2. s \in Seq(Data) /\ Len(s) = n
      /\ \A i \in 1..n : s[i] = m[Idx(PtrFrom(rd, i - 1))]
  BY WordsFacts
<1>3. Idx(wr) \in Address /\ Idx(wr) = Idx(PtrFrom(rd, n))
  BY NextPtrType, SlotFacts
<1>4. w = [m EXCEPT ![Idx(wr)] = d] /\ w \in [Address -> Data \cup {NoData}]
  BY <1>3 DEF WriteMem
<1>5. \A i \in 1..(n + 1) : Idx(PtrFrom(rd, i - 1)) \in Address
                             /\ t[i] = w[Idx(PtrFrom(rd, i - 1))]
  BY <1>1, SlotFacts, FifoAssumption DEF Words, ReadMem
<1>6. t[n + 1] = d
  <2>1. n + 1 \in 1..(n + 1) /\ (n + 1) - 1 = n
    BY <1>1, FifoAssumption
  <2> QED
    BY <2>1, <1>3, <1>4, <1>5
<1>7. \A i \in 1..n : t[i] = s[i]
  <2> SUFFICES ASSUME NEW i \in 1..n PROVE t[i] = s[i]
    OBVIOUS
  <2>1. i \in 1..(n + 1) /\ i - 1 \in 0..DEPTH /\ n \in 0..DEPTH
        /\ i - 1 # n /\ n # DEPTH /\ i - 1 # DEPTH
    BY <1>1, FifoAssumption
  <2>2. Idx(PtrFrom(rd, i - 1)) # Idx(wr)
    BY <2>1, <1>3, SlotFacts
  <2> QED
    BY <2>1, <2>2, <1>2, <1>4, <1>5
<1>8. \A i \in 1..(n + 1) : t[i] \in Data
  <2> SUFFICES ASSUME NEW i \in 1..(n + 1) PROVE t[i] \in Data
    OBVIOUS
  <2>1. CASE i = n + 1
    BY <2>1, <1>6
  <2>2. CASE i # n + 1
    <3>1. i \in 1..n
      BY <2>2, <1>1, FifoAssumption
    <3> QED
      BY <3>1, <1>2, <1>7, ElementOfSeq
  <2> QED
    BY <2>1, <2>2
<1>9. t \in Seq(Data) /\ Len(t) = n + 1
  BY <1>1, <1>4, <1>8, NextPtrType, WordsFacts
<1>10. /\ Append(s, d) \in Seq(Data) /\ Len(Append(s, d)) = n + 1
       /\ \A i \in 1..n : Append(s, d)[i] = s[i]
       /\ Append(s, d)[n + 1] = d
  BY <1>2, AppendProperties
<1>11. \A i \in 1..(n + 1) : t[i] = Append(s, d)[i]
  <2> SUFFICES ASSUME NEW i \in 1..(n + 1) PROVE t[i] = Append(s, d)[i]
    OBVIOUS
  <2>1. i \in 1..n \/ i = n + 1
    BY <1>1, FifoAssumption
  <2> QED
    BY <2>1, <1>6, <1>7, <1>10
<1>12. t = Append(s, d)
  BY <1>9, <1>10, <1>11, SeqEqual
<1> QED
  BY <1>1, <1>8, <1>12

(* One edge that pushes d, advances rd, or both: what is stored after it.  *)
(* A push into a full ring needs the slot that rd leaves.                  *)
LEMMA WordsStep ==
    ASSUME DepthFitsBody, NEW wr \in Ptr, NEW rd \in Ptr,
           NEW m \in [Address -> Data \cup {NoData}], NEW d \in Data,
           \A i \in 1..Distance(wr, rd) : Words(m, wr, rd)[i] \in Data,
           Distance(wr, rd) <= DEPTH,
           NEW push \in BOOLEAN, NEW adv \in BOOLEAN,
           adv => wr # rd, push /\ Distance(wr, rd) = DEPTH => adv
    PROVE  LET written == IF push THEN WriteMem(m, Idx(wr), d) ELSE m
               w    == IF push THEN NextPtr(wr) ELSE wr
               r    == IF adv THEN NextPtr(rd) ELSE rd
               rest == IF adv THEN Tail(Words(m, wr, rd)) ELSE Words(m, wr, rd)
           IN  /\ w \in Ptr /\ r \in Ptr
               /\ written \in [Address -> Data \cup {NoData}]
               /\ Distance(w, r) <= DEPTH
               /\ \A i \in 1..Distance(w, r) : Words(written, w, r)[i] \in Data
               /\ Words(written, w, r) = IF push THEN Append(rest, d) ELSE rest
<1> DEFINE written == IF push THEN WriteMem(m, Idx(wr), d) ELSE m
           w    == IF push THEN NextPtr(wr) ELSE wr
           r    == IF adv THEN NextPtr(rd) ELSE rd
           n    == Distance(wr, rd)
           rest == IF adv THEN Tail(Words(m, wr, rd)) ELSE Words(m, wr, rd)
<1>1. w \in Ptr /\ r \in Ptr
  BY NextPtrType
<1>2. written \in [Address -> Data \cup {NoData}]
  BY DEF WriteMem
<1>3. n \in Nat /\ (adv => n > 0) /\ n <= DEPTH
  BY DistanceFacts, FifoAssumption
<1>4. /\ Words(m, wr, r) = rest
      /\ \A i \in 1..Distance(wr, r) : Words(m, wr, r)[i] \in Data
      /\ Distance(wr, r) = IF adv THEN n - 1 ELSE n
  <2>1. CASE adv
    <3>1. Distance(wr, NextPtr(rd)) = n - 1
      BY <2>1, <1>3, DistanceFacts
    <3> QED
      BY <2>1, <3>1, WordsTail
  <2>2. CASE ~adv
    BY <2>2
  <2> QED
    BY <2>1, <2>2
<1>5. CASE push
  <2>1. Distance(wr, r) < DEPTH
    BY <1>5, <1>3, <1>4, FifoAssumption
  <2>2. Distance(NextPtr(wr), r) = Distance(wr, r) + 1
    BY <2>1, <1>1, DistanceFacts, FifoAssumption
  <2>3. /\ Words(written, w, r) = Append(rest, d)
        /\ \A i \in 1..Distance(w, r) : Words(written, w, r)[i] \in Data
    <3>1. written = WriteMem(m, Idx(wr), d) /\ w = NextPtr(wr)
      BY <1>5
    <3> HIDE DEF written, w, r, rest
    <3> QED
      BY <3>1, <2>1, <1>1, <1>4, WordsAppend
  <2>4. Distance(w, r) <= DEPTH
    BY <1>5, <2>1, <2>2, <1>3, <1>4, FifoAssumption
  <2> QED
    BY <1>1, <1>2, <1>5, <2>3, <2>4
<1>6. CASE ~push
  BY <1>1, <1>2, <1>3, <1>4, <1>6, FifoAssumption
<1> QED
  BY <1>5, <1>6

(* A push leaves the word at rd, unless rd is the slot it writes.          *)
LEMMA SlotKept ==
    ASSUME DepthFitsBody, NEW wr \in Ptr, NEW rd \in Ptr,
           wr # rd, Distance(wr, rd) # DEPTH,
           NEW m \in [Address -> Data \cup {NoData}], NEW d
    PROVE  ReadMem(WriteMem(m, Idx(wr), d), Idx(rd)) = ReadMem(m, Idx(rd))
<1>1. Idx(wr) # Idx(rd)
  BY DistanceFacts DEF IsFull
<1> QED
  BY <1>1 DEF ReadMem, WriteMem

(* A word at the slot it was written to.                                   *)
LEMMA SlotWritten ==
    ASSUME DepthFitsBody, NEW wr \in Ptr,
           NEW m \in [Address -> Data \cup {NoData}], NEW d
    PROVE  ReadMem(WriteMem(m, Idx(wr), d), Idx(wr)) = d
BY NextPtrType DEF ReadMem, WriteMem

(* A register that holds the head keeps holding it across an edge if it    *)
(* takes a pushed word that becomes the head at once, and otherwise the    *)
(* word behind the head when rd moves.                                     *)
LEMMA HeadRegisterStep ==
    ASSUME DepthFitsBody, NEW wr \in Ptr, NEW rd \in Ptr,
           NEW m \in [Address -> Data \cup {NoData}], NEW d,
           NEW push \in BOOLEAN, NEW adv \in BOOLEAN, NEW old, NEW new,
           Distance(wr, rd) <= DEPTH,
           adv => wr # rd, push /\ Distance(wr, rd) = DEPTH => adv,
           wr # rd => old = ReadMem(m, Idx(rd)),
           push /\ wr = (IF adv THEN NextPtr(rd) ELSE rd) => new = d,
           adv /\ wr # NextPtr(rd) => new = ReadMem(m, Idx(NextPtr(rd))),
           ~adv /\ wr # rd => new = old
    PROVE  LET written == IF push THEN WriteMem(m, Idx(wr), d) ELSE m
               w == IF push THEN NextPtr(wr) ELSE wr
               r == IF adv THEN NextPtr(rd) ELSE rd
           IN  w # r => new = ReadMem(written, Idx(r))
<1> DEFINE written == IF push THEN WriteMem(m, Idx(wr), d) ELSE m
           w == IF push THEN NextPtr(wr) ELSE wr
           r == IF adv THEN NextPtr(rd) ELSE rd
<1>1. r \in Ptr
  BY NextPtrType
<1>2. CASE wr = r
  <2>1. push => new = ReadMem(WriteMem(m, Idx(wr), d), Idx(r))
    BY <1>2, SlotWritten
  <2> QED
    BY <1>2, <2>1
<1>3. CASE wr # r
  <2>1. new = ReadMem(m, Idx(r))
    BY <1>3
  <2>2. push => Distance(wr, r) # DEPTH
    <3>1. DEPTH \in Nat /\ Distance(wr, rd) \in Nat
          /\ (wr # rd => Distance(wr, NextPtr(rd)) = Distance(wr, rd) - 1)
      BY DistanceFacts, FifoAssumption
    <3> QED
      BY <3>1
  <2>3. push => ReadMem(WriteMem(m, Idx(wr), d), Idx(r)) = ReadMem(m, Idx(r))
    <3> HIDE DEF r
    <3> QED
      BY <1>1, <1>3, <2>2, SlotKept
  <2> QED
    BY <2>1, <2>3
<1> QED
  BY <1>2, <1>3

-----------------------------------------------------------------------------
(* The bodies of a FIFO.                                                   *)
-----------------------------------------------------------------------------
(* The latency-0 circuit, both settings of OVERFLOW.                       *)

(* TypeOK alone is inductive only together with the occupancy bound: the   *)
(* word a pop delivers is in Data because the slot was written.            *)
IInv == TypeOK /\ OccupancyInv

(* A full FIFO that accepts a word makes room for it in the same edge.     *)
LEMMA PushMakesRoom ==
    ASSUME DepthFitsBody, IInv, NEW push_valid \in BOOLEAN, NEW pop_ready \in BOOLEAN
    PROVE  LET push == push_valid /\ push_ready
               adv  == AdvanceRead(push, pop_ready)
           IN  /\ push \in BOOLEAN /\ adv \in BOOLEAN
               /\ adv => wr_ptr # rd_ptr
               /\ push /\ Count = DEPTH => adv
               /\ adv <=> (pop_ready /\ pop_valid)
                           \/ (push /\ ~pop_ready /\ Count = DEPTH)
<1>1. wr_ptr \in Ptr /\ rd_ptr \in Ptr
  BY DEF IInv, TypeOK
<1>2. full <=> Count = DEPTH
  BY <1>1, DistanceFacts DEF full, Count
<1>3. empty <=> Count = 0
  BY <1>1, DistanceFacts DEF empty, Count
<1>4. DEPTH # 0
  BY FifoAssumption
<1>5. (push_valid /\ push_ready) \in BOOLEAN
      /\ AdvanceRead(push_valid /\ push_ready, pop_ready) \in BOOLEAN
  BY DEF push_ready, AdvanceRead
<1> QED
  BY <1>2, <1>3, <1>4, <1>5, FifoAssumption
  DEF AdvanceRead, push_ready, pop_valid, empty

(* The inductive step, one case per action.                                *)
LEMMA InductiveStep ==
    ASSUME DepthFitsBody, IInv, [Next]_vars PROVE IInv'
<1>1. ASSUME NEW push_valid \in BOOLEAN, NEW pop_ready \in BOOLEAN,
             NEW push_data \in Data, Edge(push_valid, push_data, pop_ready)
      PROVE  IInv'
  <2> DEFINE push == push_valid /\ push_ready
             adv  == AdvanceRead(push, pop_ready)
  <2>1. /\ push \in BOOLEAN /\ adv \in BOOLEAN
        /\ adv => wr_ptr # rd_ptr
        /\ push /\ Count = DEPTH => adv
    BY PushMakesRoom
  <2>2. /\ mem' = IF push THEN WriteMem(mem, Idx(wr_ptr), push_data) ELSE mem
        /\ wr_ptr' = IF push THEN NextPtr(wr_ptr) ELSE wr_ptr
        /\ rd_ptr' = IF adv THEN NextPtr(rd_ptr) ELSE rd_ptr
        /\ pushed' \in Data \cup {NoData}
    BY <1>1 DEF Edge
  <2> HIDE DEF push, adv
  <2>3. /\ wr_ptr' \in Ptr /\ rd_ptr' \in Ptr
        /\ mem' \in [Address -> Data \cup {NoData}]
        /\ Distance(wr_ptr', rd_ptr') <= DEPTH
        /\ \A i \in 1..Distance(wr_ptr', rd_ptr') :
              Words(mem', wr_ptr', rd_ptr')[i] \in Data
    <3>1. /\ mem \in [Address -> Data \cup {NoData}]
          /\ wr_ptr \in Ptr /\ rd_ptr \in Ptr /\ Distance(wr_ptr, rd_ptr) <= DEPTH
          /\ \A i \in 1..Distance(wr_ptr, rd_ptr) : Words(mem, wr_ptr, rd_ptr)[i] \in Data
          /\ push /\ Distance(wr_ptr, rd_ptr) = DEPTH => adv
      BY <2>1 DEF IInv, TypeOK, OccupancyInv, Count, Stored
    <3> QED
      BY <2>1, <2>2, <3>1, WordsStep
  <2>4. popped' \in Data \cup {NoData}
    BY <1>1, NextPtrType DEF Edge, IInv, TypeOK, pop_data, ReadMem
  <2> QED
    BY <2>2, <2>3, <2>4 DEF IInv, TypeOK, OccupancyInv, Count, Stored
<1>2. CASE Reset
  <2>1. 0 \in Ptr /\ Distance(0, 0) = 0
    BY HalfIsDepth, FifoAssumption DEF Ptr, Distance
  <2> QED
    BY <1>2, <2>1, FifoAssumption
    DEF Reset, IInv, TypeOK, OccupancyInv, Count, Stored
<1>3. CASE UNCHANGED vars
  BY <1>3 DEF vars, IInv, TypeOK, OccupancyInv, Count, Stored
<1> QED
  BY <1>1, <1>2, <1>3 DEF Next

(* The uninitialised circuit after power-up satisfies the invariant.       *)
LEMMA InitialState ==
    ASSUME DepthFitsBody, Init PROVE IInv /\ Stored = <<>>
<1>1. 0 \in Ptr /\ Distance(0, 0) = 0
  BY HalfIsDepth, FifoAssumption DEF Ptr, Distance
<1>2. IInv
  BY <1>1, FifoAssumption DEF Init, IInv, TypeOK, OccupancyInv, Count, Stored
<1>3. Stored = <<>>
  BY <1>1 DEF Init, Stored, Words
<1> QED
  BY <1>2, <1>3

(* The type invariant and the occupancy bound of the emitted latency-0     *)
(* FIFO hold in every reachable state, for every depth the body supports.  *)
THEOREM SyncFifoOccupancy ==
    ASSUME DepthFitsBody PROVE Spec => [](TypeOK /\ OccupancyInv)
<1>1. Init => IInv
  BY InitialState
<1>2. IInv /\ [Next]_vars => IInv'
  BY InductiveStep
<1>3. IInv => TypeOK /\ OccupancyInv
  BY DEF IInv
<1> QED
  BY <1>1, <1>2, <1>3, PTL DEF Spec

(* Every step of the circuit is a step of the queue of FifoSpec, or leaves *)
(* it unchanged.                                                           *)
LEMMA QueueStep ==
    ASSUME DepthFitsBody, IInv, [Next]_vars PROVE [Queue!Next]_(Queue!vars)
<1>1. ASSUME NEW push_valid \in BOOLEAN, NEW pop_ready \in BOOLEAN,
             NEW push_data \in Data, Edge(push_valid, push_data, pop_ready)
      PROVE  Queue!Edge(push_valid, push_data, pop_ready)
  <2> DEFINE push == push_valid /\ push_ready
             adv  == AdvanceRead(push, pop_ready)
             rest == IF adv THEN Tail(Stored) ELSE Stored
  <2>1. wr_ptr \in Ptr /\ rd_ptr \in Ptr
        /\ mem \in [Address -> Data \cup {NoData}]
        /\ \A i \in 1..Distance(wr_ptr, rd_ptr) :
              Words(mem, wr_ptr, rd_ptr)[i] \in Data
    BY DEF IInv, TypeOK, OccupancyInv, Count, Stored
  <2>2. Len(Stored) = Count /\ Count \in 0..DEPTH
    BY <2>1, WordsFacts, DistanceFacts, FifoAssumption
    DEF Stored, Count, IInv, OccupancyInv
  <2>3. /\ full <=> Len(Stored) = DEPTH
        /\ empty <=> Stored = <<>>
    <3>1. full <=> Count = DEPTH
      BY <2>1, DistanceFacts DEF full, Count
    <3>2. empty <=> Count = 0
      BY <2>1, DistanceFacts DEF empty, Count
    <3>3. Stored \in Seq(Data)
      BY <2>1, WordsFacts DEF Stored
    <3>4. Count = 0 <=> Stored = <<>>
      BY <3>3, <2>2, EmptySeq
    <3> QED
      BY <3>1, <3>2, <3>4, <2>2
  <2>4. (push_ready <=> Queue!push_ready) /\ (pop_valid <=> Queue!pop_valid)
    BY <2>2, <2>3, FifoAssumption
    DEF push_ready, pop_valid, Queue!push_ready, Queue!pop_valid
  <2>5. /\ push \in BOOLEAN /\ adv \in BOOLEAN
        /\ adv => wr_ptr # rd_ptr
        /\ push /\ Count = DEPTH => adv
        /\ adv <=> (pop_ready /\ pop_valid)
                    \/ (push /\ ~pop_ready /\ Count = DEPTH)
    BY PushMakesRoom
  <2>6. /\ mem' = IF push THEN WriteMem(mem, Idx(wr_ptr), push_data) ELSE mem
        /\ wr_ptr' = IF push THEN NextPtr(wr_ptr) ELSE wr_ptr
        /\ rd_ptr' = IF adv THEN NextPtr(rd_ptr) ELSE rd_ptr
        /\ pushed' = IF push THEN push_data ELSE NoData
        /\ popped' = IF pop_valid /\ pop_ready THEN pop_data ELSE NoData
    BY <1>1 DEF Edge
  <2>7. Stored' = IF push THEN Append(rest, push_data) ELSE rest
    <3> HIDE DEF push, adv
    <3>1. /\ Distance(wr_ptr, rd_ptr) <= DEPTH
          /\ push /\ Distance(wr_ptr, rd_ptr) = DEPTH => adv
      BY <2>2, <2>5, FifoAssumption DEF Count
    <3>2. rest = IF adv THEN Tail(Words(mem, wr_ptr, rd_ptr)) ELSE Words(mem, wr_ptr, rd_ptr)
      BY DEF Stored
    <3>3. Words(mem', wr_ptr', rd_ptr') = IF push THEN Append(rest, push_data) ELSE rest
      BY <2>1, <2>5, <2>6, <3>1, <3>2, WordsStep
    <3> QED
      BY <3>3 DEF Stored
  <2>8. pop_valid => pop_data = Head(Stored)
    BY <2>1, WordsTail DEF pop_valid, empty, pop_data, Stored
  <2>9. rest = IF (pop_ready /\ pop_valid)
                    \/ (push /\ ~(pop_ready /\ pop_valid) /\ Len(Stored) = DEPTH)
               THEN Tail(Stored) ELSE Stored
    <3>1. Len(Stored) = DEPTH => pop_valid
      BY <2>2, <2>3, FifoAssumption, EmptySeq DEF pop_valid
    <3> QED
      BY <3>1, <2>2, <2>5
  <2> HIDE DEF adv, rest
  <2> QED
    BY <2>4, <2>6, <2>7, <2>8, <2>9 DEF Queue!Edge
<1>2. ASSUME Reset PROVE Queue!Reset
  <2>1. Distance(0, 0) = 0
    BY DEF Distance
  <2> QED
    BY <1>2, <2>1 DEF Reset, Queue!Reset, Stored, Words
<1>3. ASSUME UNCHANGED vars PROVE UNCHANGED Queue!vars
  BY <1>3 DEF vars, Queue!vars, Stored
<1> QED
  BY <1>1, <1>2, <1>3 DEF Next, Queue!Next

(* The emitted latency-0 FIFO implements the bounded queue: words leave in *)
(* order, exactly once, and only OVERFLOW drops any (the oldest).          *)
THEOREM SyncFifoImplementsQueue ==
    ASSUME DepthFitsBody PROVE Spec => ImplementsQueue
<1>1. Init => Queue!Init
  BY InitialState, FifoAssumption DEF Init, Queue!Init
<1>2. Init => IInv
  BY InitialState
<1>3. IInv /\ [Next]_vars => IInv'
  BY InductiveStep
<1>4. IInv /\ [Next]_vars => [Queue!Next]_(Queue!vars)
  BY QueueStep
<1> QED
  BY <1>1, <1>2, <1>3, <1>4, PTL DEF Spec, ImplementsQueue, Queue!Spec
-----------------------------------------------------------------------------
(* The latency-1 circuit, both settings of OVERFLOW.                       *)

(* Its pointers move on the same ring.                                     *)
LEMMA FwftRing ==
    ASSUME NEW o \in BOOLEAN
    PROVE  /\ Fwft(o)!Ptr = Ptr /\ Fwft(o)!Address = Address
           /\ \A p : Fwft(o)!NextPtr(p) = NextPtr(p) /\ Fwft(o)!Idx(p) = Idx(p)
           /\ \A w, r : /\ Fwft(o)!IsFull(w, r) <=> IsFull(w, r)
                        /\ Fwft(o)!Distance(w, r) = Distance(w, r)
           /\ \A m, i : Fwft(o)!ReadMem(m, i) = ReadMem(m, i)
           /\ \A m, i, d : Fwft(o)!WriteMem(m, i, d) = WriteMem(m, i, d)
           /\ \A m, w, r : Fwft(o)!Words(m, w, r) = Words(m, w, r)
<1>1. Fwft(o)!Half = Half
  BY DEF Fwft!Half, Half, Fwft!use_general_depth, use_general_depth, Fwft!CeilPow2,
         CeilPow2, Fwft!IsCeilPow2, IsCeilPow2, Fwft!IsPowerOfTwo, IsPowerOfTwo
<1>2. Fwft(o)!Ptr = Ptr /\ Fwft(o)!Address = Address
  BY <1>1 DEF Fwft!Ptr, Ptr, Fwft!Address, Address
<1>3. /\ \A p : Fwft(o)!NextPtr(p) = NextPtr(p) /\ Fwft(o)!Idx(p) = Idx(p)
      /\ \A w, r : Fwft(o)!Distance(w, r) = Distance(w, r)
      /\ \A p, i : Fwft(o)!PtrFrom(p, i) = PtrFrom(p, i)
  BY <1>1 DEF Fwft!NextPtr, NextPtr, Fwft!Idx, Idx, Fwft!Distance, Distance,
              Fwft!PtrFrom, PtrFrom
<1>4. \A w, r : Fwft(o)!IsFull(w, r) <=> IsFull(w, r)
  BY <1>3 DEF Fwft!IsFull, IsFull
<1>5. /\ \A m, i : Fwft(o)!ReadMem(m, i) = ReadMem(m, i)
      /\ \A m, i, d : Fwft(o)!WriteMem(m, i, d) = WriteMem(m, i, d)
  BY <1>2 DEF Fwft!ReadMem, ReadMem, Fwft!WriteMem, WriteMem
<1>6. ASSUME NEW m, NEW w, NEW r PROVE Fwft(o)!Words(m, w, r) = Words(m, w, r)
  BY <1>3, <1>5 DEF Fwft!Words, Words
<1> QED
  BY <1>2, <1>3, <1>4, <1>5, <1>6

(* The word on pop_data, and the inductive invariant: it is the word at    *)
(* the head whenever one is stored.                                        *)
FwftWord == IF f_bypass_valid THEN f_bypass_data_r ELSE f_mem_data_r

FwftInv ==
    /\ f_mem \in [Address -> Data \cup {NoData}]
    /\ f_wr_ptr \in Ptr /\ f_rd_ptr \in Ptr /\ f_bypass_valid \in BOOLEAN
    /\ Distance(f_wr_ptr, f_rd_ptr) <= DEPTH
    /\ \A i \in 1..Distance(f_wr_ptr, f_rd_ptr) :
          Words(f_mem, f_wr_ptr, f_rd_ptr)[i] \in Data
    /\ f_wr_ptr # f_rd_ptr => FwftWord = ReadMem(f_mem, Idx(f_rd_ptr))

(* A clock edge in terms of the ring: the bypass takes a word that becomes *)
(* the head at once, the RAM output register the one behind the head.      *)
LEMMA FwftEdgeIs ==
    ASSUME NEW o \in BOOLEAN, FwftInv,
           NEW push_valid \in BOOLEAN, NEW pop_ready \in BOOLEAN, NEW d \in Data,
           Fwft(o)!Edge(push_valid, d, pop_ready)
    PROVE  LET atDepth == IsFull(f_wr_ptr, f_rd_ptr)
               one  == f_wr_ptr = NextPtr(f_rd_ptr)
               push == push_valid /\ (o \/ ~atDepth)
               pop  == f_wr_ptr # f_rd_ptr /\ pop_ready
               drop == o /\ atDepth /\ push /\ ~pop
               load == \/ f_wr_ptr = f_rd_ptr /\ push
                       \/ one /\ pop /\ push
                       \/ drop /\ DEPTH = 1
           IN  /\ f_mem' = IF push THEN WriteMem(f_mem, Idx(f_wr_ptr), d) ELSE f_mem
               /\ f_wr_ptr' = IF push THEN NextPtr(f_wr_ptr) ELSE f_wr_ptr
               /\ f_rd_ptr' = IF pop \/ drop THEN NextPtr(f_rd_ptr) ELSE f_rd_ptr
               /\ f_bypass_valid' \in BOOLEAN
               /\ load => FwftWord' = d
               /\ ~load /\ ((pop /\ ~one) \/ (drop /\ DEPTH # 1)) =>
                     FwftWord' = ReadMem(f_mem, Idx(NextPtr(f_rd_ptr)))
               /\ ~load /\ ~pop /\ ~drop => FwftWord' = FwftWord
               /\ f_pushed' = IF push THEN d ELSE NoData
               /\ f_popped' = IF pop THEN FwftWord ELSE NoData
<1> DEFINE atDepth == IsFull(f_wr_ptr, f_rd_ptr)
           one  == f_wr_ptr = NextPtr(f_rd_ptr)
           push == push_valid /\ (o \/ ~atDepth)
           pop  == f_wr_ptr # f_rd_ptr /\ pop_ready
           drop == o /\ atDepth /\ push /\ ~pop
           load == \/ f_wr_ptr = f_rd_ptr /\ push
                   \/ one /\ pop /\ push
                   \/ drop /\ DEPTH = 1
           fetch == (pop /\ ~one) \/ (drop /\ DEPTH # 1)
<1>1. /\ push_valid /\ Fwft(o)!push_ready <=> push
      /\ Fwft(o)!pop_valid /\ pop_ready <=> pop
      /\ Fwft(o)!one_entry <=> one
      /\ Fwft(o)!rd_ptr_next = NextPtr(f_rd_ptr)
      /\ Fwft(o)!empty <=> f_wr_ptr = f_rd_ptr
      /\ Fwft(o)!full <=> atDepth
      /\ Fwft(o)!pop_data = FwftWord
  BY FwftRing DEF Fwft!push_ready, Fwft!full, Fwft!pop_valid, Fwft!empty, Fwft!one_entry,
                  Fwft!rd_ptr_next, Fwft!pop_data, FwftWord
<1>2. /\ Fwft(o)!drop_oldest(push, pop) <=> drop
      /\ Fwft(o)!load_bypass(push, pop) <=> load
      /\ Fwft(o)!rd_mem_en(push, pop) <=> fetch
  BY <1>1 DEF Fwft!drop_oldest, Fwft!load_bypass, Fwft!rd_mem_en
<1>3. /\ Fwft(o)!MemoryProcesses(push, d, pop)
      /\ f_bypass_valid' = Fwft(o)!BypassValidNext(push, pop)
      /\ f_wr_ptr' = IF push THEN NextPtr(f_wr_ptr) ELSE f_wr_ptr
      /\ f_rd_ptr' = IF pop \/ drop THEN NextPtr(f_rd_ptr) ELSE f_rd_ptr
      /\ f_pushed' = IF push THEN d ELSE NoData
      /\ f_popped' = IF pop THEN FwftWord ELSE NoData
  BY <1>1, <1>2, FwftRing DEF Fwft!Edge
<1>4. /\ f_mem' = IF push THEN WriteMem(f_mem, Idx(f_wr_ptr), d) ELSE f_mem
      /\ f_mem_data_r' = IF fetch THEN ReadMem(f_mem, Idx(NextPtr(f_rd_ptr))) ELSE f_mem_data_r
      /\ f_bypass_data_r' = IF load THEN d ELSE f_bypass_data_r
  BY <1>1, <1>2, <1>3, FwftRing DEF Fwft!MemoryProcesses
<1>5. f_bypass_valid' = (load \/ (f_bypass_valid /\ ~(pop \/ drop)))
  BY <1>2, <1>3 DEF Fwft!BypassValidNext
<1>6. f_bypass_valid \in BOOLEAN
  BY DEF FwftInv
<1>7. fetch => pop \/ drop
  OBVIOUS
<1> HIDE DEF load, fetch, push, pop, drop, one, atDepth
<1>8. load => FwftWord' = d
  BY <1>4, <1>5 DEF FwftWord
<1>9. ~load /\ fetch => FwftWord' = ReadMem(f_mem, Idx(NextPtr(f_rd_ptr)))
  BY <1>4, <1>5, <1>7 DEF FwftWord
<1>10. ~load /\ ~pop /\ ~drop => FwftWord' = FwftWord
  BY <1>4, <1>5, <1>6, <1>7 DEF FwftWord
<1>11. f_bypass_valid' \in BOOLEAN
  BY <1>5
<1> QED
  BY <1>3, <1>4, <1>8, <1>9, <1>10, <1>11 DEF load, fetch, push, pop, drop, one, atDepth

(* A clock edge keeps the invariant and is an edge of the bounded queue.   *)
LEMMA FwftEdgeStep ==
    ASSUME DepthFitsBody, FwftInv, NEW o \in BOOLEAN,
           NEW push_valid \in BOOLEAN, NEW pop_ready \in BOOLEAN, NEW d \in Data,
           Fwft(o)!Edge(push_valid, d, pop_ready)
    PROVE  FwftInv' /\ Fwft(o)!Queue!Edge(push_valid, d, pop_ready)
<1> DEFINE wr   == f_wr_ptr
           rd   == f_rd_ptr
           n    == Distance(wr, rd)
           s    == Words(f_mem, wr, rd)
           push == push_valid /\ (o \/ ~IsFull(wr, rd))
           pop  == wr # rd /\ pop_ready
           drop == o /\ IsFull(wr, rd) /\ push /\ ~pop
           load == \/ wr = rd /\ push
                   \/ wr = NextPtr(rd) /\ pop /\ push
                   \/ drop /\ DEPTH = 1
           adv  == pop \/ drop
           r    == IF adv THEN NextPtr(rd) ELSE rd
           rest == IF adv THEN Tail(s) ELSE s
<1>1. /\ f_mem \in [Address -> Data \cup {NoData}] /\ wr \in Ptr /\ rd \in Ptr
      /\ n <= DEPTH /\ \A i \in 1..n : s[i] \in Data
      /\ wr # rd => FwftWord = ReadMem(f_mem, Idx(rd))
  BY DEF FwftInv
<1>2. /\ f_mem' = IF push THEN WriteMem(f_mem, Idx(wr), d) ELSE f_mem
      /\ f_wr_ptr' = IF push THEN NextPtr(wr) ELSE wr
      /\ f_rd_ptr' = r
      /\ f_bypass_valid' \in BOOLEAN
      /\ load => FwftWord' = d
      /\ ~load /\ ((pop /\ wr # NextPtr(rd)) \/ (drop /\ DEPTH # 1)) =>
            FwftWord' = ReadMem(f_mem, Idx(NextPtr(rd)))
      /\ ~load /\ ~pop /\ ~drop => FwftWord' = FwftWord
      /\ f_pushed' = IF push THEN d ELSE NoData
      /\ f_popped' = IF pop THEN FwftWord ELSE NoData
  BY FwftEdgeIs
<1>3. /\ DEPTH \in Nat /\ DEPTH > 0 /\ n \in Nat
      /\ n = 0 <=> wr = rd
      /\ IsFull(wr, rd) <=> n = DEPTH
      /\ wr = NextPtr(rd) <=> n = 1
      /\ n > 0 => Distance(wr, NextPtr(rd)) = n - 1
  BY <1>1, DistanceFacts, FifoAssumption
<1>4. /\ push \in BOOLEAN /\ adv \in BOOLEAN
      /\ adv => wr # rd
      /\ push /\ n = DEPTH => adv
  BY <1>3
<1>5. /\ f_wr_ptr' \in Ptr /\ f_rd_ptr' \in Ptr
      /\ f_mem' \in [Address -> Data \cup {NoData}]
      /\ Distance(f_wr_ptr', f_rd_ptr') <= DEPTH
      /\ \A i \in 1..Distance(f_wr_ptr', f_rd_ptr') :
            Words(f_mem', f_wr_ptr', f_rd_ptr')[i] \in Data
      /\ Words(f_mem', f_wr_ptr', f_rd_ptr') = IF push THEN Append(rest, d) ELSE rest
  <2> HIDE DEF push, adv
  <2> QED
    BY <1>1, <1>2, <1>4, WordsStep
<1>6. f_wr_ptr' # f_rd_ptr' => FwftWord' = ReadMem(f_mem', Idx(f_rd_ptr'))
  <2>1. push /\ wr = r => load
    BY <1>3
  <2>2. adv /\ wr # NextPtr(rd) =>
           ~load /\ ((pop /\ wr # NextPtr(rd)) \/ (drop /\ DEPTH # 1))
    BY <1>3
  <2>3. ~adv /\ wr # rd => ~load /\ ~pop /\ ~drop
    OBVIOUS
  <2>4. /\ push /\ wr = r => FwftWord' = d
        /\ adv /\ wr # NextPtr(rd) => FwftWord' = ReadMem(f_mem, Idx(NextPtr(rd)))
        /\ ~adv /\ wr # rd => FwftWord' = FwftWord
    <3> HIDE DEF push, pop, drop, load, adv, r
    <3> QED
      BY <1>2, <2>1, <2>2, <2>3
  <2> HIDE DEF push, adv
  <2> QED
    BY <1>1, <1>2, <1>4, <2>4, HeadRegisterStep
<1>7. FwftInv'
  BY <1>2, <1>5, <1>6 DEF FwftInv
<1>8. /\ s \in Seq(Data) /\ Len(s) = n
      /\ wr # rd => s # <<>> /\ Head(s) = ReadMem(f_mem, Idx(rd))
  BY <1>1, WordsFacts, WordsTail
<1>9. wr = rd <=> s = <<>>
  BY <1>3, <1>8, EmptySeq
<1>10. /\ Fwft(o)!Stored = s
       /\ Fwft(o)!Stored' = Words(f_mem', f_wr_ptr', f_rd_ptr')
  BY FwftRing DEF Fwft!Stored
<1>11. /\ push_valid /\ Fwft(o)!Queue!push_ready <=> push
       /\ pop_ready /\ Fwft(o)!Queue!pop_valid <=> pop
  <2>1. ~IsFull(wr, rd) <=> Len(s) < DEPTH
    BY <1>1, <1>3, <1>8
  <2> QED
    BY <1>9, <1>10, <2>1 DEF Fwft!Queue!push_ready, Fwft!Queue!pop_valid
<1>12. drop <=> push /\ ~pop /\ Len(s) = DEPTH
  BY <1>3, <1>8
<1>13. f_popped' = IF pop THEN Head(s) ELSE NoData
  BY <1>1, <1>2, <1>8
<1> HIDE DEF push, pop, drop, s
<1>14. /\ Fwft(o)!Stored' = IF push THEN Append(rest, d) ELSE rest
       /\ rest = IF pop \/ (push /\ ~pop /\ Len(s) = DEPTH) THEN Tail(s) ELSE s
  BY <1>5, <1>10, <1>12
<1> HIDE DEF adv, rest
<1>15. Fwft(o)!Queue!Edge(push_valid, d, pop_ready)
  BY <1>2, <1>10, <1>11, <1>13, <1>14 DEF Fwft!Queue!Edge
<1> QED
  BY <1>7, <1>15

(* A reset, at a clock edge or between two, keeps it and empties the queue.*)
LEMMA FwftResetStep ==
    ASSUME DepthFitsBody, FwftInv, NEW o \in BOOLEAN,
           \/ \E push_valid, pop_ready \in BOOLEAN, push_data \in Data :
                 Fwft(o)!ResetEdge(push_valid, push_data, pop_ready)
           \/ Fwft(o)!AsyncReset
    PROVE  FwftInv' /\ Fwft(o)!Queue!Reset
<1>1. /\ f_wr_ptr' = 0 /\ f_rd_ptr' = 0 /\ f_bypass_valid' = FALSE
      /\ f_pushed' = NoData /\ f_popped' = NoData
  BY DEF Fwft!ResetEdge, Fwft!AsyncReset, Fwft!ResetRegisters
<1>2. f_mem' \in [Address -> Data \cup {NoData}]
  <2>1. f_mem \in [Address -> Data \cup {NoData}]
    BY DEF FwftInv
  <2>2. CASE Fwft(o)!AsyncReset
    BY <2>1, <2>2 DEF Fwft!AsyncReset
  <2>3. ASSUME NEW push_valid \in BOOLEAN, NEW pop_ready \in BOOLEAN, NEW d \in Data,
               Fwft(o)!ResetEdge(push_valid, d, pop_ready)
        PROVE  f_mem' \in [Address -> Data \cup {NoData}]
    <3>1. f_mem' = f_mem \/ f_mem' = WriteMem(f_mem, Idx(f_wr_ptr), d)
      BY <2>3, FwftRing DEF Fwft!ResetEdge, Fwft!MemoryProcesses
    <3> QED
      BY <2>1, <3>1 DEF WriteMem
  <2> QED
    BY <2>2, <2>3
<1>3. 0 \in Ptr /\ Distance(0, 0) = 0 /\ DEPTH \in Nat
  BY HalfIsDepth, FifoAssumption DEF Ptr, Distance
<1>4. Fwft(o)!Stored' = Words(f_mem', 0, 0) /\ Words(f_mem', 0, 0) = <<>>
  BY <1>1, <1>3, FwftRing DEF Fwft!Stored, Words
<1>5. FwftInv'
  <2>1. /\ f_wr_ptr' \in Ptr /\ f_rd_ptr' \in Ptr /\ f_wr_ptr' = f_rd_ptr'
        /\ Distance(f_wr_ptr', f_rd_ptr') = 0 /\ 0 <= DEPTH
    BY <1>1, <1>3
  <2>2. \A i \in 1..Distance(f_wr_ptr', f_rd_ptr') :
           Words(f_mem', f_wr_ptr', f_rd_ptr')[i] \in Data
    BY <2>1
  <2>3. f_bypass_valid' \in BOOLEAN
    BY <1>1
  <2> QED
    BY <1>2, <2>1, <2>2, <2>3 DEF FwftInv
<1>6. Fwft(o)!Queue!Reset
  BY <1>1, <1>4 DEF Fwft!Queue!Reset
<1> QED
  BY <1>5, <1>6

(* Every step of the latency-1 circuit.                                    *)
LEMMA FwftStep ==
    ASSUME DepthFitsBody, FwftInv, NEW o \in BOOLEAN, Fwft(o)!Next
    PROVE  FwftInv' /\ Fwft(o)!Queue!Next
<1>1. ASSUME NEW push_valid \in BOOLEAN, NEW pop_ready \in BOOLEAN, NEW d \in Data,
             Fwft(o)!Edge(push_valid, d, pop_ready)
      PROVE  FwftInv' /\ Fwft(o)!Queue!Next
  BY <1>1, FwftEdgeStep DEF Fwft!Queue!Next
<1>2. ASSUME \/ \E push_valid, pop_ready \in BOOLEAN, push_data \in Data :
                   Fwft(o)!ResetEdge(push_valid, push_data, pop_ready)
             \/ Fwft(o)!AsyncReset
      PROVE  FwftInv' /\ Fwft(o)!Queue!Next
  BY <1>2, FwftResetStep DEF Fwft!Queue!Next
<1> QED
  BY <1>1, <1>2 DEF Fwft!Next

-----------------------------------------------------------------------------
(* The stack.                                                              *)

LifoInv ==
    /\ l_mem \in [0..(DEPTH - 1) -> Data \cup {NoData}]
    /\ l_sp \in 0..DEPTH

(* The words below the stack pointer, and what its last word and the words *)
(* below that are.                                                         *)
LEMMA StackWords ==
    ASSUME NEW m \in [0..(DEPTH - 1) -> Data \cup {NoData}], NEW n \in 0..DEPTH
    PROVE  LET s == [i \in 1..n |-> m[i - 1]]
           IN  /\ s \in Seq(Data \cup {NoData}) /\ Len(s) = n
               /\ n = 0 <=> s = <<>>
               /\ n > 0 => /\ s[Len(s)] = m[n - 1]
                           /\ SubSeq(s, 1, Len(s) - 1) = [i \in 1..(n - 1) |-> m[i - 1]]
<1> DEFINE s == [i \in 1..n |-> m[i - 1]]
           T == Data \cup {NoData}
<1>1. DEPTH \in Nat /\ n \in Nat
  BY FifoAssumption
<1>2. s \in [1..n -> T]
  BY <1>1
<1>3. s \in Seq(T) /\ Len(s) = n
  <2>1. s \in Seq(T)
    BY <1>1, <1>2, SeqDef
  <2>2. DOMAIN s = 1..n
    OBVIOUS
  <2> QED
    BY <1>1, <2>1, <2>2, LenProperties
<1>4. n = 0 <=> s = <<>>
  BY <1>3, EmptySeq
<1>5. ASSUME n > 0
      PROVE  /\ s[Len(s)] = m[n - 1]
             /\ SubSeq(s, 1, Len(s) - 1) = [i \in 1..(n - 1) |-> m[i - 1]]
  <2>1. s[n] = m[n - 1]
    BY <1>1, <1>5
  <2>2. SubSeq(s, 1, n - 1) = [i \in 1..(n - 1) |-> s[i]]
    <3>1. SubSeq(s, 1, n - 1) = [i \in 1..((n - 1) - 1 + 1) |-> s[i + 1 - 1]]
      BY <1>1, <1>3, <1>5
    <3>2. (n - 1) - 1 + 1 = n - 1 /\ \A i \in 1..(n - 1) : s[i + 1 - 1] = s[i]
      BY <1>1, <1>5
    <3> HIDE DEF s
    <3> QED
      BY <3>1, <3>2
  <2>3. \A i \in 1..(n - 1) : s[i] = m[i - 1]
    BY <1>1, <1>5
  <2> HIDE DEF s
  <2> QED
    BY <1>3, <2>1, <2>2, <2>3
<1> QED
  BY <1>3, <1>4, <1>5

(* A push writes the slot behind the words it keeps.                       *)
LEMMA StackPush ==
    ASSUME NEW m \in [0..(DEPTH - 1) -> Data \cup {NoData}], NEW k \in 0..(DEPTH - 1),
           NEW d \in Data
    PROVE  [i \in 1..(k + 1) |-> [m EXCEPT ![k] = d][i - 1]]
              = Append([i \in 1..k |-> m[i - 1]], d)
<1> DEFINE T == Data \cup {NoData}
           m2 == [m EXCEPT ![k] = d]
           s == [i \in 1..k |-> m[i - 1]]
           t == [i \in 1..(k + 1) |-> m2[i - 1]]
<1>1. DEPTH \in Nat /\ k \in Nat /\ k \in 0..DEPTH /\ k + 1 \in 0..DEPTH
  BY FifoAssumption
<1>2. m2 \in [0..(DEPTH - 1) -> T]
  OBVIOUS
<1>3. s \in Seq(T) /\ Len(s) = k
  BY <1>1, StackWords
<1>4. t \in Seq(T) /\ Len(t) = k + 1
  <2> HIDE DEF m2
  <2> QED
    BY <1>1, <1>2, StackWords
<1>5. Append(s, d) \in Seq(T) /\ Len(Append(s, d)) = k + 1
      /\ (\A i \in 1..k : Append(s, d)[i] = s[i]) /\ Append(s, d)[k + 1] = d
  <2> HIDE DEF s
  <2> QED
    BY <1>3, AppendProperties
<1>6. \A i \in 1..(k + 1) : t[i] = Append(s, d)[i]
  <2> SUFFICES ASSUME NEW i \in 1..(k + 1) PROVE t[i] = Append(s, d)[i]
    OBVIOUS
  <2>1. CASE i = k + 1
    <3>1. i - 1 = k /\ t[i] = m2[i - 1]
      BY <1>1, <2>1
    <3> QED
      BY <1>5, <2>1, <3>1
  <2>2. CASE i # k + 1
    <3>1. i \in 1..k /\ i - 1 # k /\ i - 1 \in 0..(DEPTH - 1)
      BY <1>1, <2>2
    <3>2. t[i] = m[i - 1] /\ s[i] = m[i - 1]
      BY <3>1
    <3> HIDE DEF s, t
    <3> QED
      BY <1>5, <3>1, <3>2
  <2> QED
    BY <2>1, <2>2
<1>7. t = Append(s, d)
  <2> HIDE DEF s, t
  <2> QED
    BY <1>4, <1>5, <1>6, SeqEqual
<1> QED
  BY <1>7

(* Every step of the stack circuit is a step of the bounded stack.         *)
LEMMA LifoStep ==
    ASSUME LifoInv, Stack!Next
    PROVE  LifoInv' /\ Stack!Stack!Next
<1>1. DEPTH \in Nat /\ DEPTH > 0 /\ l_mem \in [0..(DEPTH - 1) -> Data \cup {NoData}]
      /\ l_sp \in 0..DEPTH
  BY FifoAssumption DEF LifoInv
<1>2. ASSUME NEW push_valid \in BOOLEAN, NEW pop_ready \in BOOLEAN, NEW d \in Data,
             Stack!Edge(push_valid, d, pop_ready)
      PROVE  LifoInv' /\ Stack!Stack!Edge(push_valid, d, pop_ready)
  <2> DEFINE push == push_valid /\ l_sp # DEPTH
             pop  == pop_ready /\ l_sp # 0
             k    == IF pop THEN l_sp - 1 ELSE l_sp
             s    == [i \in 1..l_sp |-> l_mem[i - 1]]
             rest == [i \in 1..k |-> l_mem[i - 1]]
  <2>1. /\ l_mem' = IF push THEN [l_mem EXCEPT ![k] = d] ELSE l_mem
        /\ l_sp' = IF push THEN k + 1 ELSE k
        /\ l_pushed' = IF push THEN d ELSE NoData
        /\ l_popped' = IF pop THEN l_mem[l_sp - 1] ELSE NoData
    <3>1. /\ push_valid /\ Stack!push_ready <=> push
          /\ Stack!pop_valid /\ pop_ready <=> pop
      BY DEF Stack!push_ready, Stack!full, Stack!pop_valid, Stack!empty
    <3>2. pop => Stack!pop_data = l_mem[l_sp - 1]
      BY DEF Stack!pop_data, Stack!empty
    <3>3. /\ l_mem' = IF push THEN [l_mem EXCEPT ![Stack!PushSlot(pop)] = d] ELSE l_mem
          /\ l_sp' = Stack!NextSp(push, pop)
          /\ l_pushed' = IF push THEN d ELSE NoData
          /\ l_popped' = IF pop THEN l_mem[l_sp - 1] ELSE NoData
      BY <1>2, <3>1, <3>2 DEF Stack!Edge
    <3>4. Stack!PushSlot(pop) = k
      BY DEF Stack!PushSlot
    <3>5. Stack!NextSp(push, pop) = IF push THEN k + 1 ELSE k
      BY <1>1 DEF Stack!NextSp
    <3> HIDE DEF push, pop, k
    <3> QED
      BY <3>3, <3>4, <3>5
  <2>2. k \in 0..DEPTH /\ (push => k \in 0..(DEPTH - 1))
    BY <1>1
  <2>3. LifoInv'
    <3> HIDE DEF push, k
    <3> QED
      BY <1>1, <2>1, <2>2 DEF LifoInv
  <2>4. /\ Len(s) = l_sp /\ (l_sp = 0 <=> s = <<>>)
        /\ l_sp > 0 => /\ s[Len(s)] = l_mem[l_sp - 1]
                       /\ SubSeq(s, 1, Len(s) - 1) = [i \in 1..(l_sp - 1) |-> l_mem[i - 1]]
    BY <1>1, StackWords
  <2>5. /\ push_valid /\ Stack!Stack!push_ready <=> push
        /\ pop_ready /\ Stack!Stack!pop_valid <=> pop
    <3>1. /\ Stack!Stack!push_ready <=> Len(s) < DEPTH
          /\ Stack!Stack!pop_valid <=> s # <<>>
      BY DEF Stack!Stack!push_ready, Stack!Stack!pop_valid
    <3>2. l_sp # DEPTH <=> l_sp < DEPTH
      BY <1>1
    <3> HIDE DEF s
    <3> QED
      BY <2>4, <3>1, <3>2
  <2>6. pop => l_mem[l_sp - 1] = Stack!Stack!Last(s) /\ rest = Stack!Stack!Front(s)
    <3>1. Stack!Stack!Last(s) = s[Len(s)] /\ Stack!Stack!Front(s) = SubSeq(s, 1, Len(s) - 1)
      <4> HIDE DEF s
      <4> QED
        BY DEF Stack!Stack!Last, Stack!Stack!Front
    <3>2. pop => l_sp > 0 /\ rest = [i \in 1..(l_sp - 1) |-> l_mem[i - 1]]
      BY <1>1
    <3> HIDE DEF s, rest, pop
    <3> QED
      BY <2>4, <3>1, <3>2
  <2>7. ~pop => rest = s
    OBVIOUS
  <2>8. [i \in 1..l_sp' |-> l_mem'[i - 1]] = IF push THEN Append(rest, d) ELSE rest
    <3>1. CASE push
      <4>1. l_mem' = [l_mem EXCEPT ![k] = d] /\ l_sp' = k + 1 /\ k \in 0..(DEPTH - 1)
        BY <2>1, <2>2, <3>1
      <4> HIDE DEF k, push
      <4> QED
        BY <1>1, <3>1, <4>1, StackPush
    <3>2. CASE ~push
      BY <2>1, <3>2
    <3> QED
      BY <3>1, <3>2
  <2> HIDE DEF push, pop, k, rest
  <2>9. Stack!Stack!Edge(push_valid, d, pop_ready)
    BY <2>1, <2>5, <2>6, <2>7, <2>8 DEF Stack!Stack!Edge
  <2> QED
    BY <2>3, <2>9
<1>3. ASSUME Stack!Reset PROVE LifoInv' /\ Stack!Stack!Reset
  <2>1. l_sp' = 0 /\ l_mem' = l_mem /\ l_pushed' = NoData /\ l_popped' = NoData
    BY <1>3 DEF Stack!Reset
  <2>2. [i \in 1..l_sp' |-> l_mem'[i - 1]] = <<>>
    BY <2>1
  <2> QED
    BY <1>1, <2>1, <2>2 DEF LifoInv, Stack!Stack!Reset
<1> QED
  BY <1>2, <1>3 DEF Stack!Next, Stack!Stack!Next

-----------------------------------------------------------------------------
(* The declaration's body, chosen once, moves; the others wait.            *)
BodiesInv == FwftInv /\ LifoInv

(* The circuits power up in the invariant.                                 *)
LEMMA BodiesInitial ==
    ASSUME DepthFitsBody, emit_fifo PROVE BodiesInv /\ Stack!Stack!Init
<1>1. /\ f_mem = [i \in Address |-> NoData] /\ f_wr_ptr = 0 /\ f_rd_ptr = 0
      /\ f_bypass_valid = FALSE
  BY FwftRing DEF emit_fifo, Fwft!Init
<1>2. 0 \in Ptr /\ Distance(0, 0) = 0 /\ DEPTH \in Nat
  BY HalfIsDepth, FifoAssumption DEF Ptr, Distance
<1>3. FwftInv
  <2>1. /\ f_wr_ptr \in Ptr /\ f_rd_ptr \in Ptr /\ f_wr_ptr = f_rd_ptr
        /\ Distance(f_wr_ptr, f_rd_ptr) = 0 /\ 0 <= DEPTH
    BY <1>1, <1>2
  <2>2. \A i \in 1..Distance(f_wr_ptr, f_rd_ptr) :
           Words(f_mem, f_wr_ptr, f_rd_ptr)[i] \in Data
    BY <2>1
  <2>3. f_mem \in [Address -> Data \cup {NoData}]
    BY <1>1
  <2>4. f_bypass_valid \in BOOLEAN
    BY <1>1
  <2> QED
    BY <2>1, <2>2, <2>3, <2>4 DEF FwftInv
<1>4. l_mem = [i \in 0..(DEPTH - 1) |-> NoData] /\ l_sp = 0
      /\ l_pushed = NoData /\ l_popped = NoData
  BY DEF emit_fifo, Stack!Init, Stack!Address
<1>5. LifoInv
  BY <1>2, <1>4 DEF LifoInv
<1>6. [i \in 1..l_sp |-> l_mem[i - 1]] = <<>>
  BY <1>4
<1> QED
  BY <1>3, <1>4, <1>5, <1>6 DEF BodiesInv, Stack!Stack!Init

(* Every step of the chosen body keeps the invariant and is a step of what *)
(* that body implements.                                                   *)
LEMMA BodiesStep ==
    ASSUME DepthFitsBody, BodiesInv, [BodiesNext]_body_vars
    PROVE  /\ BodiesInv'
           /\ body = "latency 1" => [Fwft(FALSE)!Queue!Next]_fwft_vars
           /\ body = "latency 1, overflow" => [Fwft(TRUE)!Queue!Next]_fwft_vars
           /\ [Stack!Stack!Next]_(Stack!Stack!vars)
<1>1. ASSUME UNCHANGED fwft_vars PROVE FwftInv'
  <2>1. /\ f_mem' = f_mem /\ f_wr_ptr' = f_wr_ptr /\ f_rd_ptr' = f_rd_ptr
        /\ f_mem_data_r' = f_mem_data_r /\ f_bypass_data_r' = f_bypass_data_r
        /\ f_bypass_valid' = f_bypass_valid
    BY <1>1 DEF fwft_vars
  <2>2. FwftWord' = FwftWord
    BY <2>1 DEF FwftWord
  <2> QED
    BY <2>1, <2>2 DEF BodiesInv, FwftInv
<1>2. ASSUME UNCHANGED lifo_vars PROVE LifoInv' /\ UNCHANGED Stack!Stack!vars
  BY <1>2 DEF lifo_vars, BodiesInv, LifoInv, Stack!Stack!vars
<1>3. CASE UNCHANGED body_vars
  BY <1>1, <1>2, <1>3 DEF body_vars, BodiesInv
<1>4. CASE Latency0
  BY <1>1, <1>2, <1>4 DEF Latency0, BodiesInv
<1>5. CASE Latency1
  BY <1>2, <1>5, FwftStep DEF Latency1, BodiesInv
<1>6. CASE Latency1Overflow
  BY <1>2, <1>6, FwftStep DEF Latency1Overflow, BodiesInv
<1>7. CASE KindLifo
  BY <1>1, <1>7, LifoStep DEF KindLifo, BodiesInv
<1> QED
  BY <1>3, <1>4, <1>5, <1>6, <1>7 DEF BodiesNext

(* The registered FIFO, pushes blocking or dropping the oldest word, is    *)
(* the bounded queue with no cycle lost, and the stack circuit the bounded *)
(* stack, for every depth the body supports.                               *)
THEOREM BodiesImplementSpecs ==
    ASSUME DepthFitsBody PROVE BodiesSpec => BodiesImplement
<1>1. emit_fifo => BodiesInv /\ Stack!Stack!Init
  BY BodiesInitial
<1>2. BodiesInv /\ [BodiesNext]_body_vars =>
         /\ BodiesInv'
         /\ [/\ body = "latency 1" => [Fwft(FALSE)!Queue!Next]_fwft_vars
             /\ body = "latency 1, overflow" => [Fwft(TRUE)!Queue!Next]_fwft_vars]_body_vars
         /\ [Stack!Stack!Next]_(Stack!Stack!vars)
  BY BodiesStep
<1> QED
  BY <1>1, <1>2, PTL DEF BodiesSpec, BodiesImplement, FwftImplementsQueue,
                         LifoImplementsStack, Stack!ImplementsStack, Stack!Stack!Spec

-----------------------------------------------------------------------------
(* The simulation classes.  Their pointers move on the same ring; the      *)
(* index of a pointer is its residue modulo DEPTH.                         *)
LEMMA ClassRing ==
    ASSUME DepthFitsBody
    PROVE  /\ DEPTH \in Nat /\ DEPTH > 0 /\ Address = 0..(DEPTH - 1)
           /\ 0 \in Ptr /\ Distance(0, 0) = 0
           /\ \A p \in Ptr : /\ Class!NextPtr(p) = NextPtr(p) /\ Dual!NextPtr(p) = NextPtr(p)
                             /\ p % DEPTH = Idx(p) /\ Idx(p) \in Address
                             /\ (p + 1) % DEPTH = Idx(NextPtr(p)) /\ NextPtr(p) \in Ptr
           /\ \A w, r \in Ptr : /\ Class!Distance(w, r) = Distance(w, r)
                                /\ Dual!Distance(w, r) = Distance(w, r)
                                /\ Distance(w, r) \in Nat
<1>1. DEPTH \in Nat /\ DEPTH > 0 /\ Half = DEPTH /\ Address = 0..(DEPTH - 1)
  BY HalfIsDepth, FifoAssumption DEF Address
<1>2. 0 \in Ptr /\ Distance(0, 0) = 0
  BY <1>1 DEF Ptr, Distance
<1>3. ASSUME NEW p \in Ptr
      PROVE  /\ Class!NextPtr(p) = NextPtr(p) /\ Dual!NextPtr(p) = NextPtr(p)
             /\ p % DEPTH = Idx(p) /\ Idx(p) \in Address
             /\ (p + 1) % DEPTH = Idx(NextPtr(p)) /\ NextPtr(p) \in Ptr
  <2>1. p \in 0..(2 * DEPTH - 1)
    BY <1>1 DEF Ptr
  <2>2. Class!NextPtr(p) = NextPtr(p) /\ Dual!NextPtr(p) = NextPtr(p)
    BY <1>1, <2>1 DEF Class!NextPtr, Dual!NextPtr, NextPtr
  <2>3. p % DEPTH = IF p >= DEPTH THEN p - DEPTH ELSE p
    BY <1>1, <2>1
  <2>4. (p + 1) % DEPTH = IF p + 1 >= 2 * DEPTH THEN (p + 1) - 2 * DEPTH
                          ELSE IF p + 1 >= DEPTH THEN (p + 1) - DEPTH ELSE p + 1
    BY <1>1, <2>1
  <2> QED
    BY <1>1, <2>1, <2>2, <2>3, <2>4, NextPtrType DEF Idx, NextPtr
<1>4. ASSUME NEW w \in Ptr, NEW r \in Ptr
      PROVE  /\ Class!Distance(w, r) = Distance(w, r)
             /\ Dual!Distance(w, r) = Distance(w, r)
             /\ Distance(w, r) \in Nat
  BY <1>1 DEF Class!Distance, Dual!Distance, Distance, Ptr
<1> QED
  BY <1>1, <1>2, <1>3, <1>4

(* The words the classes hold.                                             *)
LEMMA ClassWords ==
    ASSUME DepthFitsBody, NEW w \in Ptr, NEW r \in Ptr, Distance(w, r) <= DEPTH,
           NEW m \in [Address -> Data \cup {NoData}]
    PROVE  [i \in 1..Distance(w, r) |-> m[(r + i - 1) % DEPTH]] = Words(m, w, r)
<1>1. DEPTH \in Nat /\ DEPTH > 0 /\ Half = DEPTH /\ r \in 0..(2 * DEPTH - 1)
  BY HalfIsDepth, FifoAssumption DEF Ptr
<1>2. ASSUME NEW i \in 1..Distance(w, r)
      PROVE  m[(r + i - 1) % DEPTH] = ReadMem(m, Idx(PtrFrom(r, i - 1)))
  <2> DEFINE x == r + i - 1
  <2>1. Distance(w, r) \in Nat
    BY ClassRing
  <2>2. x \in 0..(3 * DEPTH - 1) /\ i \in Int
    BY <1>1, <2>1
  <2>3. PtrFrom(r, i - 1) = IF x >= 2 * DEPTH THEN x - 2 * DEPTH ELSE x
    BY <1>1, <2>2 DEF PtrFrom
  <2> HIDE DEF x
  <2>4. x % DEPTH = IF x >= 2 * DEPTH THEN x - 2 * DEPTH
                    ELSE IF x >= DEPTH THEN x - DEPTH ELSE x
    BY <1>1, <2>2
  <2>5. x % DEPTH = Idx(PtrFrom(r, i - 1)) /\ x % DEPTH \in Address
    BY <1>1, <2>2, <2>3, <2>4 DEF Idx, Address
  <2> QED
    BY <2>5 DEF ReadMem, x
<1> QED
  BY <1>2 DEF Words

(* The dual-clock class: what it stores, and the fields eval_comb() leaves.*)
DualStorage ==
    /\ a_latency \in {0, 1}
    /\ a_mem \in [Address -> Data \cup {NoData}]
    /\ a_wr_ptr \in Ptr /\ a_rd_ptr \in Ptr /\ a_pop_data_valid \in BOOLEAN
    /\ Distance(a_wr_ptr, a_rd_ptr) <= DEPTH
    /\ \A i \in 1..Distance(a_wr_ptr, a_rd_ptr) :
          Words(a_mem, a_wr_ptr, a_rd_ptr)[i] \in Data
    /\ a_latency = 1 /\ a_pop_data_valid =>
          a_wr_ptr # a_rd_ptr /\ a_pop_data_r = ReadMem(a_mem, Idx(a_rd_ptr))

DualFields ==
    /\ a_push_ready => Distance(a_wr_ptr, a_rd_ptr) < DEPTH
    /\ a_pop_valid => a_wr_ptr # a_rd_ptr /\ a_pop_data = ReadMem(a_mem, Idx(a_rd_ptr))
    /\ a_latency = 1 /\ a_pop_data_valid => a_pop_data = ReadMem(a_mem, Idx(a_rd_ptr))

(* eval_comb() computes the fields of what is stored.                      *)
LEMMA DualComb ==
    ASSUME DepthFitsBody, DualStorage', Dual!EvalComb, a_latency' = a_latency
    PROVE  DualFields'
<1> DEFINE w == a_wr_ptr'
           r == a_rd_ptr'
           n == Distance(w, r)
<1>1. /\ w \in Ptr /\ r \in Ptr /\ a_mem' \in [Address -> Data \cup {NoData}]
      /\ a_latency = 1 /\ a_pop_data_valid' =>
            w # r /\ a_pop_data_r' = ReadMem(a_mem', Idx(r))
  BY DEF DualStorage
<1>2. DEPTH \in Nat /\ n \in Nat /\ Dual!Distance(w, r) = n
  BY <1>1, ClassRing
<1>3. /\ a_push_ready' = ~(n >= DEPTH)
      /\ a_pop_valid' = IF a_latency = 1 THEN a_pop_data_valid' ELSE n # 0
      /\ a_pop_data' = IF a_latency = 1 THEN a_pop_data_r' ELSE a_mem'[r % DEPTH]
  BY <1>2 DEF Dual!EvalComb
<1>4. a_mem'[r % DEPTH] = ReadMem(a_mem', Idx(r))
  BY <1>1, ClassRing DEF ReadMem
<1>5. n # 0 => w # r
  BY <1>1, DistanceFacts
<1>6. a_push_ready' => n < DEPTH
  <2>1. ~(n >= DEPTH) => n < DEPTH
    BY <1>2
  <2> HIDE DEF n
  <2> QED
    BY <1>3, <2>1, Zenon
<1>7. a_pop_valid' => w # r /\ a_pop_data' = ReadMem(a_mem', Idx(r))
  <2>1. CASE a_latency = 1
    BY <1>1, <1>3, <2>1
  <2>2. CASE a_latency # 1
    BY <1>3, <1>4, <1>5, <2>2
  <2> QED
    BY <2>1, <2>2
<1>8. a_latency' = 1 /\ a_pop_data_valid' => a_pop_data' = ReadMem(a_mem', Idx(r))
  BY <1>1, <1>3
<1> QED
  BY <1>6, <1>7, <1>8 DEF DualFields

(* The words of the class are those between its pointers.                  *)
LEMMA DualStoredIs ==
    ASSUME DepthFitsBody, DualStorage
    PROVE  Dual!Stored = Words(a_mem, a_wr_ptr, a_rd_ptr)
<1>1. /\ a_mem \in [Address -> Data \cup {NoData}] /\ a_wr_ptr \in Ptr /\ a_rd_ptr \in Ptr
      /\ Distance(a_wr_ptr, a_rd_ptr) <= DEPTH
  BY DEF DualStorage
<1>2. Dual!Distance(a_wr_ptr, a_rd_ptr) = Distance(a_wr_ptr, a_rd_ptr)
  BY <1>1, ClassRing
<1> QED
  BY <1>1, <1>2, ClassWords DEF Dual!Stored

(* An edge of wr_clk, of rd_clk or of both: eval_posedge_dual().           *)
LEMMA DualPosedge ==
    ASSUME DepthFitsBody, DualStorage, DualFields,
           NEW wr_rising \in BOOLEAN, NEW rd_rising \in BOOLEAN,
           NEW push_valid \in BOOLEAN, NEW d \in Data, NEW pop_ready \in BOOLEAN,
           Dual!PosedgeDual(wr_rising, rd_rising, push_valid, d, pop_ready),
           a_latency' = a_latency
    PROVE  DualStorage' /\ Dual!Elastic!Next
<1> DEFINE wr == a_wr_ptr
           rd == a_rd_ptr
           n == Distance(wr, rd)
           s == Words(a_mem, wr, rd)
           push == wr_rising /\ push_valid /\ a_push_ready
           pop == rd_rising /\ pop_ready
                    /\ (IF a_latency = 1 THEN a_pop_data_valid ELSE a_pop_valid)
           rest == IF pop THEN Tail(s) ELSE s
<1>1. /\ a_mem \in [Address -> Data \cup {NoData}] /\ wr \in Ptr /\ rd \in Ptr
      /\ n <= DEPTH /\ \A i \in 1..n : s[i] \in Data
      /\ a_latency \in {0, 1} /\ a_pop_data_valid \in BOOLEAN
  BY DEF DualStorage
<1>2. DEPTH \in Nat /\ n \in Nat /\ wr % DEPTH = Idx(wr) /\ Idx(wr) \in Address
      /\ Dual!NextPtr(wr) = NextPtr(wr) /\ Dual!NextPtr(rd) = NextPtr(rd)
  BY <1>1, ClassRing
<1>3. /\ a_mem' = IF push THEN WriteMem(a_mem, Idx(wr), d) ELSE a_mem
      /\ a_wr_ptr' = IF push THEN NextPtr(wr) ELSE wr
      /\ a_pushed' = IF push THEN d ELSE NoData
  BY <1>2 DEF Dual!PosedgeDual, Dual!PushSide, WriteMem
<1>4. /\ a_rd_ptr' = IF pop THEN NextPtr(rd) ELSE rd
      /\ a_popped' = IF pop THEN a_pop_data ELSE NoData
  BY <1>2 DEF Dual!PosedgeDual, Dual!RegisteredPop, Dual!DirectPop
<1>5. /\ push => n < DEPTH
      /\ pop => wr # rd /\ a_pop_data = ReadMem(a_mem, Idx(rd))
  BY DEF DualStorage, DualFields
<1>6. /\ push \in BOOLEAN /\ pop \in BOOLEAN /\ (push /\ n = DEPTH => pop)
  <2>1. push /\ n = DEPTH => pop
    BY <1>2, <1>5
  <2>2. push \in BOOLEAN
    BY Zenon
  <2>3. pop \in BOOLEAN
    BY Zenon
  <2> QED
    BY <2>1, <2>2, <2>3
<1> HIDE DEF push, pop
<1>7. /\ a_wr_ptr' \in Ptr /\ a_rd_ptr' \in Ptr
      /\ a_mem' \in [Address -> Data \cup {NoData}]
      /\ Distance(a_wr_ptr', a_rd_ptr') <= DEPTH
      /\ \A i \in 1..Distance(a_wr_ptr', a_rd_ptr') :
            Words(a_mem', a_wr_ptr', a_rd_ptr')[i] \in Data
      /\ Words(a_mem', a_wr_ptr', a_rd_ptr') = IF push THEN Append(rest, d) ELSE rest
  BY <1>1, <1>3, <1>4, <1>5, <1>6, WordsStep
<1>8. /\ a_pop_data_valid' \in BOOLEAN
      /\ a_latency = 1 /\ a_pop_data_valid' =>
            /\ a_wr_ptr' # a_rd_ptr'
            /\ a_pop_data_r' = ReadMem(a_mem', Idx(a_rd_ptr'))
  <2>1. CASE a_latency # 1
    BY <1>1, <2>1 DEF Dual!PosedgeDual, Dual!DirectPop
  <2>2. CASE a_latency = 1
    <3> DEFINE load == rd_rising /\ (~a_pop_data_valid \/ pop_ready)
    <3>1. /\ a_pop_data_valid' = IF load THEN a_rd_ptr' # a_wr_ptr' ELSE a_pop_data_valid
          /\ a_pop_data_r' = IF load /\ a_rd_ptr' # a_wr_ptr'
                             THEN a_mem'[a_rd_ptr' % DEPTH] ELSE a_pop_data_r
      BY <2>2 DEF Dual!PosedgeDual, Dual!RegisteredPop
    <3>2. a_mem'[a_rd_ptr' % DEPTH] = ReadMem(a_mem', Idx(a_rd_ptr'))
      BY <1>7, ClassRing DEF ReadMem
    <3>3. CASE load
      <4>1. a_pop_data_valid' = (a_rd_ptr' # a_wr_ptr')
        BY <3>1, <3>3
      <4>2. a_pop_data_valid' \in BOOLEAN
        BY <4>1
      <4>3. a_pop_data_valid' => /\ a_wr_ptr' # a_rd_ptr'
                                 /\ a_pop_data_r' = ReadMem(a_mem', Idx(a_rd_ptr'))
        BY <3>1, <3>2, <3>3, <4>1
      <4> QED
        BY <4>2, <4>3
    <3>4. CASE ~load
      <4>1. a_pop_data_valid' = a_pop_data_valid /\ a_pop_data_r' = a_pop_data_r
        BY <3>1, <3>4
      <4>2. a_pop_data_valid => ~pop
        BY <2>2, <3>4 DEF pop
      <4>3. ASSUME a_pop_data_valid
            PROVE  a_wr_ptr' # a_rd_ptr' /\ a_pop_data_r = ReadMem(a_mem', Idx(a_rd_ptr'))
        <5>1. wr # rd /\ a_pop_data_r = ReadMem(a_mem, Idx(rd)) /\ a_rd_ptr' = rd
          BY <1>4, <2>2, <4>2, <4>3 DEF DualStorage
        <5>2. CASE push
          <6>1. n > 0 /\ n < DEPTH
            BY <1>1, <1>2, <1>5, <5>1, <5>2, DistanceFacts
          <6>2. Distance(NextPtr(wr), rd) = n + 1
            BY <1>1, <1>2, <6>1, DistanceFacts
          <6>3. NextPtr(wr) # rd
            BY <1>1, <1>2, <6>2, DistanceFacts, NextPtrType
          <6>4. ReadMem(WriteMem(a_mem, Idx(wr), d), Idx(rd)) = ReadMem(a_mem, Idx(rd))
            BY <1>1, <1>2, <5>1, <6>1, SlotKept
          <6> QED
            BY <1>3, <5>1, <5>2, <6>3, <6>4
        <5>3. CASE ~push
          BY <1>3, <5>1, <5>3
        <5> QED
          BY <5>2, <5>3
      <4> QED
        BY <1>1, <4>1, <4>3
    <3> QED
      BY <3>3, <3>4
  <2> QED
    BY <2>1, <2>2
<1>9. DualStorage'
  BY <1>1, <1>7, <1>8 DEF DualStorage
<1>10. Dual!Stored = s /\ Dual!Stored' = Words(a_mem', a_wr_ptr', a_rd_ptr')
  <2>1. Dual!Stored = s
    BY DualStoredIs
  <2>2. Dual!Distance(a_wr_ptr', a_rd_ptr') = Distance(a_wr_ptr', a_rd_ptr')
    BY <1>7, ClassRing
  <2>3. Dual!Stored' = Words(a_mem', a_wr_ptr', a_rd_ptr')
    <3>1. Dual!Stored' = [i \in 1..Distance(a_wr_ptr', a_rd_ptr') |->
                             a_mem'[(a_rd_ptr' + i - 1) % DEPTH]]
      BY <2>2 DEF Dual!Stored
    <3>2. ASSUME NEW m \in [Address -> Data \cup {NoData}], NEW w \in Ptr, NEW r \in Ptr,
                 Distance(w, r) <= DEPTH
          PROVE  [i \in 1..Distance(w, r) |-> m[(r + i - 1) % DEPTH]] = Words(m, w, r)
      BY <3>2, ClassWords
    <3> QED
      BY <1>7, <3>1, <3>2
  <2> QED
    BY <2>1, <2>3
<1>11. /\ s \in Seq(Data) /\ Len(s) = n
       /\ wr # rd => s # <<>> /\ Head(s) = ReadMem(a_mem, Idx(rd))
  BY <1>1, WordsFacts, WordsTail
<1>12. Dual!Elastic!Next
  <2> DEFINE word == IF push THEN d ELSE NoData
  <2>1. word \in Data \cup {NoData} /\ (word # NoData <=> push) /\ (push => word = d)
    BY FifoAssumption
  <2>2. /\ Dual!Stored' = IF push THEN Append(rest, d) ELSE rest
        /\ a_popped' = IF pop THEN Head(s) ELSE NoData
        /\ pop => s # <<>>
        /\ push => Len(s) < DEPTH
    BY <1>4, <1>5, <1>7, <1>10, <1>11
  <2> HIDE DEF s
  <2>3. Dual!Elastic!Transfer(word, pop)
    BY <1>3, <1>10, <2>1, <2>2 DEF Dual!Elastic!Transfer
  <2> QED
    BY <1>6, <2>1, <2>3 DEF Dual!Elastic!Next
<1> QED
  BY <1>9, <1>12

(* Every eval() of the dual-clock class.                                   *)
LEMMA DualStep ==
    ASSUME DepthFitsBody, DualStorage, DualFields, Dual!Next
    PROVE  /\ DualStorage' /\ DualFields'
           /\ [Dual!Elastic!Next]_(Dual!Elastic!vars)
<1>1. PICK wr_clk \in BOOLEAN, rd_clk \in BOOLEAN, rst \in BOOLEAN,
           push_valid \in BOOLEAN, pop_ready \in BOOLEAN, d \in Data :
              Dual!Eval(wr_clk, rd_clk, rst, push_valid, d, pop_ready)
  BY DEF Dual!Next
<1> DEFINE wr_rising == wr_clk /\ ~clk_prev_wr
           rd_rising == rd_clk /\ ~clk_prev_rd
<1>2. Dual!EvalComb /\ a_latency' = a_latency
  BY <1>1 DEF Dual!Eval
<1>3. ASSUME UNCHANGED <<Dual!storage, a_pushed, a_popped>>
      PROVE  DualStorage' /\ UNCHANGED Dual!Elastic!vars
  <2>1. /\ a_mem' = a_mem /\ a_wr_ptr' = a_wr_ptr /\ a_rd_ptr' = a_rd_ptr
        /\ a_pop_data_r' = a_pop_data_r /\ a_pop_data_valid' = a_pop_data_valid
        /\ a_pushed' = a_pushed /\ a_popped' = a_popped
    BY <1>3 DEF Dual!storage
  <2> QED
    BY <1>2, <2>1 DEF DualStorage, Dual!Elastic!vars, Dual!Stored
<1>4. ASSUME Dual!ResetDual PROVE DualStorage' /\ Dual!Elastic!Next
  <2>1. /\ a_mem' = a_mem /\ a_wr_ptr' = 0 /\ a_rd_ptr' = 0
        /\ a_pop_data_valid' = FALSE /\ a_pushed' = NoData /\ a_popped' = NoData
    BY <1>4 DEF Dual!ResetDual
  <2>2. DEPTH \in Nat /\ 0 \in Ptr /\ Distance(0, 0) = 0 /\ Dual!Distance(0, 0) = 0
    BY ClassRing
  <2>3. DualStorage'
    <3>1. /\ a_wr_ptr' \in Ptr /\ a_rd_ptr' \in Ptr
          /\ Distance(a_wr_ptr', a_rd_ptr') = 0 /\ 0 <= DEPTH
      BY <2>1, <2>2
    <3>2. \A i \in 1..Distance(a_wr_ptr', a_rd_ptr') :
             Words(a_mem', a_wr_ptr', a_rd_ptr')[i] \in Data
      BY <3>1
    <3>3. a_latency \in {0, 1} /\ a_mem \in [Address -> Data \cup {NoData}]
      BY DEF DualStorage
    <3>4. a_pop_data_valid' \in BOOLEAN /\ ~a_pop_data_valid'
      BY <2>1
    <3> QED
      BY <1>2, <2>1, <3>1, <3>2, <3>3, <3>4 DEF DualStorage
  <2>4. Dual!Stored' = <<>>
    BY <2>1, <2>2 DEF Dual!Stored
  <2> QED
    BY <2>1, <2>3, <2>4 DEF Dual!Elastic!Reset, Dual!Elastic!Next
<1>5. ASSUME Dual!PosedgeDual(wr_rising, rd_rising, push_valid, d, pop_ready)
      PROVE  DualStorage' /\ Dual!Elastic!Next
  <2>1. wr_rising \in BOOLEAN /\ rd_rising \in BOOLEAN
    BY Zenon
  <2> HIDE DEF wr_rising, rd_rising
  <2> QED
    BY <1>2, <1>5, <2>1, DualPosedge
<1>6. \/ UNCHANGED <<Dual!storage, a_pushed, a_popped>>
      \/ Dual!ResetDual
      \/ Dual!PosedgeDual(wr_rising, rd_rising, push_valid, d, pop_ready)
  BY <1>1 DEF Dual!Eval
<1>7. DualStorage' /\ [Dual!Elastic!Next]_(Dual!Elastic!vars)
  BY <1>3, <1>4, <1>5, <1>6
<1>8. DualFields'
  BY <1>2, <1>7, DualComb
<1> QED
  BY <1>7, <1>8

-----------------------------------------------------------------------------
(* The single-clock class.  Of a fifo: the ring, its words, and with       *)
(* latency 1 the head in pop_data_r.  Of a lifo: the words below sp.       *)
ClassStorage ==
    /\ c_design \in CheckedDesigns
    /\ c_mem \in [Address -> Data \cup {NoData}]
    /\ c_wr_ptr \in Ptr /\ c_rd_ptr \in Ptr /\ c_sp \in 0..DEPTH
    /\ Distance(c_wr_ptr, c_rd_ptr) <= DEPTH
    /\ c_design.kind = "fifo" =>
          /\ \A i \in 1..Distance(c_wr_ptr, c_rd_ptr) :
                Words(c_mem, c_wr_ptr, c_rd_ptr)[i] \in Data
          /\ c_design.latency = 1 /\ c_wr_ptr # c_rd_ptr =>
                c_pop_data_r = ReadMem(c_mem, Idx(c_rd_ptr))
    /\ c_design.kind = "lifo" => \A i \in 0..(c_sp - 1) : c_mem[i] \in Data

ClassFields ==
    /\ c_push_ready \in BOOLEAN /\ c_pop_valid \in BOOLEAN
    /\ c_design.kind = "fifo" =>
          /\ c_push_ready => c_design.overflow \/ Distance(c_wr_ptr, c_rd_ptr) < DEPTH
          /\ c_pop_valid => /\ c_wr_ptr # c_rd_ptr
                            /\ c_pop_data = ReadMem(c_mem, Idx(c_rd_ptr))
    /\ c_design.kind = "lifo" =>
          /\ c_push_ready => c_sp < DEPTH
          /\ c_pop_valid => c_sp > 0 /\ c_pop_data = c_mem[c_sp - 1]

(* The declarations: OVERFLOW only with latency 1.                         *)
LEMMA DesignFacts ==
    ASSUME NEW x \in CheckedDesigns
    PROVE  /\ x.kind \in {"fifo", "lifo"} /\ x.latency \in {0, 1}
           /\ x.overflow \in BOOLEAN /\ (x.overflow => x.latency = 1)
<1>1. \A l, o : fifo(l, o).kind = "fifo" /\ fifo(l, o).latency = l /\ fifo(l, o).overflow = o
  BY DEF fifo
<1>2. lifo.kind = "lifo" /\ lifo.latency = 0 /\ lifo.overflow = FALSE
  BY DEF lifo
<1>3. x \in {fifo(0, FALSE), fifo(1, FALSE), fifo(1, TRUE), lifo}
  BY DEF CheckedDesigns
<1>4. CASE x = lifo
  BY <1>2, <1>4
<1>5. CASE x = fifo(0, FALSE)
  BY <1>1, <1>5
<1>6. CASE x = fifo(1, FALSE)
  BY <1>1, <1>6
<1>7. CASE x = fifo(1, TRUE)
  BY <1>1, <1>7
<1> QED
  BY <1>3, <1>4, <1>5, <1>6, <1>7

(* eval_comb() computes the fields of what is stored.                      *)
LEMMA ClassComb ==
    ASSUME DepthFitsBody, ClassStorage', Class!EvalComb, c_design' = c_design
    PROVE  ClassFields'
<1> DEFINE w == c_wr_ptr'
           r == c_rd_ptr'
           n == Distance(w, r)
<1>1. /\ w \in Ptr /\ r \in Ptr /\ c_mem' \in [Address -> Data \cup {NoData}]
      /\ c_sp' \in 0..DEPTH /\ c_design \in CheckedDesigns
      /\ c_design.kind = "fifo" /\ c_design.latency = 1 /\ w # r =>
            c_pop_data_r' = ReadMem(c_mem', Idx(r))
  BY DEF ClassStorage
<1>2. DEPTH \in Nat /\ DEPTH > 0 /\ n \in Nat /\ Class!Distance(w, r) = n
      /\ Address = 0..(DEPTH - 1)
  BY <1>1, ClassRing
<1>3. c_design.kind \in {"fifo", "lifo"} /\ c_design.overflow \in BOOLEAN
  BY <1>1, DesignFacts
<1>4. CASE c_design.kind = "lifo"
  <2> DEFINE j == (IF c_sp' > 0 THEN c_sp' - 1 ELSE 0) % DEPTH
  <2>1. /\ c_push_ready' = (c_sp' < DEPTH)
        /\ c_pop_valid' = (c_sp' > 0)
        /\ c_pop_data' = c_mem'[j]
    BY <1>4 DEF Class!EvalComb, Class!KIND
  <2>2. c_sp' > 0 => j = c_sp' - 1
    BY <1>1, <1>2
  <2> HIDE DEF j
  <2>3. c_push_ready' \in BOOLEAN /\ c_pop_valid' \in BOOLEAN
    BY <2>1
  <2>4. /\ c_push_ready' => c_sp' < DEPTH
        /\ c_pop_valid' => c_sp' > 0 /\ c_pop_data' = c_mem'[c_sp' - 1]
    BY <2>1, <2>2
  <2> QED
    BY <1>4, <2>3, <2>4 DEF ClassFields
<1>5. CASE c_design.kind = "fifo"
  <2>1. /\ c_push_ready' = (c_design.overflow \/ ~(n >= DEPTH))
        /\ c_pop_valid' = (n # 0)
        /\ c_pop_data' = IF c_design.latency = 1 THEN c_pop_data_r' ELSE c_mem'[r % DEPTH]
    BY <1>2, <1>5 DEF Class!EvalComb, Class!KIND, Class!overflow, Class!LATENCY
  <2>2. c_mem'[r % DEPTH] = ReadMem(c_mem', Idx(r))
    BY <1>1, ClassRing DEF ReadMem
  <2>3. (n # 0 <=> w # r) /\ (~(n >= DEPTH) <=> n < DEPTH)
    BY <1>1, <1>2, DistanceFacts
  <2> HIDE DEF n
  <2>4. c_push_ready' \in BOOLEAN /\ c_pop_valid' \in BOOLEAN
    BY <2>1
  <2>5. c_push_ready' => c_design.overflow \/ n < DEPTH
    BY <2>1, <2>3, Zenon
  <2>6. c_pop_valid' => w # r /\ c_pop_data' = ReadMem(c_mem', Idx(r))
    BY <1>1, <1>5, <2>1, <2>2, <2>3
  <2> QED
    BY <1>5, <2>4, <2>5, <2>6 DEF ClassFields, n
<1> QED
  BY <1>3, <1>4, <1>5

(* eval_posedge() of a fifo, reset inactive.                               *)
LEMMA ClassFifoPosedge ==
    ASSUME DepthFitsBody, ClassStorage, ClassFields, c_design.kind = "fifo",
           NEW push_valid \in BOOLEAN, NEW d \in Data, NEW pop_ready \in BOOLEAN,
           Class!Posedge(push_valid, d, pop_ready), c_design' = c_design
    PROVE  ClassStorage' /\ Class!Queue!Next
<1> DEFINE wr == c_wr_ptr
           rd == c_rd_ptr
           n == Distance(wr, rd)
           s == Words(c_mem, wr, rd)
           push == push_valid /\ c_push_ready
           pop == pop_ready /\ c_pop_valid
           drop == c_design.latency = 1 /\ c_design.overflow /\ n >= DEPTH /\ push /\ ~pop
           adv == pop \/ drop
           r == IF adv THEN NextPtr(rd) ELSE rd
           rest == IF adv THEN Tail(s) ELSE s
<1>1. /\ c_mem \in [Address -> Data \cup {NoData}] /\ wr \in Ptr /\ rd \in Ptr
      /\ n <= DEPTH /\ \A i \in 1..n : s[i] \in Data
      /\ c_design \in CheckedDesigns /\ c_sp \in 0..DEPTH
      /\ c_design.latency = 1 /\ wr # rd => c_pop_data_r = ReadMem(c_mem, Idx(rd))
  BY DEF ClassStorage
<1>2. /\ DEPTH \in Nat /\ DEPTH > 0 /\ n \in Nat
      /\ wr % DEPTH = Idx(wr) /\ Idx(wr) \in Address
      /\ Class!NextPtr(wr) = NextPtr(wr) /\ Class!NextPtr(rd) = NextPtr(rd)
      /\ (rd + 1) % DEPTH = Idx(NextPtr(rd)) /\ Idx(NextPtr(rd)) \in Address
      /\ Class!Count = n
  BY <1>1, ClassRing DEF Class!Count
<1>3. /\ c_design.overflow \in BOOLEAN /\ (c_design.overflow => c_design.latency = 1)
      /\ c_push_ready \in BOOLEAN /\ c_pop_valid \in BOOLEAN
      /\ c_push_ready => c_design.overflow \/ n < DEPTH
      /\ c_pop_valid => wr # rd /\ c_pop_data = ReadMem(c_mem, Idx(rd))
  BY <1>1, DesignFacts DEF ClassFields
<1>4. /\ Class!FifoPosedge(push, d, pop)
      /\ c_pushed' = IF push THEN d ELSE NoData
      /\ c_popped' = IF pop THEN c_pop_data ELSE NoData
  BY DEF Class!Posedge, Class!KIND
<1>5. Class!DropOldest(push, pop) <=> drop
  BY <1>2 DEF Class!DropOldest, Class!LATENCY, Class!overflow
<1>6. /\ n = 0 <=> wr = rd
      /\ wr = NextPtr(rd) <=> n = 1
  BY <1>1, DistanceFacts
<1>7. /\ push \in BOOLEAN /\ pop \in BOOLEAN /\ adv \in BOOLEAN
      /\ adv => wr # rd
      /\ push /\ n = DEPTH => adv
      /\ drop <=> push /\ ~pop /\ n = DEPTH
  BY <1>1, <1>2, <1>3, <1>6
<1>8. /\ c_mem' = IF push THEN WriteMem(c_mem, Idx(wr), d) ELSE c_mem
      /\ c_wr_ptr' = IF push THEN NextPtr(wr) ELSE wr
      /\ c_rd_ptr' = r
      /\ c_sp' = c_sp
      /\ c_pop_data_r' = IF c_design.latency = 1 THEN Class!HeadRegister(push, d, pop)
                         ELSE c_pop_data_r
  <2> HIDE DEF push, pop, drop
  <2> QED
    BY <1>2, <1>4, <1>5 DEF Class!FifoPosedge, Class!LATENCY, WriteMem
<1>9. /\ push /\ wr = r => Class!HeadRegister(push, d, pop) = d
      /\ adv /\ wr # NextPtr(rd) =>
            Class!HeadRegister(push, d, pop) = ReadMem(c_mem, Idx(NextPtr(rd)))
      /\ ~adv /\ wr # rd => Class!HeadRegister(push, d, pop) = c_pop_data_r
  <2> DEFINE next == c_mem[(rd + 1) % DEPTH]
  <2>1. next = ReadMem(c_mem, Idx(NextPtr(rd)))
    BY <1>2 DEF ReadMem
  <2>2. Class!HeadRegister(push, d, pop) =
           CASE n = 0 /\ push -> d
             [] ~(n = 0 /\ push) /\ pop ->
                   IF n = 1 THEN (IF push THEN d ELSE c_pop_data_r) ELSE next
             [] ~(n = 0 /\ push) /\ ~pop /\ drop -> IF DEPTH = 1 THEN d ELSE next
             [] OTHER -> c_pop_data_r
    <3> HIDE DEF push, pop, drop, next
    <3> QED
      BY <1>2, <1>5 DEF Class!HeadRegister, next
  <2> HIDE DEF next
  <2>3. push /\ wr = r => Class!HeadRegister(push, d, pop) = d
    <3>1. push /\ wr = r => \/ n = 0
                            \/ n = 1 /\ pop
                            \/ n # 0 /\ ~pop /\ drop /\ DEPTH = 1
      BY <1>2, <1>6, <1>7
    <3> HIDE DEF push, pop, drop, r, n
    <3> QED
      BY <2>2, <3>1
  <2>4. adv /\ wr # NextPtr(rd) => Class!HeadRegister(push, d, pop) = next
    <3>1. adv /\ wr # NextPtr(rd) => /\ n # 0 /\ n # 1
                                     /\ pop \/ (~pop /\ drop /\ DEPTH # 1)
      BY <1>2, <1>6, <1>7
    <3> HIDE DEF push, pop, drop, adv, n
    <3> QED
      BY <2>2, <3>1
  <2>5. ~adv /\ wr # rd => Class!HeadRegister(push, d, pop) = c_pop_data_r
    <3>1. ~adv /\ wr # rd => n # 0 /\ ~pop /\ ~drop
      BY <1>6
    <3> HIDE DEF push, pop, drop, adv, n
    <3> QED
      BY <2>2, <3>1
  <2> QED
    BY <2>1, <2>3, <2>4, <2>5
<1> HIDE DEF push, pop, drop
<1>10. /\ c_wr_ptr' \in Ptr /\ c_rd_ptr' \in Ptr
       /\ c_mem' \in [Address -> Data \cup {NoData}]
       /\ Distance(c_wr_ptr', c_rd_ptr') <= DEPTH
       /\ \A i \in 1..Distance(c_wr_ptr', c_rd_ptr') :
             Words(c_mem', c_wr_ptr', c_rd_ptr')[i] \in Data
       /\ Words(c_mem', c_wr_ptr', c_rd_ptr') = IF push THEN Append(rest, d) ELSE rest
  <2> HIDE DEF adv
  <2> QED
    BY <1>1, <1>7, <1>8, WordsStep
<1>11. c_design.latency = 1 /\ c_wr_ptr' # c_rd_ptr' =>
          c_pop_data_r' = ReadMem(c_mem', Idx(c_rd_ptr'))
  <2> SUFFICES ASSUME c_design.latency = 1
               PROVE  c_wr_ptr' # c_rd_ptr' => c_pop_data_r' = ReadMem(c_mem', Idx(c_rd_ptr'))
    OBVIOUS
  <2> HIDE DEF adv
  <2>1. c_pop_data_r' = Class!HeadRegister(push, d, pop)
    BY <1>8
  <2> QED
    BY <1>1, <1>7, <1>8, <1>9, <2>1, HeadRegisterStep
<1>12. ClassStorage'
  <2>1. c_design.kind # "lifo"
    OBVIOUS
  <2> QED
    BY <1>1, <1>8, <1>10, <1>11, <2>1 DEF ClassStorage
<1>13. Class!StoredWords = s /\ Class!StoredWords' = Words(c_mem', c_wr_ptr', c_rd_ptr')
  <2>1. ASSUME NEW m \in [Address -> Data \cup {NoData}], NEW v \in Ptr, NEW u \in Ptr,
               Distance(v, u) <= DEPTH
        PROVE  [i \in 1..Distance(v, u) |-> m[(u + i - 1) % DEPTH]] = Words(m, v, u)
    BY <2>1, ClassWords
  <2>2. Class!Count' = Distance(c_wr_ptr', c_rd_ptr')
    BY <1>10, ClassRing DEF Class!Count
  <2>3. Class!StoredWords = [i \in 1..Distance(c_wr_ptr, c_rd_ptr) |->
                                c_mem[(c_rd_ptr + i - 1) % DEPTH]]
    BY <1>2 DEF Class!StoredWords
  <2>4. Class!StoredWords' = [i \in 1..Distance(c_wr_ptr', c_rd_ptr') |->
                                 c_mem'[(c_rd_ptr' + i - 1) % DEPTH]]
    BY <2>2 DEF Class!StoredWords
  <2>5. Class!StoredWords = s
    BY <1>1, <2>1, <2>3
  <2>6. Class!StoredWords' = Words(c_mem', c_wr_ptr', c_rd_ptr')
    BY <1>10, <2>1, <2>4
  <2> QED
    BY <2>5, <2>6
<1>14. /\ s \in Seq(Data) /\ Len(s) = n
       /\ wr # rd => s # <<>> /\ Head(s) = ReadMem(c_mem, Idx(rd))
  BY <1>1, WordsFacts, WordsTail
<1>15. /\ push => c_design.overflow \/ Len(s) < DEPTH
       /\ pop => s # <<>> /\ c_pop_data = Head(s)
  BY <1>3, <1>14 DEF push, pop
<1>16. /\ Class!StoredWords' = IF push THEN Append(rest, d) ELSE rest
       /\ rest = IF pop \/ (push /\ ~pop /\ Len(s) = DEPTH) THEN Tail(s) ELSE s
  BY <1>7, <1>10, <1>13, <1>14
<1> HIDE DEF rest, s, adv
<1>17. Class!Queue!Edge(push, d, pop)
  <2>1. (push /\ Class!Queue!push_ready <=> push) /\ (pop /\ Class!Queue!pop_valid <=> pop)
    BY <1>13, <1>15 DEF Class!Queue!push_ready, Class!Queue!pop_valid, Class!overflow
  <2> QED
    BY <1>4, <1>13, <1>15, <1>16, <2>1 DEF Class!Queue!Edge
<1>18. Class!Queue!Next
  <2>1. Class!overflow' = Class!overflow
    BY DEF Class!overflow
  <2> QED
    BY <1>7, <1>17, <2>1 DEF Class!Queue!Next
<1> QED
  BY <1>12, <1>18

(* eval_posedge() of a lifo, reset inactive: push and pop one after the    *)
(* other, which on a single edge returns the pushed word's slot.           *)
LEMMA ClassLifoPosedge ==
    ASSUME DepthFitsBody, ClassStorage, ClassFields, c_design.kind = "lifo",
           NEW push_valid \in BOOLEAN, NEW d \in Data, NEW pop_ready \in BOOLEAN,
           Class!Posedge(push_valid, d, pop_ready), c_design' = c_design
    PROVE  /\ ClassStorage'
           /\ c_pushed' = NoData \/ c_popped' = NoData => Class!Stack!Next
<1> DEFINE push == push_valid /\ c_push_ready
           pop  == pop_ready /\ c_pop_valid
           s    == [i \in 1..c_sp |-> c_mem[i - 1]]
<1>1. /\ DEPTH \in Nat /\ DEPTH > 0 /\ Address = 0..(DEPTH - 1)
      /\ c_mem \in [Address -> Data \cup {NoData}] /\ c_sp \in 0..DEPTH
      /\ \A i \in 0..(c_sp - 1) : c_mem[i] \in Data
      /\ c_wr_ptr \in Ptr /\ c_rd_ptr \in Ptr /\ Distance(c_wr_ptr, c_rd_ptr) <= DEPTH
      /\ c_design \in CheckedDesigns
  BY ClassRing DEF ClassStorage
<1>2. /\ push => c_sp < DEPTH
      /\ pop => c_sp > 0 /\ c_pop_data = c_mem[c_sp - 1]
      /\ push \in BOOLEAN /\ pop \in BOOLEAN
  BY DEF ClassFields
<1>3. /\ Class!LifoPosedge(push, d, pop)
      /\ c_pushed' = IF push THEN d ELSE NoData
      /\ c_popped' = IF pop THEN c_pop_data ELSE NoData
  BY DEF Class!Posedge, Class!KIND
<1> HIDE DEF push, pop
<1>4. /\ c_mem' = IF push THEN [c_mem EXCEPT ![c_sp] = d] ELSE c_mem
      /\ c_sp' = IF push THEN (IF pop THEN c_sp ELSE c_sp + 1)
                 ELSE (IF pop THEN c_sp - 1 ELSE c_sp)
      /\ c_wr_ptr' = c_wr_ptr /\ c_rd_ptr' = c_rd_ptr
  <2>1. push => c_sp % DEPTH = c_sp /\ c_sp + 1 > 0 /\ (c_sp + 1) - 1 = c_sp
    BY <1>1, <1>2
  <2> QED
    BY <1>1, <1>2, <1>3, <2>1 DEF Class!LifoPosedge
<1>5. c_sp' \in 0..DEPTH /\ c_mem' \in [Address -> Data \cup {NoData}]
  BY <1>1, <1>2, <1>4
<1>6. \A i \in 0..(c_sp' - 1) : c_mem'[i] \in Data
  <2> SUFFICES ASSUME NEW i \in 0..(c_sp' - 1) PROVE c_mem'[i] \in Data
    OBVIOUS
  <2>1. i \in Address /\ (i \in 0..(c_sp - 1) \/ (push /\ i = c_sp))
    BY <1>1, <1>2, <1>4, <1>5
  <2>2. CASE push /\ i = c_sp
    BY <1>1, <1>4, <2>1, <2>2
  <2>3. CASE i \in 0..(c_sp - 1)
    <3>1. i # c_sp
      BY <1>1, <2>3
    <3> QED
      BY <1>1, <1>4, <2>1, <2>3, <3>1
  <2> QED
    BY <2>1, <2>2, <2>3
<1>7. ClassStorage'
  <2>1. c_design.kind # "fifo"
    OBVIOUS
  <2> QED
    BY <1>1, <1>4, <1>5, <1>6, <2>1 DEF ClassStorage
<1>8. /\ Len(s) = c_sp /\ (c_sp = 0 <=> s = <<>>)
      /\ c_sp > 0 => /\ s[Len(s)] = c_mem[c_sp - 1]
                     /\ SubSeq(s, 1, Len(s) - 1) = [i \in 1..(c_sp - 1) |-> c_mem[i - 1]]
  BY <1>1, StackWords
<1>9. ASSUME ~(push /\ pop) PROVE Class!Stack!Edge(push, d, pop)
  <2> DEFINE rest == IF pop THEN Class!Stack!Front(s) ELSE s
  <2>1. Class!Stack!Last(s) = s[Len(s)] /\ Class!Stack!Front(s) = SubSeq(s, 1, Len(s) - 1)
    <3> HIDE DEF s
    <3> QED
      BY DEF Class!Stack!Last, Class!Stack!Front
  <2>2. [i \in 1..c_sp' |-> c_mem'[i - 1]] = IF push THEN Append(rest, d) ELSE rest
    <3>1. CASE push
      <4>1. /\ c_mem' = [c_mem EXCEPT ![c_sp] = d] /\ c_sp' = c_sp + 1
            /\ c_sp \in 0..(DEPTH - 1) /\ rest = s
        BY <1>1, <1>2, <1>4, <1>9, <3>1
      <4>2. [i \in 1..(c_sp + 1) |-> [c_mem EXCEPT ![c_sp] = d][i - 1]] = Append(s, d)
        BY <1>1, <4>1, StackPush
      <4> HIDE DEF s, rest
      <4> QED
        BY <3>1, <4>1, <4>2
    <3>2. CASE ~push /\ pop
      <4>1. c_mem' = c_mem /\ c_sp' = c_sp - 1 /\ c_sp > 0
        BY <1>2, <1>4, <3>2
      <4>2. rest = [i \in 1..(c_sp - 1) |-> c_mem[i - 1]]
        <5> HIDE DEF s
        <5> QED
          BY <1>8, <2>1, <3>2, <4>1
      <4> HIDE DEF rest
      <4> QED
        BY <3>2, <4>1, <4>2
    <3>3. CASE ~push /\ ~pop
      BY <1>4, <3>3
    <3> QED
      BY <3>1, <3>2, <3>3
  <2>3. /\ push /\ Class!Stack!push_ready <=> push
        /\ pop /\ Class!Stack!pop_valid <=> pop
    <3>1. /\ Class!Stack!push_ready <=> Len(s) < DEPTH
          /\ Class!Stack!pop_valid <=> s # <<>>
      BY DEF Class!Stack!push_ready, Class!Stack!pop_valid
    <3>2. pop => c_sp # 0
      BY <1>1, <1>2
    <3> HIDE DEF s
    <3> QED
      BY <1>2, <1>8, <3>1, <3>2
  <2>4. pop => c_pop_data = Class!Stack!Last(s)
    <3> HIDE DEF s
    <3> QED
      BY <1>2, <1>8, <2>1
  <2> HIDE DEF rest
  <2> QED
    BY <1>3, <2>2, <2>3, <2>4 DEF Class!Stack!Edge, rest
<1>10. ASSUME push, pop PROVE c_pushed' # NoData /\ c_popped' # NoData
  <2>1. c_mem[c_sp - 1] \in Data /\ NoData \notin Data
    BY <1>1, <1>2, <1>10, FifoAssumption
  <2> QED
    BY <1>2, <1>3, <1>10, <2>1
<1>11. ASSUME ~(push /\ pop) PROVE Class!Stack!Next
  <2>1. Class!Stack!Edge(push, d, pop)
    BY <1>9, <1>11
  <2> HIDE DEF s
  <2> QED
    BY <1>2, <2>1 DEF Class!Stack!Next, Class!Stack!Edge
<1> QED
  BY <1>7, <1>10, <1>11

(* Every eval() of the single-clock class: the abstract queue or stack     *)
(* moves on a rising edge and only then.                                   *)
LEMMA ClassStep ==
    ASSUME DepthFitsBody, ClassStorage, ClassFields, Class!Next
    PROVE  /\ ClassStorage' /\ ClassFields'
           /\ c_design.kind = "fifo" =>
                 IF Class!RisingEdge THEN Class!Queue!Next ELSE UNCHANGED Class!Queue!vars
           /\ c_design.kind = "lifo" /\ (c_pushed' = NoData \/ c_popped' = NoData) =>
                 IF Class!RisingEdge THEN Class!Stack!Next ELSE UNCHANGED Class!Stack!vars
<1> DEFINE Fifo == IF Class!RisingEdge THEN Class!Queue!Next
                   ELSE UNCHANGED Class!Queue!vars
           Lifo == IF Class!RisingEdge THEN Class!Stack!Next
                   ELSE UNCHANGED Class!Stack!vars
           one == c_pushed' = NoData \/ c_popped' = NoData
<1>1. PICK clk \in BOOLEAN, rst \in BOOLEAN, push_valid \in BOOLEAN,
           pop_ready \in BOOLEAN, d \in Data :
              Class!Eval(clk, rst, push_valid, d, pop_ready)
  BY DEF Class!Next
<1>2. Class!EvalComb /\ c_design' = c_design /\ clk_prev' = clk
  BY <1>1 DEF Class!Eval
<1>3. Class!Rising(clk) <=> Class!RisingEdge
  BY <1>2 DEF Class!Rising, Class!RisingEdge
<1>4. \/ ~Class!Rising(clk) /\ UNCHANGED <<Class!storage, c_pushed, c_popped>>
      \/ Class!Rising(clk) /\ Class!ResetPosedge
      \/ Class!Rising(clk) /\ Class!Posedge(push_valid, d, pop_ready)
  BY <1>1 DEF Class!Eval
<1>5. c_design.kind \in {"fifo", "lifo"}
  BY DesignFacts DEF ClassStorage
<1>6. ASSUME ~Class!Rising(clk), UNCHANGED <<Class!storage, c_pushed, c_popped>>
      PROVE  ClassStorage' /\ Fifo /\ Lifo
  <2>1. /\ c_mem' = c_mem /\ c_wr_ptr' = c_wr_ptr /\ c_rd_ptr' = c_rd_ptr /\ c_sp' = c_sp
        /\ c_pop_data_r' = c_pop_data_r /\ c_pushed' = c_pushed /\ c_popped' = c_popped
    BY <1>6 DEF Class!storage
  <2>2. ClassStorage'
    BY <1>2, <2>1 DEF ClassStorage
  <2>3. UNCHANGED Class!Queue!vars /\ UNCHANGED Class!Stack!vars
    BY <1>2, <2>1 DEF Class!Queue!vars, Class!Stack!vars, Class!StoredWords, Class!Count,
                      Class!overflow
  <2> QED
    BY <1>3, <1>6, <2>2, <2>3
<1>7. ASSUME Class!Rising(clk), Class!ResetPosedge, c_design.kind = "fifo"
      PROVE  ClassStorage' /\ Fifo
  <2>1. /\ c_mem' = c_mem /\ c_wr_ptr' = 0 /\ c_rd_ptr' = 0 /\ c_sp' = c_sp
        /\ c_pushed' = NoData /\ c_popped' = NoData
    BY <1>7 DEF Class!ResetPosedge, Class!KIND
  <2>2. DEPTH \in Nat /\ 0 \in Ptr /\ Distance(0, 0) = 0 /\ Class!Distance(0, 0) = 0
    BY ClassRing
  <2>3. ClassStorage'
    <3>1. /\ c_wr_ptr' \in Ptr /\ c_rd_ptr' \in Ptr /\ c_wr_ptr' = c_rd_ptr'
          /\ Distance(c_wr_ptr', c_rd_ptr') = 0 /\ 0 <= DEPTH
      BY <2>1, <2>2
    <3>2. \A i \in 1..Distance(c_wr_ptr', c_rd_ptr') :
             Words(c_mem', c_wr_ptr', c_rd_ptr')[i] \in Data
      BY <3>1
    <3>3. /\ c_design \in CheckedDesigns /\ c_mem \in [Address -> Data \cup {NoData}]
          /\ c_sp \in 0..DEPTH /\ c_design.kind # "lifo"
      BY <1>7 DEF ClassStorage
    <3> QED
      BY <1>2, <2>1, <3>1, <3>2, <3>3 DEF ClassStorage
  <2>4. Class!StoredWords' = <<>> /\ Class!overflow' = Class!overflow
    BY <1>2, <2>1, <2>2 DEF Class!StoredWords, Class!Count, Class!overflow
  <2>5. Class!Queue!Next
    BY <2>1, <2>4 DEF Class!Queue!Reset, Class!Queue!Next
  <2> QED
    BY <1>3, <1>7, <2>3, <2>5
<1>8. ASSUME Class!Rising(clk), Class!ResetPosedge, c_design.kind = "lifo"
      PROVE  ClassStorage' /\ Lifo
  <2>1. /\ c_mem' = c_mem /\ c_wr_ptr' = c_wr_ptr /\ c_rd_ptr' = c_rd_ptr /\ c_sp' = 0
        /\ c_pushed' = NoData /\ c_popped' = NoData
    BY <1>8 DEF Class!ResetPosedge, Class!KIND
  <2>2. DEPTH \in Nat /\ c_sp' \in 0..DEPTH
    BY <2>1, ClassRing
  <2>3. ClassStorage'
    <3>1. \A i \in 0..(c_sp' - 1) : c_mem'[i] \in Data
      BY <2>1
    <3>2. c_design.kind # "fifo"
      BY <1>8
    <3> QED
      BY <1>2, <2>1, <2>2, <3>1, <3>2 DEF ClassStorage
  <2>4. [i \in 1..c_sp' |-> c_mem'[i - 1]] = <<>>
    BY <2>1
  <2>5. Class!Stack!Next
    BY <2>1, <2>4 DEF Class!Stack!Reset, Class!Stack!Next
  <2> QED
    BY <1>3, <1>8, <2>3, <2>5
<1>9. ASSUME Class!Rising(clk), Class!Posedge(push_valid, d, pop_ready)
      PROVE  /\ ClassStorage'
             /\ c_design.kind = "fifo" => Fifo
             /\ c_design.kind = "lifo" /\ one => Lifo
  <2>1. CASE c_design.kind = "fifo"
    <3>1. ClassStorage' /\ Class!Queue!Next
      BY <1>2, <1>9, <2>1, ClassFifoPosedge
    <3> QED
      BY <1>3, <1>9, <2>1, <3>1
  <2>2. CASE c_design.kind = "lifo"
    <3>1. ClassStorage' /\ (one => Class!Stack!Next)
      BY <1>2, <1>9, <2>2, ClassLifoPosedge
    <3> QED
      BY <1>3, <1>9, <2>2, <3>1
  <2> QED
    BY <1>5, <2>1, <2>2
<1> HIDE DEF Fifo, Lifo, one
<1>10. /\ ClassStorage'
       /\ c_design.kind = "fifo" => Fifo
       /\ c_design.kind = "lifo" /\ one => Lifo
  BY <1>4, <1>5, <1>6, <1>7, <1>8, <1>9
<1>11. ClassFields'
  BY <1>2, <1>10, ClassComb
<1> QED
  BY <1>10, <1>11 DEF Fifo, Lifo, one

-----------------------------------------------------------------------------
(* Everything a declaration can turn into, chosen once.                    *)
FifosInv == BodiesInv /\ ClassStorage /\ ClassFields /\ DualStorage /\ DualFields

(* Power-up of the circuits and the constructors of the classes.           *)
LEMMA FifosInitial ==
    ASSUME DepthFitsBody, FifosInit PROVE FifosInv /\ Dual!Elastic!Init
<1>1. emit_fifo /\ Class!Init /\ Dual!Init
  BY DEF FifosInit
<1>2. BodiesInv
  BY <1>1, BodiesInitial
<1>3. /\ DEPTH \in Nat /\ Address = 0..(DEPTH - 1)
      /\ 0 \in Ptr /\ Distance(0, 0) = 0 /\ Dual!Distance(0, 0) = 0
  BY ClassRing
<1>4. ClassStorage
  <2>1. /\ c_design \in CheckedDesigns /\ c_mem = [i \in 0..(DEPTH - 1) |-> NoData]
        /\ c_wr_ptr = 0 /\ c_rd_ptr = 0 /\ c_sp = 0
    BY <1>1 DEF Class!Init
  <2>2. /\ c_mem \in [Address -> Data \cup {NoData}] /\ c_wr_ptr \in Ptr /\ c_rd_ptr \in Ptr
        /\ c_sp \in 0..DEPTH /\ c_wr_ptr = c_rd_ptr
        /\ Distance(c_wr_ptr, c_rd_ptr) = 0 /\ 0 <= DEPTH
    BY <1>3, <2>1
  <2>3. \A i \in 1..Distance(c_wr_ptr, c_rd_ptr) :
           Words(c_mem, c_wr_ptr, c_rd_ptr)[i] \in Data
    BY <2>2
  <2>4. \A i \in 0..(c_sp - 1) : c_mem[i] \in Data
    BY <2>1
  <2> QED
    BY <2>1, <2>2, <2>3, <2>4 DEF ClassStorage
<1>5. ClassFields
  <2>1. c_push_ready = FALSE /\ c_pop_valid = FALSE
    BY <1>1 DEF Class!Init
  <2>2. c_push_ready \in BOOLEAN /\ c_pop_valid \in BOOLEAN
    BY <2>1
  <2>3. ~c_push_ready /\ ~c_pop_valid
    BY <2>1
  <2> QED
    BY <2>2, <2>3 DEF ClassFields
<1>6. DualStorage
  <2>1. /\ a_latency \in {0, 1} /\ a_mem = [i \in 0..(DEPTH - 1) |-> NoData]
        /\ a_wr_ptr = 0 /\ a_rd_ptr = 0 /\ a_pop_data_valid = FALSE
    BY <1>1 DEF Dual!Init
  <2>2. /\ a_mem \in [Address -> Data \cup {NoData}] /\ a_wr_ptr \in Ptr /\ a_rd_ptr \in Ptr
        /\ Distance(a_wr_ptr, a_rd_ptr) = 0 /\ 0 <= DEPTH
    BY <1>3, <2>1
  <2>3. \A i \in 1..Distance(a_wr_ptr, a_rd_ptr) :
           Words(a_mem, a_wr_ptr, a_rd_ptr)[i] \in Data
    BY <2>2
  <2>4. a_pop_data_valid \in BOOLEAN /\ ~a_pop_data_valid
    BY <2>1
  <2> QED
    BY <2>1, <2>2, <2>3, <2>4 DEF DualStorage
<1>7. DualFields
  <2>1. ~a_push_ready /\ ~a_pop_valid /\ ~a_pop_data_valid
    BY <1>1 DEF Dual!Init
  <2> QED
    BY <2>1 DEF DualFields
<1>8. Dual!Elastic!Init
  <2>1. /\ a_wr_ptr = 0 /\ a_rd_ptr = 0 /\ a_pushed = NoData /\ a_popped = NoData
    BY <1>1 DEF Dual!Init
  <2>2. Dual!Stored = <<>>
    BY <1>3, <2>1 DEF Dual!Stored
  <2> QED
    BY <2>1, <2>2 DEF Dual!Elastic!Init
<1> QED
  BY <1>2, <1>4, <1>5, <1>6, <1>7, <1>8 DEF FifosInv

(* What each output promises of one step: [A]_v is written as the          *)
(* disjunction it stands for.                                              *)
ClassFifoStep ==
    [Class!KIND = "fifo" =>
        IF Class!RisingEdge THEN Class!Queue!Next ELSE UNCHANGED Class!Queue!vars]_(Class!vars)
ClassLifoStep ==
    [Class!KIND = "lifo" /\ (c_pushed' = NoData \/ c_popped' = NoData) =>
        IF Class!RisingEdge THEN Class!Stack!Next ELSE UNCHANGED Class!Stack!vars]_(Class!vars)

(* Every step of the chosen output keeps the invariant and keeps what that *)
(* output promises; the other outputs wait.                                *)
LEMMA FifosStep ==
    ASSUME DepthFitsBody, FifosInv, [FifosNext]_fifos_vars
    PROVE  /\ FifosInv' /\ ClassFifoStep /\ ClassLifoStep
           /\ [Dual!Elastic!Next]_(Dual!Elastic!vars)
<1>1. BodiesInv /\ ClassStorage /\ ClassFields /\ DualStorage /\ DualFields
  BY DEF FifosInv
<1>2. ASSUME [BodiesNext]_body_vars PROVE BodiesInv'
  BY <1>1, <1>2, BodiesStep
<1>3. ASSUME UNCHANGED class_vars
      PROVE  ClassStorage' /\ ClassFields' /\ ClassFifoStep /\ ClassLifoStep
  <2>1. /\ c_design' = c_design /\ c_mem' = c_mem /\ c_wr_ptr' = c_wr_ptr
        /\ c_rd_ptr' = c_rd_ptr /\ c_sp' = c_sp /\ c_pop_data_r' = c_pop_data_r
        /\ clk_prev' = clk_prev /\ c_push_ready' = c_push_ready
        /\ c_pop_valid' = c_pop_valid /\ c_pop_data' = c_pop_data
        /\ c_pushed' = c_pushed /\ c_popped' = c_popped
    BY <1>3 DEF class_vars
  <2>2. ClassStorage'
    BY <1>1, <2>1 DEF ClassStorage
  <2>3. ClassFields'
    BY <1>1, <2>1 DEF ClassFields
  <2>4. UNCHANGED Class!vars
    BY <2>1 DEF Class!vars, Class!storage, Class!outputs
  <2> QED
    BY <2>2, <2>3, <2>4 DEF ClassFifoStep, ClassLifoStep
<1>4. ASSUME UNCHANGED dual_vars
      PROVE  DualStorage' /\ DualFields' /\ [Dual!Elastic!Next]_(Dual!Elastic!vars)
  <2>1. /\ a_latency' = a_latency /\ a_mem' = a_mem /\ a_wr_ptr' = a_wr_ptr
        /\ a_rd_ptr' = a_rd_ptr /\ a_pop_data_r' = a_pop_data_r
        /\ a_pop_data_valid' = a_pop_data_valid /\ a_push_ready' = a_push_ready
        /\ a_pop_valid' = a_pop_valid /\ a_pop_data' = a_pop_data
        /\ a_pushed' = a_pushed /\ a_popped' = a_popped
    BY <1>4 DEF dual_vars
  <2>2. DualStorage'
    BY <1>1, <2>1 DEF DualStorage
  <2>3. DualFields'
    BY <1>1, <2>1 DEF DualFields
  <2>4. UNCHANGED Dual!Elastic!vars
    BY <2>1 DEF Dual!Elastic!vars, Dual!Stored
  <2> QED
    BY <2>2, <2>3, <2>4
<1>5. CASE SystemVerilog
  BY <1>2, <1>3, <1>4, <1>5 DEF SystemVerilog, FifosInv
<1>6. CASE SingleClock
  <2>1. Class!Next /\ UNCHANGED body_vars /\ UNCHANGED dual_vars
    BY <1>6 DEF SingleClock
  <2>2. /\ ClassStorage' /\ ClassFields'
        /\ c_design.kind = "fifo" =>
              IF Class!RisingEdge THEN Class!Queue!Next ELSE UNCHANGED Class!Queue!vars
        /\ c_design.kind = "lifo" /\ (c_pushed' = NoData \/ c_popped' = NoData) =>
              IF Class!RisingEdge THEN Class!Stack!Next ELSE UNCHANGED Class!Stack!vars
    BY <1>1, <2>1, ClassStep
  <2>3. ClassFifoStep /\ ClassLifoStep
    BY <2>2 DEF ClassFifoStep, ClassLifoStep, Class!KIND
  <2> QED
    BY <1>2, <1>4, <2>1, <2>2, <2>3 DEF FifosInv
<1>7. CASE DualClock
  <2>1. Dual!Next /\ UNCHANGED body_vars /\ UNCHANGED class_vars
    BY <1>7 DEF DualClock
  <2>2. DualStorage' /\ DualFields' /\ [Dual!Elastic!Next]_(Dual!Elastic!vars)
    BY <1>1, <2>1, DualStep
  <2> QED
    BY <1>2, <1>3, <2>1, <2>2 DEF FifosInv
<1>8. CASE UNCHANGED fifos_vars
  BY <1>2, <1>3, <1>4, <1>8 DEF fifos_vars, FifosInv
<1> QED
  BY <1>5, <1>6, <1>7, <1>8 DEF FifosNext

(* In the invariant every offered word is the stored head.                 *)
LEMMA FifosHeads ==
    ASSUME DepthFitsBody, FifosInv PROVE HeadsAreFresh
<1>1. FwftHeadInv
  <2>1. /\ f_wr_ptr \in Ptr /\ f_rd_ptr \in Ptr
        /\ Distance(f_wr_ptr, f_rd_ptr) <= DEPTH
        /\ \A i \in 1..Distance(f_wr_ptr, f_rd_ptr) :
              Words(f_mem, f_wr_ptr, f_rd_ptr)[i] \in Data
        /\ f_wr_ptr # f_rd_ptr => FwftWord = ReadMem(f_mem, Idx(f_rd_ptr))
    BY DEF FifosInv, BodiesInv, FwftInv
  <2>2. /\ Fwft(FALSE)!Distance(f_wr_ptr, f_rd_ptr) = Distance(f_wr_ptr, f_rd_ptr)
        /\ Fwft(FALSE)!Words(f_mem, f_wr_ptr, f_rd_ptr) = Words(f_mem, f_wr_ptr, f_rd_ptr)
        /\ Fwft(FALSE)!Idx(f_rd_ptr) = Idx(f_rd_ptr)
        /\ \A m, i : Fwft(FALSE)!ReadMem(m, i) = ReadMem(m, i)
    BY FwftRing
  <2>3. Fwft(FALSE)!pop_data = FwftWord
    BY DEF Fwft!pop_data, FwftWord
  <2> QED
    BY <2>1, <2>2, <2>3 DEF FwftHeadInv, Fwft!HeadInv, Fwft!Count, Fwft!Stored,
                            Fwft!pop_valid, Fwft!empty
<1>2. Class!FieldsAreFresh
  <2>1. c_wr_ptr \in Ptr /\ c_rd_ptr \in Ptr
    BY DEF FifosInv, ClassStorage
  <2>2. /\ Class!Count = Distance(c_wr_ptr, c_rd_ptr)
        /\ Distance(c_wr_ptr, c_rd_ptr) \in Nat
        /\ c_rd_ptr % DEPTH = Idx(c_rd_ptr) /\ Idx(c_rd_ptr) \in Address
    BY <2>1, ClassRing DEF Class!Count
  <2>3. c_wr_ptr # c_rd_ptr => Class!Count > 0
    BY <2>1, <2>2, DistanceFacts
  <2>4. ReadMem(c_mem, Idx(c_rd_ptr)) = c_mem[c_rd_ptr % DEPTH]
    BY <2>2 DEF ReadMem
  <2>5. /\ c_design.kind = "fifo" /\ c_pop_valid =>
              c_wr_ptr # c_rd_ptr /\ c_pop_data = ReadMem(c_mem, Idx(c_rd_ptr))
        /\ c_design.kind = "lifo" /\ c_pop_valid => c_sp > 0 /\ c_pop_data = c_mem[c_sp - 1]
    BY DEF FifosInv, ClassFields
  <2> QED
    BY <2>3, <2>4, <2>5 DEF Class!FieldsAreFresh, Class!KIND
<1>3. Dual!HeadIsFresh
  <2>1. /\ a_wr_ptr \in Ptr /\ a_rd_ptr \in Ptr /\ Distance(a_wr_ptr, a_rd_ptr) <= DEPTH
        /\ a_pop_valid =>
              a_wr_ptr # a_rd_ptr /\ a_pop_data = ReadMem(a_mem, Idx(a_rd_ptr))
    BY DEF FifosInv, DualStorage, DualFields
  <2>2. /\ Dual!Distance(a_wr_ptr, a_rd_ptr) = Distance(a_wr_ptr, a_rd_ptr)
        /\ Distance(a_wr_ptr, a_rd_ptr) \in Nat
        /\ a_rd_ptr % DEPTH = Idx(a_rd_ptr) /\ Idx(a_rd_ptr) \in Address
    BY <2>1, ClassRing
  <2>3. a_wr_ptr # a_rd_ptr => Dual!Distance(a_wr_ptr, a_rd_ptr) > 0
    BY <2>1, <2>2, DistanceFacts
  <2>4. ReadMem(a_mem, Idx(a_rd_ptr)) = a_mem[a_rd_ptr % DEPTH]
    BY <2>2 DEF ReadMem
  <2> QED
    BY <2>1, <2>2, <2>3, <2>4 DEF Dual!HeadIsFresh
<1> QED
  BY <1>1, <1>2, <1>3 DEF HeadsAreFresh

(* A word offered is the one stored at the head, in the latency-1 circuit  *)
(* (bypass or RAM output register), in the fields of the C++ classes and   *)
(* in the prefetch register of the dual-clock class, for every depth.      *)
THEOREM FifosHeadsAreFresh ==
    ASSUME DepthFitsBody PROVE FifosSpec => []HeadsAreFresh
<1>1. FifosInit => FifosInv
  BY FifosInitial
<1>2. FifosInv /\ [FifosNext]_fifos_vars => FifosInv'
  BY FifosStep
<1>3. FifosInv => HeadsAreFresh
  BY FifosHeads
<1> QED
  BY <1>1, <1>2, <1>3, PTL DEF FifosSpec

(* Any sequence of eval() calls of the generated classes steps the bounded *)
(* queue once on each rising edge, the stack on each edge that does not    *)
(* push and pop at once, and the elastic queue of a dual-clock declaration.*)
THEOREM FifoClassesImplement ==
    ASSUME DepthFitsBody PROVE FifosSpec => ClassesImplement
<1>1. FifosInit => FifosInv /\ Dual!Elastic!Init
  BY FifosInitial
<1>2. FifosInv /\ [FifosNext]_fifos_vars =>
         /\ FifosInv' /\ ClassFifoStep /\ ClassLifoStep
         /\ [Dual!Elastic!Next]_(Dual!Elastic!vars)
  BY FifosStep
<1> QED
  BY <1>1, <1>2, PTL DEF FifosSpec, ClassFifoStep, ClassLifoStep, ClassesImplement,
                         Class!ImplementsQueue, Class!StackUnlessBoth,
                         Dual!ImplementsElasticQueue, Dual!Elastic!Spec
-----------------------------------------------------------------------------
(* The operations of a linked list.                                        *)

RingAt(p, i) == IF p + i < NODES THEN p + i ELSE p + i - NODES
(* The declarations whose lists keep: no operation twice; slots are handed *)
(* out by alloc only where lists count their nodes; what needs a tail or a *)
(* back link is declared with one; and a doubly linked list whose heads    *)
(* share the pool is not extended at the front.                            *)
Does(d, op) == \E i \in DOMAIN d.ops : d.ops[i] = op
Supports(d) ==
    /\ \A i, j \in DOMAIN d.ops : d.ops[i] = d.ops[j] => i = j
    /\ Does(d, "alloc") => d.heads > 1
    /\ Does(d, "insert_tail") => d.track_tail
    /\ Does(d, "insert_after") /\ d.doubly => d.track_tail
    /\ Does(d, "insert_head") /\ d.doubly => d.heads = 1
    /\ Does(d, "prev") => d.doubly
ListsSupported == \A d \in ListDecls : Supports(d)

(* The declarations that TLC checks are among those the theorems cover.    *)
LEMMA CheckedListsAreSupported == \A d \in CheckedLists : Supports(d)
<1> SUFFICES ASSUME NEW d \in CheckedLists PROVE Supports(d)
  OBVIOUS
<1>1. CASE d = [heads |-> 1, doubly |-> TRUE, track_tail |-> TRUE,
                ops |-> <<"insert_head", "insert_tail", "insert_after",
                          "delete_head", "next", "prev">>,
                DATA |-> {"a"}]
  BY <1>1 DEF Supports, Does
<1>2. CASE d = [heads |-> 2, doubly |-> FALSE, track_tail |-> TRUE,
                ops |-> <<"alloc", "free", "insert_tail", "delete_head">>, DATA |-> {"a"}]
  BY <1>2 DEF Supports, Does
<1>3. CASE d = [heads |-> 1, doubly |-> FALSE, track_tail |-> FALSE,
                ops |-> <<"insert_head", "insert_after", "delete_head", "delete",
                          "write_data", "read_data">>,
                DATA |-> {"a", "b"}]
  BY <1>3 DEF Supports, Does
<1> QED BY <1>1, <1>2, <1>3 DEF CheckedLists
-----------------------------------------------------------------------------
Nodes == 0..(NODES - 1)
HeadsOf(d) == 0..(d.heads - 1)
Structure == {"insert_head", "insert_tail", "insert_after", "delete_head", "delete"}
-----------------------------------------------------------------------------
(* Induction over data, as the absence of a least counterexample.          *)
LEMMA LeastNatural ==
    ASSUME NEW S \in SUBSET Nat, S # {}
    PROVE  \E m \in S : \A k \in S : m <= k
<1> DEFINE T == {1..n : n \in S}
           R == StrictSubsetOrdering(Nat)
<1>1. \A n \in S : 1..n \in FiniteSubsetsOf(Nat)
  BY FS_Interval DEF FiniteSubsetsOf
<1>2. T \subseteq FiniteSubsetsOf(Nat) /\ T # {}
  BY <1>1
<1>3. IsWellFoundedOn(R, FiniteSubsetsOf(Nat))
  BY FS_StrictSubsetOrderingWellFounded
<1> HIDE DEF R
<1>4. PICK x \in T : \A y \in T : <<y, x>> \notin R
  <2> HIDE DEF T
  <2> QED BY <1>2, <1>3, WFMin
<1>5. PICK m \in S : x = 1..m
  OBVIOUS
<1>6. ASSUME NEW k \in S, ~(m <= k) PROVE FALSE
  <2>1. 1..k \subseteq 1..m /\ m \in 1..m /\ m \notin 1..k
    BY <1>6
  <2>2. <<1..k, 1..m>> \in R
    BY <2>1 DEF R, StrictSubsetOrdering
  <2> QED BY <1>4, <1>5, <2>2
<1> QED BY <1>6

(* A set of positions has a largest one, and Max returns it.               *)
LEMMA Largest ==
    ASSUME NEW n \in Nat, NEW t \in SUBSET (1..n), t # {}
    PROVE  List!Max(t) \in t /\ \A i \in t : i <= List!Max(t)
<1> DEFINE S == {n - i : i \in t}
<1>1. S \in SUBSET Nat /\ S # {}
  <2>1. \A i \in t : n - i \in Nat
    OBVIOUS
  <2>2. PICK i \in t : TRUE
    OBVIOUS
  <2>3. n - i \in S
    OBVIOUS
  <2> QED BY <2>1, <2>3
<1>2. PICK m \in S : \A k \in S : m <= k
  BY <1>1, LeastNatural
<1>3. PICK i \in t : m = n - i
  OBVIOUS
<1>4. \A j \in t : i >= j
  <2> TAKE j \in t
  <2>1. n - j \in S
    OBVIOUS
  <2> QED BY <2>1, <1>2, <1>3
<1>5. \E x \in t : \A y \in t : x >= y
  BY <1>4
<1>6. List!Max(t) = CHOOSE x \in t : \A y \in t : x >= y
  BY DEF List!Max
<1> HIDE DEF S
<1>7. List!Max(t) \in t /\ \A y \in t : List!Max(t) >= y
  BY <1>5, <1>6
<1> QED BY <1>7

(* The function FoldLeft recurs through, over the positions of the         *)
(* controllers.                                                            *)
RunEq(g, r, s) ==
    g = [t \in SUBSET DOMAIN n_decl.ops |->
            IF t = {} THEN List!PulsesEnded(s)
            ELSE List!Controller(n_decl.ops[List!Max(t)], r, s, g[t \ {List!Max(t)}])]
SimEq(g, r, s) ==
    g = [t \in SUBSET DOMAIN n_decl.ops |->
            IF t = {} THEN List!PulsesEnded(s)
            ELSE List!SimController(n_decl.ops[List!Max(t)], r, g[t \ {List!Max(t)}])]

(* An edge of the circuit runs the controllers in their order.             *)
LEMMA ClockedIsRun ==
    ASSUME NEW r, NEW s
    PROVE  List!Clocked(r, s) = (CHOOSE g : RunEq(g, r, s))[DOMAIN n_decl.ops]
BY DEF List!Clocked, List!FoldLeft, List!MapThenFoldSet, RunEq

(* So does a call of the generated class.                                  *)
LEMMA SimIsRun ==
    ASSUME NEW r, NEW s
    PROVE  List!eval_posedge(r, s) = (CHOOSE g : SimEq(g, r, s))[DOMAIN n_decl.ops]
BY DEF List!eval_posedge, List!FoldLeft, List!MapThenFoldSet, SimEq

(* A set of sets of positions has one without a smaller one in it.         *)
LEMMA SmallestSet ==
    ASSUME NEW n \in Nat, NEW S, S # {}, \A t \in S : t \subseteq 1..n
    PROVE  \E t \in S : \A u \in S : u \subseteq t => u = t
<1> DEFINE R == StrictSubsetOrdering(1..n)
<1>1. FiniteSubsetsOf(1..n) = SUBSET (1..n)
  BY FS_Interval, FS_FiniteSubsetsOfFinite
<1>2. IsWellFoundedOn(R, FiniteSubsetsOf(1..n))
  BY FS_StrictSubsetOrderingWellFounded
<1> HIDE DEF R
<1>3. PICK t \in S : \A u \in S : <<u, t>> \notin R
  BY <1>1, <1>2, WFMin
<1>4. ASSUME NEW u \in S, u \subseteq t PROVE u = t
  BY <1>3, <1>4 DEF R, StrictSubsetOrdering
<1> QED BY <1>4

(* The equation of an edge has one solution.                               *)
LEMMA RunIsUnique ==
    ASSUME NEW r, NEW s, NEW n \in Nat, DOMAIN n_decl.ops = 1..n, NEW f, NEW g,
           RunEq(f, r, s), RunEq(g, r, s)
    PROVE  f = g
<1> DEFINE S == {t \in SUBSET (1..n) : f[t] # g[t]}
<1>1. ASSUME S # {} PROVE FALSE
  <2>1. PICK t \in S : \A u \in S : u \subseteq t => u = t
    <3>1. \A t \in S : t \subseteq 1..n
      OBVIOUS
    <3> HIDE DEF S
    <3> QED BY <1>1, <3>1, SmallestSet
  <2>2. t \in SUBSET (1..n) /\ f[t] # g[t]
    OBVIOUS
  <2>3. t # {}
    BY <2>2 DEF RunEq
  <2> DEFINE m == List!Max(t)
  <2>4. m \in t
    BY <2>2, <2>3, Largest
  <2> HIDE DEF m
  <2>5. t \ {m} \in SUBSET (1..n) /\ t \ {m} # t
    BY <2>2, <2>4
  <2>6. f[t \ {m}] = g[t \ {m}]
    BY <2>1, <2>5
  <2>7. f[t] = g[t]
    BY <2>2, <2>3, <2>6 DEF RunEq, m
  <2> QED BY <2>2, <2>7
<1>2. \A t \in SUBSET (1..n) : f[t] = g[t]
  BY <1>1
<1> QED BY <1>2 DEF RunEq

(* The equation of a call has one solution.                                *)
LEMMA SimRunIsUnique ==
    ASSUME NEW r, NEW s, NEW n \in Nat, DOMAIN n_decl.ops = 1..n, NEW f, NEW g,
           SimEq(f, r, s), SimEq(g, r, s)
    PROVE  f = g
<1> DEFINE S == {t \in SUBSET (1..n) : f[t] # g[t]}
<1>1. ASSUME S # {} PROVE FALSE
  <2>1. PICK t \in S : \A u \in S : u \subseteq t => u = t
    <3>1. \A t \in S : t \subseteq 1..n
      OBVIOUS
    <3> HIDE DEF S
    <3> QED BY <1>1, <3>1, SmallestSet
  <2>2. t \in SUBSET (1..n) /\ f[t] # g[t]
    OBVIOUS
  <2>3. t # {}
    BY <2>2 DEF SimEq
  <2> DEFINE m == List!Max(t)
  <2>4. m \in t
    BY <2>2, <2>3, Largest
  <2> HIDE DEF m
  <2>5. t \ {m} \in SUBSET (1..n) /\ t \ {m} # t
    BY <2>2, <2>4
  <2>6. f[t \ {m}] = g[t \ {m}]
    BY <2>1, <2>5
  <2>7. f[t] = g[t]
    BY <2>2, <2>3, <2>6 DEF SimEq, m
  <2> QED BY <2>2, <2>7
<1>2. \A t \in SUBSET (1..n) : f[t] = g[t]
  BY <1>1
<1> QED BY <1>2 DEF SimEq

(* One controller, where the declaration has it.                           *)
Ran(t, op, r, s, x) ==
    IF \E i \in t : n_decl.ops[i] = op THEN List!Controller(op, r, s, x) ELSE x
SimRan(t, op, r, x) ==
    IF \E i \in t : n_decl.ops[i] = op THEN List!SimController(op, r, x) ELSE x

(* Of the controllers at most two do anything: that of the request and     *)
(* that of the operation under way.                                        *)
LEMMA ClockedIs ==
    ASSUME NEW r, NEW s, NEW b, NEW n \in Nat, DOMAIN n_decl.ops = 1..n,
           \A i, j \in DOMAIN n_decl.ops : n_decl.ops[i] = n_decl.ops[j] => i = j,
           \A i \in DOMAIN n_decl.ops : n_decl.ops[i] \notin {r.op, b} =>
               \A x : List!Controller(n_decl.ops[i], r, s, x) = x,
           r.op = b => \A i \in DOMAIN n_decl.ops : n_decl.ops[i] # b
    PROVE  LET P == DOMAIN n_decl.ops
           IN  \/ List!Clocked(r, s) = Ran(P, b, r, s, Ran(P, r.op, r, s, List!PulsesEnded(s)))
               \/ List!Clocked(r, s) = Ran(P, r.op, r, s, Ran(P, b, r, s, List!PulsesEnded(s)))
<1> DEFINE base == List!PulsesEnded(s)
           ordered == \A i, j \in 1..n : n_decl.ops[i] = r.op /\ n_decl.ops[j] = b => i < j
           G(t) == IF ordered THEN Ran(t, b, r, s, Ran(t, r.op, r, s, base))
                   ELSE Ran(t, r.op, r, s, Ran(t, b, r, s, base))
           g == [t \in SUBSET (1..n) |-> G(t)]
<1>1. ASSUME NEW t \in SUBSET (1..n), t # {}
      PROVE  G(t) = List!Controller(n_decl.ops[List!Max(t)], r, s, G(t \ {List!Max(t)}))
  <2> DEFINE m == List!Max(t)
             u == t \ {m}
  <2>1. m \in t /\ \A i \in t : i <= m
    BY <1>1, Largest
  <2> HIDE DEF m
  <2>2. CASE n_decl.ops[m] \notin {r.op, b}
    <3>1. \A x : Ran(t, b, r, s, x) = Ran(u, b, r, s, x) /\ Ran(t, r.op, r, s, x) = Ran(u, r.op, r, s, x)
      BY <2>1, <2>2 DEF Ran
    <3>2. G(t) = G(u)
      BY <3>1
    <3>3. \A x : List!Controller(n_decl.ops[m], r, s, x) = x
      BY <2>1, <2>2
    <3> HIDE DEF G, u
    <3> QED BY <3>2, <3>3 DEF m, u
  <2>3. CASE n_decl.ops[m] = b
    <3>1. r.op # b
      BY <2>1, <2>3
    <3>2. \A i \in u : n_decl.ops[i] # b
      BY <2>1, <2>3
    <3>3. \A x : Ran(t, r.op, r, s, x) = Ran(u, r.op, r, s, x) /\ Ran(u, b, r, s, x) = x
                 /\ Ran(t, b, r, s, x) = List!Controller(b, r, s, x)
      BY <2>1, <2>3, <3>1, <3>2 DEF Ran
    <3>4. CASE ordered
      <4>1. G(t) = List!Controller(b, r, s, Ran(u, r.op, r, s, base))
        <5> HIDE DEF u, base, ordered
        <5> QED BY <3>3, <3>4
      <4>2. G(u) = Ran(u, r.op, r, s, base)
        <5> HIDE DEF u, base, ordered
        <5> QED BY <3>3, <3>4
      <4> HIDE DEF G
      <4> QED BY <4>1, <4>2, <2>3 DEF m
    <3>5. CASE ~ordered
      <4>1. PICK i \in 1..n, j \in 1..n : n_decl.ops[i] = r.op /\ n_decl.ops[j] = b /\ ~(i < j)
        BY <3>5
      <4>2. j = m
        BY <4>1, <2>1, <2>3
      <4>3. \A k \in t : n_decl.ops[k] # r.op
        BY <4>1, <4>2, <2>1, <2>3, <3>1
      <4>4. \A x : Ran(t, r.op, r, s, x) = x /\ Ran(u, r.op, r, s, x) = x
        BY <4>3 DEF Ran
      <4>5. G(t) = List!Controller(b, r, s, base) /\ G(u) = base
        <5> HIDE DEF u, base, ordered
        <5> QED BY <3>3, <3>5, <4>4
      <4> HIDE DEF G
      <4> QED BY <4>5, <2>3 DEF m
    <3> QED BY <3>4, <3>5
  <2>4. CASE n_decl.ops[m] = r.op /\ r.op # b
    <3>2. \A i \in u : n_decl.ops[i] # r.op
      BY <2>1, <2>4
    <3>3. \A x : Ran(t, b, r, s, x) = Ran(u, b, r, s, x) /\ Ran(u, r.op, r, s, x) = x
                 /\ Ran(t, r.op, r, s, x) = List!Controller(r.op, r, s, x)
      BY <2>1, <2>4, <3>2 DEF Ran
    <3>4. CASE ~ordered
      <4>1. G(t) = List!Controller(r.op, r, s, Ran(u, b, r, s, base))
        <5> HIDE DEF u, base, ordered
        <5> QED BY <3>3, <3>4
      <4>2. G(u) = Ran(u, b, r, s, base)
        <5> HIDE DEF u, base, ordered
        <5> QED BY <3>3, <3>4
      <4> HIDE DEF G
      <4> QED BY <4>1, <4>2, <2>4 DEF m
    <3>5. CASE ordered
      <4>3. ASSUME NEW k \in t, n_decl.ops[k] = b PROVE FALSE
        <5>1. k \in 1..n /\ m \in 1..n
          BY <2>1
        <5>2. m < k
          BY <3>5, <5>1, <4>3, <2>4
        <5> QED BY <5>1, <5>2, <2>1
      <4>4. \A x : Ran(t, b, r, s, x) = x /\ Ran(u, b, r, s, x) = x
        BY <4>3 DEF Ran
      <4>5. G(t) = List!Controller(r.op, r, s, base) /\ G(u) = base
        <5> HIDE DEF u, base, ordered
        <5> QED BY <3>3, <3>5, <4>4
      <4> HIDE DEF G
      <4> QED BY <4>5, <2>4 DEF m
    <3> QED BY <3>4, <3>5
  <2> QED BY <2>2, <2>3, <2>4 DEF m
<1>2. G({}) = base
  BY DEF Ran
<1>3. RunEq(g, r, s)
  <2>1. ASSUME NEW t \in SUBSET (1..n)
        PROVE  g[t] = IF t = {} THEN base
                      ELSE List!Controller(n_decl.ops[List!Max(t)], r, s, g[t \ {List!Max(t)}])
    <3>1. t \ {List!Max(t)} \in SUBSET (1..n)
      OBVIOUS
    <3>2. g[t] = G(t) /\ g[t \ {List!Max(t)}] = G(t \ {List!Max(t)})
      BY <3>1
    <3> HIDE DEF g, G, base
    <3> QED BY <3>2, <1>1, <1>2
  <2>2. g = [t \in SUBSET (1..n) |-> g[t]]
    OBVIOUS
  <2>3. g = [t \in SUBSET (1..n) |->
               IF t = {} THEN base
               ELSE List!Controller(n_decl.ops[List!Max(t)], r, s, g[t \ {List!Max(t)}])]
    <3> HIDE DEF g, base
    <3> QED BY <2>1, <2>2
  <2> HIDE DEF g
  <2> QED BY <2>3 DEF RunEq
<1>4. (CHOOSE f : RunEq(f, r, s)) = g
  <2> HIDE DEF g
  <2>1. RunEq(CHOOSE f : RunEq(f, r, s), r, s)
    BY <1>3
  <2> QED BY <2>1, <1>3, RunIsUnique
<1>5. List!Clocked(r, s) = g[1..n]
  <2> HIDE DEF g
  <2> QED BY <1>4, ClockedIsRun
<1>6. g[1..n] = G(1..n)
  OBVIOUS
<1> HIDE DEF g
<1> QED BY <1>5, <1>6

(* The same of the class, which passes the registers on.                   *)
LEMMA SimClockedIs ==
    ASSUME NEW r, NEW s, NEW b, NEW n \in Nat, DOMAIN n_decl.ops = 1..n,
           \A i, j \in DOMAIN n_decl.ops : n_decl.ops[i] = n_decl.ops[j] => i = j,
           \A i \in DOMAIN n_decl.ops : n_decl.ops[i] \notin {r.op, b} =>
               LET base == List!PulsesEnded(s)
                   R(x) == SimRan(DOMAIN n_decl.ops, r.op, r, x)
                   B(x) == SimRan(DOMAIN n_decl.ops, b, r, x)
               IN  \A x \in {base, R(base), B(base), R(B(base)), B(R(base))} :
                       List!SimController(n_decl.ops[i], r, x) = x,
           r.op = b => \A i \in DOMAIN n_decl.ops : n_decl.ops[i] # b
    PROVE  LET P == DOMAIN n_decl.ops
           IN  \/ List!eval_posedge(r, s) = SimRan(P, b, r, SimRan(P, r.op, r, List!PulsesEnded(s)))
               \/ List!eval_posedge(r, s) = SimRan(P, r.op, r, SimRan(P, b, r, List!PulsesEnded(s)))
<1> DEFINE base == List!PulsesEnded(s)
           ordered == \A i, j \in 1..n : n_decl.ops[i] = r.op /\ n_decl.ops[j] = b => i < j
           G(t) == IF ordered THEN SimRan(t, b, r, SimRan(t, r.op, r, base))
                   ELSE SimRan(t, r.op, r, SimRan(t, b, r, base))
           g == [t \in SUBSET (1..n) |-> G(t)]
<1>1. ASSUME NEW t \in SUBSET (1..n), t # {}
      PROVE  G(t) = List!SimController(n_decl.ops[List!Max(t)], r, G(t \ {List!Max(t)}))
  <2> DEFINE m == List!Max(t)
             u == t \ {m}
  <2>1. m \in t /\ \A i \in t : i <= m
    BY <1>1, Largest
  <2> HIDE DEF m
  <2>2. CASE n_decl.ops[m] \notin {r.op, b}
    <3>1. \A x : SimRan(t, b, r, x) = SimRan(u, b, r, x) /\ SimRan(t, r.op, r, x) = SimRan(u, r.op, r, x)
      BY <2>1, <2>2 DEF SimRan
    <3>2. G(t) = G(u)
      BY <3>1
    <3>3. List!SimController(n_decl.ops[m], r, G(u)) = G(u)
      <4> DEFINE R(x) == SimRan(DOMAIN n_decl.ops, r.op, r, x)
                 B(x) == SimRan(DOMAIN n_decl.ops, b, r, x)
      <4>1. \A x : SimRan(u, b, r, x) \in {x, B(x)} /\ SimRan(u, r.op, r, x) \in {x, R(x)}
        BY DEF SimRan
      <4>2. \A x \in {base, R(base), B(base), R(B(base)), B(R(base))} :
                List!SimController(n_decl.ops[m], r, x) = x
        BY <2>1, <2>2
      <4>3. G(u) \in {base, R(base), B(base), R(B(base)), B(R(base))}
        <5> HIDE DEF base, u, ordered, R, B
        <5>1. CASE ordered
          BY <4>1, <5>1
        <5>2. CASE ~ordered
          BY <4>1, <5>2
        <5> QED BY <5>1, <5>2
      <4> HIDE DEF G
      <4> QED BY <4>2, <4>3
    <3> HIDE DEF G, u
    <3> QED BY <3>2, <3>3 DEF m, u
  <2>3. CASE n_decl.ops[m] = b
    <3>1. r.op # b
      BY <2>1, <2>3
    <3>2. \A i \in u : n_decl.ops[i] # b
      BY <2>1, <2>3
    <3>3. \A x : SimRan(t, r.op, r, x) = SimRan(u, r.op, r, x) /\ SimRan(u, b, r, x) = x
                 /\ SimRan(t, b, r, x) = List!SimController(b, r, x)
      BY <2>1, <2>3, <3>1, <3>2 DEF SimRan
    <3>4. CASE ordered
      <4>1. G(t) = List!SimController(b, r, SimRan(u, r.op, r, base))
        <5> HIDE DEF u, base, ordered
        <5> QED BY <3>3, <3>4
      <4>2. G(u) = SimRan(u, r.op, r, base)
        <5> HIDE DEF u, base, ordered
        <5> QED BY <3>3, <3>4
      <4> HIDE DEF G
      <4> QED BY <4>1, <4>2, <2>3 DEF m
    <3>5. CASE ~ordered
      <4>1. PICK i \in 1..n, j \in 1..n : n_decl.ops[i] = r.op /\ n_decl.ops[j] = b /\ ~(i < j)
        BY <3>5
      <4>2. j = m
        BY <4>1, <2>1, <2>3
      <4>3. \A k \in t : n_decl.ops[k] # r.op
        BY <4>1, <4>2, <2>1, <2>3, <3>1
      <4>4. \A x : SimRan(t, r.op, r, x) = x /\ SimRan(u, r.op, r, x) = x
        BY <4>3 DEF SimRan
      <4>5. G(t) = List!SimController(b, r, base) /\ G(u) = base
        <5> HIDE DEF u, base, ordered
        <5> QED BY <3>3, <3>5, <4>4
      <4> HIDE DEF G
      <4> QED BY <4>5, <2>3 DEF m
    <3> QED BY <3>4, <3>5
  <2>4. CASE n_decl.ops[m] = r.op /\ r.op # b
    <3>2. \A i \in u : n_decl.ops[i] # r.op
      BY <2>1, <2>4
    <3>3. \A x : SimRan(t, b, r, x) = SimRan(u, b, r, x) /\ SimRan(u, r.op, r, x) = x
                 /\ SimRan(t, r.op, r, x) = List!SimController(r.op, r, x)
      BY <2>1, <2>4, <3>2 DEF SimRan
    <3>4. CASE ~ordered
      <4>1. G(t) = List!SimController(r.op, r, SimRan(u, b, r, base))
        <5> HIDE DEF u, base, ordered
        <5> QED BY <3>3, <3>4
      <4>2. G(u) = SimRan(u, b, r, base)
        <5> HIDE DEF u, base, ordered
        <5> QED BY <3>3, <3>4
      <4> HIDE DEF G
      <4> QED BY <4>1, <4>2, <2>4 DEF m
    <3>5. CASE ordered
      <4>3. ASSUME NEW k \in t, n_decl.ops[k] = b PROVE FALSE
        <5>1. k \in 1..n /\ m \in 1..n
          BY <2>1
        <5>2. m < k
          BY <3>5, <5>1, <4>3, <2>4
        <5> QED BY <5>1, <5>2, <2>1
      <4>4. \A x : SimRan(t, b, r, x) = x /\ SimRan(u, b, r, x) = x
        BY <4>3 DEF SimRan
      <4>5. G(t) = List!SimController(r.op, r, base) /\ G(u) = base
        <5> HIDE DEF u, base, ordered
        <5> QED BY <3>3, <3>5, <4>4
      <4> HIDE DEF G
      <4> QED BY <4>5, <2>4 DEF m
    <3> QED BY <3>4, <3>5
  <2> QED BY <2>2, <2>3, <2>4 DEF m
<1>2. G({}) = base
  BY DEF SimRan
<1>3. SimEq(g, r, s)
  <2>1. ASSUME NEW t \in SUBSET (1..n)
        PROVE  g[t] = IF t = {} THEN base
                      ELSE List!SimController(n_decl.ops[List!Max(t)], r, g[t \ {List!Max(t)}])
    <3>1. t \ {List!Max(t)} \in SUBSET (1..n)
      OBVIOUS
    <3>2. g[t] = G(t) /\ g[t \ {List!Max(t)}] = G(t \ {List!Max(t)})
      BY <3>1
    <3> HIDE DEF g, G, base
    <3> QED BY <3>2, <1>1, <1>2
  <2>2. g = [t \in SUBSET (1..n) |-> g[t]]
    OBVIOUS
  <2>3. g = [t \in SUBSET (1..n) |->
               IF t = {} THEN base
               ELSE List!SimController(n_decl.ops[List!Max(t)], r, g[t \ {List!Max(t)}])]
    <3> HIDE DEF g, base
    <3> QED BY <2>1, <2>2
  <2> HIDE DEF g
  <2> QED BY <2>3 DEF SimEq
<1>4. (CHOOSE f : SimEq(f, r, s)) = g
  <2> HIDE DEF g
  <2>1. SimEq(CHOOSE f : SimEq(f, r, s), r, s)
    BY <1>3
  <2> QED BY <2>1, <1>3, SimRunIsUnique
<1>5. List!eval_posedge(r, s) = g[1..n]
  <2> HIDE DEF g
  <2> QED BY <1>4, SimIsRun
<1>6. g[1..n] = G(1..n)
  OBVIOUS
<1> HIDE DEF g
<1> QED BY <1>5, <1>6

(* Pointers count modulo NODE_RANGE, a multiple of NODES, and index the    *)
(* memory by their low bits.                                               *)
LEMMA ModIs ==
    ASSUME NEW a \in Int, NEW q \in Int, NEW n \in Nat \ {0}, NEW m \in 0..(n - 1), a = q * n + m
    PROVE  a % n = m
BY SMT

(* Division with remainder.                                                *)
LEMMA Quotient ==
    ASSUME NEW a \in Nat, NEW n \in Nat \ {0}
    PROVE  /\ a % n \in 0..(n - 1)
           /\ \E q \in Nat, m \in 0..(n - 1) : a = q * n + m /\ a % n = m
<1> DEFINE S == {m \in Nat : \E q \in Nat : a = q * n + m}
<1>1. a \in S
  <2>1. a = 0 * n + a
    OBVIOUS
  <2> QED BY <2>1
<1>2. PICK m \in S : \A k \in S : m <= k
  <2>1. S \in SUBSET Nat /\ S # {}
    BY <1>1
  <2> HIDE DEF S
  <2> QED BY <2>1, LeastNatural
<1>3. PICK q \in Nat : a = q * n + m
  OBVIOUS
<1>4. m \in Nat
  OBVIOUS
<1>5. m < n
  <2> SUFFICES ASSUME ~(m < n) PROVE FALSE
    OBVIOUS
  <2>1. m - n \in Nat
    BY <1>4
  <2>2. a = (q + 1) * n + (m - n)
    BY <1>3, <1>4
  <2>3. m - n \in S
    BY <2>1, <2>2
  <2> HIDE DEF S
  <2> QED BY <2>3, <1>2, <1>4
<1>6. m \in 0..(n - 1)
  BY <1>4, <1>5
<1>7. a % n = m
  BY <1>3, <1>6, ModIs
<1> HIDE DEF S
<1> QED BY <1>3, <1>6, <1>7

(* The remainder of a sum with at most one turn of the ring.               *)
LEMMA ModOfSum ==
    ASSUME NEW n \in Nat \ {0}, NEW a \in Nat, NEW i \in 0..n
    PROVE  (a + i) % n = IF (a % n) + i < n THEN (a % n) + i ELSE (a % n) + i - n
<1>1. PICK q \in Nat, m \in 0..(n - 1) : a = q * n + m /\ a % n = m
  BY Quotient
<1>2. a % n = m
  BY <1>1
<1>3. a = q * n + m
  BY <1>1
<1> DEFINE c == a + i
<1>4. CASE m + i < n
  <2> DEFINE e == m + i
  <2>1. c = q * n + e /\ e \in 0..(n - 1) /\ c \in Nat
    BY <1>3, <1>4
  <2> HIDE DEF c, e
  <2>2. c % n = e
    BY <2>1, ModIs
  <2> QED BY <1>2, <1>4, <2>2 DEF c, e
<1>5. CASE ~(m + i < n)
  <2> DEFINE e == m + i - n
             w == q + 1
  <2>1. c = w * n + e
    BY <1>3
  <2>2. e \in 0..(n - 1) /\ c \in Nat /\ w \in Nat
    BY <1>5
  <2> HIDE DEF c, e, w
  <2>3. c % n = e
    BY <2>1, <2>2, ModIs
  <2> QED BY <1>2, <1>5, <2>3 DEF c, e
<1> QED BY <1>4, <1>5

(* The constants of the pool and the fields of a declaration.              *)
LEMMA PoolAssumption ==
    /\ NODES \in Nat \ {0} /\ NODE_RANGE \in Nat /\ NODE_RANGE > NODES
    /\ NODE_RANGE % NODES = 0 /\ REQUESTS \in Nat
    /\ \A d \in ListDecls :
          /\ d.heads \in Nat \ {0} /\ d.doubly \in BOOLEAN /\ d.track_tail \in BOOLEAN
          /\ d.ops \in Seq(List!Operations) /\ NoData \notin d.DATA
BY ListsWellFormed DEF List!WellFormed

Pointers == 0..(NODE_RANGE - 1)

(* A pointer of the free list moves one slot, whichever turn it is in.     *)
LEMMA NextPointer ==
    ASSUME NEW p \in Pointers
    PROVE  /\ List!Up(p) \in Pointers /\ p % NODES \in Nodes
           /\ List!Up(p) % NODES = RingAt(p % NODES, 1)
<1> DEFINE n == NODES
           k == NODE_RANGE
           m == p % n
<1>1. n \in Nat \ {0} /\ k \in Nat /\ k > n /\ k % n = 0 /\ p \in 0..(k - 1)
  BY PoolAssumption DEF Pointers
<1>2. p \in Nat /\ p + 1 \in Nat
  BY <1>1
<1> HIDE DEF n, k
<1>4. m \in 0..(n - 1)
  BY <1>1, <1>2, Quotient
<1>6. (p + 1) % n = IF m + 1 < n THEN m + 1 ELSE m + 1 - n
  <2>1. 1 \in 0..n
    BY <1>1
  <2>2. (p + 1) % n = IF (p % n) + 1 < n THEN (p % n) + 1 ELSE (p % n) + 1 - n
    BY <1>1, <1>2, <2>1, ModOfSum
  <2> QED BY <2>2, Zenon
<1> HIDE DEF m
<1>7. CASE p + 1 < k
  <2>1. (p + 1) % k = p + 1
    BY <1>1, <1>7
  <2> QED BY <1>4, <1>6, <2>1, <1>1, <1>7 DEF List!Up, RingAt, Nodes, Pointers, n, k, m
<1>8. CASE p + 1 = k
  <2>1. (p + 1) % k = 0
    BY <1>1, <1>8, <1>2
  <2>2. (p + 1) % n = 0 /\ 0 % n = 0
    BY <1>1, <1>8
  <2> QED BY <1>4, <1>6, <2>1, <2>2, <1>1 DEF List!Up, RingAt, Nodes, Pointers, n, k, m
<1> QED BY <1>1, <1>7, <1>8

(* Counts within the pool neither wrap nor borrow.                         *)
LEMMA NextCount ==
    ASSUME NEW c \in 0..NODES
    PROVE  /\ c < NODES => List!Up(c) = c + 1
           /\ c # 0 => List!Down(c) = c - 1
<1> DEFINE k == NODE_RANGE
<1>1. k \in Nat /\ k > NODES /\ NODES \in Nat /\ c \in Nat /\ c <= NODES
  BY PoolAssumption
<1> HIDE DEF k
<1>2. c < NODES => (c + 1) % k = c + 1
  BY <1>1
<1>3. c # 0 => (c + k - 1) % k = c - 1
  <2>1. c + k - 1 = 1 * k + (c - 1)
    BY <1>1
  <2>2. c # 0 => c - 1 \in 0..(k - 1)
    BY <1>1
  <2> QED BY <2>1, <2>2, <1>1, ModIs
<1> QED BY <1>2, <1>3 DEF List!Up, List!Down, k

(* The model's index of the i-th free slot.                                *)
LEMMA RingIndex ==
    ASSUME NEW p \in Pointers, NEW i \in 0..NODES
    PROVE  (p + i) % NODES = RingAt(p % NODES, i)
<1>1. NODES \in Nat \ {0} /\ p \in Nat
  BY PoolAssumption DEF Pointers
<1> QED BY <1>1, ModOfSum DEF RingAt

(* What the registers are made of.                                         *)
Fields == {"fl_mem", "fl_rdp", "fl_wrp", "fl_cnt", "data", "next", "prev", "head", "tail",
           "length", "ctl"}
Shaped(s) == s = [f \in Fields |-> s[f]]

(* Registers with the same fields are the same.                            *)
LEMMA SameRegisters ==
    ASSUME NEW x, NEW y, Shaped(x), Shaped(y), x.fl_mem = y.fl_mem, x.fl_rdp = y.fl_rdp,
           x.fl_wrp = y.fl_wrp, x.fl_cnt = y.fl_cnt, x.data = y.data, x.next = y.next,
           x.prev = y.prev, x.head = y.head, x.tail = y.tail, x.length = y.length, x.ctl = y.ctl
    PROVE  x = y
<1>1. \A f \in Fields : x[f] = y[f]
  BY DEF Fields
<1> QED BY <1>1 DEF Shaped

(* A record of all registers has their shape.                              *)
LEMMA LiteralIsShaped ==
    \A a, b, c, d, e, f, g, h, i, j, k :
        Shaped([fl_mem |-> a, fl_rdp |-> b, fl_wrp |-> c, fl_cnt |-> d, data |-> e, next |-> f,
                prev |-> g, head |-> h, tail |-> i, length |-> j, ctl |-> k])
BY DEF Shaped, Fields

WithTail(s, u) ==
    [fl_mem |-> s.fl_mem, fl_rdp |-> s.fl_rdp, fl_wrp |-> s.fl_wrp, fl_cnt |-> s.fl_cnt,
     data |-> s.data, next |-> s.next, prev |-> s.prev, head |-> s.head,
     tail |-> u, length |-> s.length, ctl |-> s.ctl]

Deletions == {"delete_head", "delete"}
Takes(s, r) == r.op \in List!Insertions \cup {"alloc"} /\ s.fl_cnt # 0

(* What the controller of the request holds after the edge.                *)
Latch(s, r) ==
    CASE r.op \in List!Insertions ->
             IF s.fl_cnt = 0 THEN List!Idle
             ELSE [phase |-> "busy", handle |-> List!Slot(s), head |-> r.head,
                   was_empty |-> List!IsEmpty(s, r.head),
                   after |-> IF r.op = "insert_after" THEN r.handle ELSE 0]
      [] r.op = "delete_head" ->
             IF List!IsEmpty(s, r.head) THEN List!Idle
             ELSE [phase |-> "busy", handle |-> s.head[r.head], head |-> r.head]
      [] r.op = "delete" -> [phase |-> "busy", handle |-> r.handle, head |-> r.head]
      [] r.op = "alloc" -> IF s.fl_cnt = 0 THEN List!Idle ELSE List!Answers(List!Slot(s))
      [] r.op = "write_data" -> List!Answers(r.handle)
      [] r.op \in List!Reads -> List!Answers(List!Read(r.op, r.handle, s))
      [] OTHER -> List!Idle

(* The registers after a request while no operation is under way.          *)
Accepted(s, r) ==
    [fl_mem |-> IF r.op = "free" THEN [s.fl_mem EXCEPT ![s.fl_wrp % NODES] = r.handle] ELSE s.fl_mem,
     fl_rdp |-> IF Takes(s, r) THEN List!Up(s.fl_rdp) ELSE s.fl_rdp,
     fl_wrp |-> IF r.op = "free" THEN List!Up(s.fl_wrp) ELSE s.fl_wrp,
     fl_cnt |-> IF Takes(s, r) THEN s.fl_cnt - 1
                ELSE IF r.op = "free" THEN s.fl_cnt + 1 ELSE s.fl_cnt,
     data |-> IF Takes(s, r) /\ r.op # "alloc" THEN [s.data EXCEPT ![List!Slot(s)] = r.data]
              ELSE IF r.op = "write_data" THEN [s.data EXCEPT ![r.handle] = r.data] ELSE s.data,
     next |-> IF Takes(s, r) /\ r.op = "insert_after"
              THEN [s.next EXCEPT ![List!Slot(s)] = s.next[r.handle]] ELSE s.next,
     prev |-> s.prev, head |-> s.head, tail |-> s.tail, length |-> s.length,
     ctl |-> [op \in List!Operations |-> IF op = r.op THEN Latch(s, r) ELSE List!Idle]]

(* The registers after the edge that ends the operation b under way, with  *)
(* the words and controllers that edge leaves.                             *)
Finished(d, s, b, words, controllers) ==
    LET c == s.ctl[b]
        h == c.head
        x == c.handle
    IN
    [fl_mem |-> IF b \in Deletions THEN [s.fl_mem EXCEPT ![s.fl_wrp % NODES] = x] ELSE s.fl_mem,
     fl_rdp |-> s.fl_rdp,
     fl_wrp |-> IF b \in Deletions THEN List!Up(s.fl_wrp) ELSE s.fl_wrp,
     fl_cnt |-> IF b \in Deletions THEN s.fl_cnt + 1 ELSE s.fl_cnt,
     data |-> words,
     next |-> IF b = "insert_head" THEN [s.next EXCEPT ![x] = s.head[h]]
              ELSE IF b = "insert_tail" /\ ~c.was_empty THEN [s.next EXCEPT ![s.tail[h]] = x]
              ELSE IF b = "insert_after" THEN [s.next EXCEPT ![c.after] = x]
              ELSE s.next,
     prev |-> IF ~d.doubly THEN s.prev
              ELSE IF b = "insert_head" THEN [s.prev EXCEPT ![s.head[h]] = x]
              ELSE IF b = "insert_tail" THEN [s.prev EXCEPT ![x] = s.tail[h]]
              ELSE IF b = "insert_after" THEN [s.prev EXCEPT ![x] = c.after, ![s.next[x]] = x]
              ELSE s.prev,
     head |-> IF b = "insert_head" \/ (b = "insert_tail" /\ c.was_empty)
              THEN [s.head EXCEPT ![h] = x]
              ELSE IF b = "delete_head" THEN [s.head EXCEPT ![h] = s.next[x]]
              ELSE s.head,
     tail |-> IF d.track_tail /\ (b = "insert_tail" \/ (b = "insert_head" /\ c.was_empty))
              THEN [s.tail EXCEPT ![h] = x] ELSE s.tail,
     length |-> IF d.heads = 1 THEN s.length
                ELSE IF b \in Deletions THEN [s.length EXCEPT ![h] = s.length[h] - 1]
                ELSE [s.length EXCEPT ![h] = s.length[h] + 1],
     ctl |-> controllers]

-----------------------------------------------------------------------------
(* The clear of the answers.                                               *)
Quieted(s) == [op \in List!Operations |-> IF List!Busy(op, s) THEN s.ctl[op] ELSE List!Idle]
With(s, words, controllers) ==
    [fl_mem |-> s.fl_mem, fl_rdp |-> s.fl_rdp, fl_wrp |-> s.fl_wrp, fl_cnt |-> s.fl_cnt,
     data |-> words, next |-> s.next, prev |-> s.prev, head |-> s.head,
     tail |-> s.tail, length |-> s.length, ctl |-> controllers]

(* What an edge starts from: the registers with last answers withdrawn.    *)
LEMMA BaseIs ==
    ASSUME NEW s, Shaped(s)
    PROVE  List!PulsesEnded(s) = With(s, s.data, Quieted(s))
<1> DEFINE x == List!PulsesEnded(s)
           y == With(s, s.data, Quieted(s))
<1>1. Shaped(y)
  BY DEF Shaped, Fields, With
<1>2. x = [s EXCEPT !.ctl = Quieted(s)]
  BY DEF Shaped, Fields, List!PulsesEnded, Quieted
<1> HIDE DEF x
<1>3. Shaped(x) /\ x.ctl = Quieted(s)
  BY <1>2 DEF Shaped, Fields
<1>4. \A f \in Fields \ {"ctl"} : x[f] = s[f]
  BY <1>2 DEF Shaped
<1>5. /\ x.fl_mem = y.fl_mem /\ x.fl_rdp = y.fl_rdp /\ x.fl_wrp = y.fl_wrp /\ x.fl_cnt = y.fl_cnt
      /\ x.data = y.data /\ x.next = y.next /\ x.prev = y.prev /\ x.head = y.head
      /\ x.tail = y.tail /\ x.length = y.length /\ x.ctl = y.ctl
  BY <1>3, <1>4 DEF With, Fields
<1> HIDE DEF y
<1>6. x = y
  BY <1>1, <1>3, <1>5, SameRegisters
<1> QED BY <1>6 DEF x, y

(* The arm of each operation.                                              *)
LEMMA Dispatch ==
    ASSUME NEW r, NEW s, NEW x
    PROVE  /\ List!Controller("alloc", r, s, x) = List!alloc(r, s, x)
           /\ List!Controller("free", r, s, x) = List!free(r, s, x)
           /\ List!Controller("insert_head", r, s, x) = List!insert_head(r, s, x)
           /\ List!Controller("insert_tail", r, s, x) = List!insert_tail(r, s, x)
           /\ List!Controller("insert_after", r, s, x) = List!insert_after(r, s, x)
           /\ List!Controller("delete_head", r, s, x) = List!delete_head(r, s, x)
           /\ List!Controller("delete", r, s, x) = List!delete(r, s, x)
           /\ List!Controller("write_data", r, s, x) = List!write_data(r, s, x)
           /\ \A op \in List!Reads : List!Controller(op, r, s, x) = List!read(op, r, s, x)
<1>1. List!Controller("alloc", r, s, x) = List!alloc(r, s, x)
  BY DEF List!Controller, List!Reads
<1>2. List!Controller("free", r, s, x) = List!free(r, s, x)
  BY DEF List!Controller, List!Reads
<1>3. List!Controller("insert_head", r, s, x) = List!insert_head(r, s, x)
  BY DEF List!Controller, List!Reads
<1>4. List!Controller("insert_tail", r, s, x) = List!insert_tail(r, s, x)
  BY DEF List!Controller, List!Reads
<1>5. List!Controller("insert_after", r, s, x) = List!insert_after(r, s, x)
  BY DEF List!Controller, List!Reads
<1>6. List!Controller("delete_head", r, s, x) = List!delete_head(r, s, x)
  BY DEF List!Controller, List!Reads
<1>7. List!Controller("delete", r, s, x) = List!delete(r, s, x)
  BY DEF List!Controller, List!Reads
<1>8. List!Controller("write_data", r, s, x) = List!write_data(r, s, x)
  BY DEF List!Controller, List!Reads
<1>9. ASSUME NEW op \in List!Reads PROVE List!Controller(op, r, s, x) = List!read(op, r, s, x)
  <2>1. op \notin {"alloc", "free", "insert_head", "insert_tail", "insert_after", "delete_head", "delete", "write_data"}
    BY DEF List!Reads
  <2> QED BY <2>1 DEF List!Controller
<1> QED BY <1>1, <1>2, <1>3, <1>4, <1>5, <1>6, <1>7, <1>8, <1>9

(* The arm of each operation.                                              *)
LEMMA SimDispatch ==
    ASSUME NEW r, NEW x
    PROVE  /\ List!SimController("alloc", r, x) = List!sim_alloc(r, x)
           /\ List!SimController("free", r, x) = List!sim_free(r, x)
           /\ List!SimController("insert_head", r, x) = List!sim_insert_head(r, x)
           /\ List!SimController("insert_tail", r, x) = List!sim_insert_tail(r, x)
           /\ List!SimController("insert_after", r, x) = List!sim_insert_after(r, x)
           /\ List!SimController("delete_head", r, x) = List!sim_delete_head(r, x)
           /\ List!SimController("delete", r, x) = List!sim_delete(r, x)
           /\ List!SimController("write_data", r, x) = List!sim_write_data(r, x)
           /\ \A op \in List!Reads : List!SimController(op, r, x) = List!sim_read(op, r, x)
<1>1. List!SimController("alloc", r, x) = List!sim_alloc(r, x)
  BY DEF List!SimController, List!Reads
<1>2. List!SimController("free", r, x) = List!sim_free(r, x)
  BY DEF List!SimController, List!Reads
<1>3. List!SimController("insert_head", r, x) = List!sim_insert_head(r, x)
  BY DEF List!SimController, List!Reads
<1>4. List!SimController("insert_tail", r, x) = List!sim_insert_tail(r, x)
  BY DEF List!SimController, List!Reads
<1>5. List!SimController("insert_after", r, x) = List!sim_insert_after(r, x)
  BY DEF List!SimController, List!Reads
<1>6. List!SimController("delete_head", r, x) = List!sim_delete_head(r, x)
  BY DEF List!SimController, List!Reads
<1>7. List!SimController("delete", r, x) = List!sim_delete(r, x)
  BY DEF List!SimController, List!Reads
<1>8. List!SimController("write_data", r, x) = List!sim_write_data(r, x)
  BY DEF List!SimController, List!Reads
<1>9. ASSUME NEW op \in List!Reads PROVE List!SimController(op, r, x) = List!sim_read(op, r, x)
  <2>1. op \notin {"alloc", "free", "insert_head", "insert_tail", "insert_after", "delete_head", "delete", "write_data"}
    BY DEF List!Reads
  <2> QED BY <2>1 DEF List!SimController
<1> QED BY <1>1, <1>2, <1>3, <1>4, <1>5, <1>6, <1>7, <1>8, <1>9

(* A controller that is neither asked nor busy does nothing.               *)
LEMMA IdleController ==
    ASSUME NEW op \in List!Operations, NEW r, NEW s, NEW x, r.op # op, s.ctl[op].phase # "busy"
    PROVE  List!Controller(op, r, s, x) = x
<1>1. ~List!Busy(op, s) /\ ~List!Accepts(op, r, s)
  BY DEF List!Busy, List!Accepts
<1>2. CASE op = "alloc"
  <2>1. List!Controller(op, r, s, x) = List!alloc(r, s, x)
    BY <1>2, Dispatch
  <2> QED BY <2>1, <1>1, <1>2 DEF List!alloc
<1>3. CASE op = "free"
  <2>1. List!Controller(op, r, s, x) = List!free(r, s, x)
    BY <1>3, Dispatch
  <2> QED BY <2>1, <1>1, <1>3 DEF List!free
<1>4. CASE op = "insert_head"
  <2>1. List!Controller(op, r, s, x) = List!insert_head(r, s, x)
    BY <1>4, Dispatch
  <2> QED BY <2>1, <1>1, <1>4 DEF List!insert_head
<1>5. CASE op = "insert_tail"
  <2>1. List!Controller(op, r, s, x) = List!insert_tail(r, s, x)
    BY <1>5, Dispatch
  <2> QED BY <2>1, <1>1, <1>5 DEF List!insert_tail
<1>6. CASE op = "insert_after"
  <2>1. List!Controller(op, r, s, x) = List!insert_after(r, s, x)
    BY <1>6, Dispatch
  <2> QED BY <2>1, <1>1, <1>6 DEF List!insert_after
<1>7. CASE op = "delete_head"
  <2>1. List!Controller(op, r, s, x) = List!delete_head(r, s, x)
    BY <1>7, Dispatch
  <2> QED BY <2>1, <1>1, <1>7 DEF List!delete_head
<1>8. CASE op = "delete"
  <2>1. List!Controller(op, r, s, x) = List!delete(r, s, x)
    BY <1>8, Dispatch
  <2> QED BY <2>1, <1>1, <1>8 DEF List!delete
<1>9. CASE op = "write_data"
  <2>1. List!Controller(op, r, s, x) = List!write_data(r, s, x)
    BY <1>9, Dispatch
  <2> QED BY <2>1, <1>1, <1>9 DEF List!write_data
<1>10. CASE op \in List!Reads
  <2>1. List!Controller(op, r, s, x) = List!read(op, r, s, x)
    BY <1>10, Dispatch
  <2> QED BY <2>1, <1>10 DEF List!read
<1> QED BY <1>2, <1>3, <1>4, <1>5, <1>6, <1>7, <1>8, <1>9, <1>10 DEF List!Operations, List!Reads

(* A controller of the class that is not asked and not busy does nothing.  *)
LEMMA IdleSimController ==
    ASSUME NEW op \in List!Operations, NEW r, NEW x, r.op # op, x.ctl[op].phase # "busy"
    PROVE  List!SimController(op, r, x) = x
<1>1. ~List!Busy(op, x) /\ ~List!Accepts(op, r, x)
  BY DEF List!Busy, List!Accepts
<1>2. CASE op = "alloc"
  <2>1. List!SimController(op, r, x) = List!sim_alloc(r, x)
    BY <1>2, SimDispatch
  <2> QED BY <2>1, <1>1, <1>2 DEF List!sim_alloc
<1>3. CASE op = "free"
  <2>1. List!SimController(op, r, x) = List!sim_free(r, x)
    BY <1>3, SimDispatch
  <2> QED BY <2>1, <1>1, <1>3 DEF List!sim_free
<1>4. CASE op = "insert_head"
  <2>1. List!SimController(op, r, x) = List!sim_insert_head(r, x)
    BY <1>4, SimDispatch
  <2> QED BY <2>1, <1>1, <1>4 DEF List!sim_insert_head
<1>5. CASE op = "insert_tail"
  <2>1. List!SimController(op, r, x) = List!sim_insert_tail(r, x)
    BY <1>5, SimDispatch
  <2> QED BY <2>1, <1>1, <1>5 DEF List!sim_insert_tail
<1>6. CASE op = "insert_after"
  <2>1. List!SimController(op, r, x) = List!sim_insert_after(r, x)
    BY <1>6, SimDispatch
  <2> QED BY <2>1, <1>1, <1>6 DEF List!sim_insert_after
<1>7. CASE op = "delete_head"
  <2>1. List!SimController(op, r, x) = List!sim_delete_head(r, x)
    BY <1>7, SimDispatch
  <2> QED BY <2>1, <1>1, <1>7 DEF List!sim_delete_head
<1>8. CASE op = "delete"
  <2>1. List!SimController(op, r, x) = List!sim_delete(r, x)
    BY <1>8, SimDispatch
  <2> QED BY <2>1, <1>1, <1>8 DEF List!sim_delete
<1>9. CASE op = "write_data"
  <2>1. List!SimController(op, r, x) = List!sim_write_data(r, x)
    BY <1>9, SimDispatch
  <2> QED BY <2>1, <1>1, <1>9 DEF List!sim_write_data
<1>10. CASE op \in List!Reads
  <2>1. List!SimController(op, r, x) = List!sim_read(op, r, x)
    BY <1>10, SimDispatch
  <2> QED BY <2>1, <1>10 DEF List!sim_read
<1> QED BY <1>2, <1>3, <1>4, <1>5, <1>6, <1>7, <1>8, <1>9, <1>10 DEF List!Operations, List!Reads

(* What the edge that ends b needs of the registers.                       *)
Ending(d, s, b) ==
    /\ b \in Structure /\ Does(d, b) /\ List!Busy(b, s)
    /\ s.ctl[b].head \in HeadsOf(d)
    /\ s.head = [h \in HeadsOf(d) |-> s.head[h]] /\ s.tail = [h \in HeadsOf(d) |-> s.tail[h]]
    /\ s.length = [h \in HeadsOf(d) |-> s.length[h]]
    /\ b \in Deletions => s.fl_cnt \in 0..(NODES - 1)
    /\ d.heads > 1 => s.length[s.ctl[b].head] \in IF b \in Deletions THEN 1..NODES ELSE 0..(NODES - 1)
    /\ b \in List!Insertions => s.ctl[b].was_empty \in BOOLEAN
    /\ b = "insert_after" => s.ctl[b].after # s.ctl[b].handle

(* The linking edge of insert_head.                                        *)
LEMMA FinishInsertHead ==
    ASSUME NEW s, NEW words, NEW controllers, NEW r, n_decl \in ListDecls, Supports(n_decl),
           Ending(n_decl, s, "insert_head"), r.op # "insert_head"
    PROVE  List!Controller("insert_head", r, s, With(s, words, controllers)) =
               Finished(n_decl, s, "insert_head", words,
                        [controllers EXCEPT !["insert_head"] = List!Answers(s.ctl["insert_head"].handle)])
<1> DEFINE x == With(s, words, controllers)
           c == s.ctl["insert_head"]
           linked == [x EXCEPT
               !.next[c.handle] = s.head[c.head],
               !.prev = IF n_decl.doubly THEN [@ EXCEPT ![s.head[c.head]] = c.handle] ELSE @,
               !.head[c.head] = c.handle,
               !.tail[c.head] = IF n_decl.track_tail /\ c.was_empty THEN c.handle ELSE @,
               !.ctl["insert_head"] = List!Answers(c.handle)]
           z == List!Counted(c.head, List!Up(s.length[c.head]), linked)
           y == Finished(n_decl, s, "insert_head", words,
                         [controllers EXCEPT !["insert_head"] = List!Answers(c.handle)])
<1>1. Shaped(x)
  BY DEF Shaped, With, Fields
<1>2. /\ x.fl_mem = s.fl_mem /\ x.fl_rdp = s.fl_rdp /\ x.fl_wrp = s.fl_wrp
      /\ x.fl_cnt = s.fl_cnt /\ x.next = s.next /\ x.prev = s.prev /\ x.head = s.head
      /\ x.tail = s.tail /\ x.length = s.length
      /\ x.data = words /\ x.ctl = controllers
  BY DEF With
<1>3. Shaped(y)
  BY LiteralIsShaped DEF Finished
<1> HIDE DEF x
<1>4. List!Controller("insert_head", r, s, x) = z
  <2>1. ~List!Accepts("insert_head", r, s) /\ List!Busy("insert_head", s)
    BY DEF List!Accepts, Ending
  <2>2. List!Controller("insert_head", r, s, x) = List!insert_head(r, s, x)
    BY Dispatch
  <2> QED BY <2>1, <2>2 DEF List!insert_head
<1>6. Shaped(linked)
  BY <1>1, ZenonT(60) DEF Shaped, Fields
<1>7. /\ linked.fl_mem = x.fl_mem /\ linked.fl_rdp = x.fl_rdp /\ linked.fl_wrp = x.fl_wrp
      /\ linked.fl_cnt = x.fl_cnt /\ linked.data = x.data /\ linked.length = x.length
      /\ linked.next = [x.next EXCEPT ![c.handle] = s.head[c.head]]
      /\ linked.prev = (IF n_decl.doubly THEN [x.prev EXCEPT ![s.head[c.head]] = c.handle] ELSE x.prev)
      /\ linked.head = [x.head EXCEPT ![c.head] = c.handle]
      /\ linked.tail = [x.tail EXCEPT ![c.head] =
                            IF n_decl.track_tail /\ c.was_empty THEN c.handle ELSE x.tail[c.head]]
      /\ linked.ctl = [x.ctl EXCEPT !["insert_head"] = List!Answers(c.handle)]
  BY <1>1 DEF Shaped, Fields
<1> HIDE DEF linked
<1>8. Shaped(z)
  BY <1>6 DEF List!Counted, Shaped, Fields
<1>9. /\ z.fl_mem = linked.fl_mem /\ z.fl_rdp = linked.fl_rdp /\ z.fl_wrp = linked.fl_wrp
      /\ z.fl_cnt = linked.fl_cnt /\ z.data = linked.data /\ z.next = linked.next
      /\ z.prev = linked.prev /\ z.head = linked.head /\ z.tail = linked.tail
      /\ z.ctl = linked.ctl
      /\ z.length = IF n_decl.heads > 1
                    THEN [linked.length EXCEPT ![c.head] = List!Up(s.length[c.head])]
                    ELSE linked.length
  BY <1>6 DEF List!Counted, List!multi_head, Shaped, Fields
<1> HIDE DEF z, y
<1>10. z.length = y.length
  <2>1. y.length = IF n_decl.heads = 1 THEN s.length
                   ELSE [s.length EXCEPT ![c.head] = s.length[c.head] + 1]
    BY DEF y, Finished, Deletions
  <2>2. CASE n_decl.heads = 1
    BY <2>1, <2>2, <1>2, <1>7, <1>9
  <2>3. CASE n_decl.heads > 1
    <3>1. s.length[c.head] \in 0..(NODES - 1)
      BY <2>3 DEF Ending, Deletions
    <3>2. List!Up(s.length[c.head]) = s.length[c.head] + 1
      BY <3>1, NextCount, PoolAssumption
    <3> QED BY <2>1, <2>3, <3>2, <1>2, <1>7, <1>9
  <2> QED BY <2>2, <2>3, PoolAssumption
<1>11. z.tail = y.tail
  <2>1. s.tail = [s.tail EXCEPT ![c.head] = s.tail[c.head]]
    BY DEF Ending
  <2>2. z.tail = [s.tail EXCEPT ![c.head] = IF n_decl.track_tail /\ c.was_empty THEN c.handle ELSE s.tail[c.head]]
    BY <1>2, <1>7, <1>9
  <2>3. y.tail = IF n_decl.track_tail /\ c.was_empty THEN [s.tail EXCEPT ![c.head] = c.handle] ELSE s.tail
    BY DEF y, Finished
  <2>4. CASE n_decl.track_tail /\ c.was_empty
    BY <2>2, <2>3, <2>4
  <2>5. CASE ~(n_decl.track_tail /\ c.was_empty)
    BY <2>1, <2>2, <2>3, <2>5
  <2> QED BY <2>4, <2>5
<1>12. /\ z.fl_mem = y.fl_mem /\ z.fl_rdp = y.fl_rdp /\ z.fl_wrp = y.fl_wrp
       /\ z.fl_cnt = y.fl_cnt /\ z.data = y.data /\ z.next = y.next /\ z.prev = y.prev
       /\ z.head = y.head /\ z.ctl = y.ctl
  <2>1. /\ y.fl_mem = s.fl_mem /\ y.fl_rdp = s.fl_rdp /\ y.fl_wrp = s.fl_wrp
        /\ y.fl_cnt = s.fl_cnt
        /\ y.data = words /\ y.ctl = [controllers EXCEPT !["insert_head"] = List!Answers(c.handle)]
        /\ y.next = [s.next EXCEPT ![c.handle] = s.head[c.head]]
        /\ y.prev = (IF n_decl.doubly THEN [s.prev EXCEPT ![s.head[c.head]] = c.handle] ELSE s.prev)
        /\ y.head = [s.head EXCEPT ![c.head] = c.handle]
    BY DEF y, Finished, Deletions
  <2> QED BY <2>1, <1>2, <1>7, <1>9
<1> QED BY <1>3, <1>4, <1>8, <1>10, <1>11, <1>12, SameRegisters DEF x, y

(* The linking edge of insert_tail.                                        *)
LEMMA FinishInsertTail ==
    ASSUME NEW s, NEW words, NEW controllers, NEW r, n_decl \in ListDecls, Supports(n_decl),
           Ending(n_decl, s, "insert_tail"), r.op # "insert_tail"
    PROVE  List!Controller("insert_tail", r, s, With(s, words, controllers)) =
               Finished(n_decl, s, "insert_tail", words,
                        [controllers EXCEPT !["insert_tail"] = List!Answers(s.ctl["insert_tail"].handle)])
<1> DEFINE x == With(s, words, controllers)
           c == s.ctl["insert_tail"]
           last == List!LastNode(c, s)
           linked == [x EXCEPT
               !.next = IF c.was_empty THEN @ ELSE [@ EXCEPT ![last] = c.handle],
               !.prev = IF n_decl.doubly /\ n_decl.track_tail
                        THEN [@ EXCEPT ![c.handle] = last] ELSE @,
               !.tail[c.head] = IF n_decl.track_tail THEN c.handle ELSE @,
               !.head[c.head] = IF c.was_empty THEN c.handle ELSE @,
               !.ctl["insert_tail"] = List!Answers(c.handle)]
           z == List!Counted(c.head, List!Up(s.length[c.head]), linked)
           y == Finished(n_decl, s, "insert_tail", words,
                         [controllers EXCEPT !["insert_tail"] = List!Answers(c.handle)])
<1>1. Shaped(x)
  BY DEF Shaped, With, Fields
<1>2. /\ x.fl_mem = s.fl_mem /\ x.fl_rdp = s.fl_rdp /\ x.fl_wrp = s.fl_wrp
      /\ x.fl_cnt = s.fl_cnt /\ x.next = s.next /\ x.prev = s.prev /\ x.head = s.head
      /\ x.tail = s.tail /\ x.length = s.length
      /\ x.data = words /\ x.ctl = controllers
  BY DEF With
<1>3. Shaped(y)
  BY LiteralIsShaped DEF Finished
<1> HIDE DEF x
<1>4. List!Controller("insert_tail", r, s, x) = z
  <2>1. ~List!Accepts("insert_tail", r, s) /\ List!Busy("insert_tail", s)
    BY DEF List!Accepts, Ending
  <2>2. List!Controller("insert_tail", r, s, x) = List!insert_tail(r, s, x)
    BY Dispatch
  <2> QED BY <2>1, <2>2 DEF List!insert_tail
<1>5. n_decl.track_tail /\ last = s.tail[c.head]
  BY DEF Supports, Ending, List!LastNode
<1> HIDE DEF last
<1>6. Shaped(linked)
  BY <1>1, ZenonT(60) DEF Shaped, Fields
<1>7. /\ linked.fl_mem = x.fl_mem /\ linked.fl_rdp = x.fl_rdp /\ linked.fl_wrp = x.fl_wrp
      /\ linked.fl_cnt = x.fl_cnt /\ linked.data = x.data /\ linked.length = x.length
      /\ linked.next = (IF c.was_empty THEN x.next ELSE [x.next EXCEPT ![last] = c.handle])
      /\ linked.prev = (IF n_decl.doubly /\ n_decl.track_tail THEN [x.prev EXCEPT ![c.handle] = last]
                       ELSE x.prev)
      /\ linked.head = [x.head EXCEPT ![c.head] = IF c.was_empty THEN c.handle ELSE x.head[c.head]]
      /\ linked.tail = [x.tail EXCEPT ![c.head] = IF n_decl.track_tail THEN c.handle ELSE x.tail[c.head]]
      /\ linked.ctl = [x.ctl EXCEPT !["insert_tail"] = List!Answers(c.handle)]
  BY <1>1 DEF Shaped, Fields
<1> HIDE DEF linked
<1>8. Shaped(z)
  BY <1>6 DEF List!Counted, Shaped, Fields
<1>9. /\ z.fl_mem = linked.fl_mem /\ z.fl_rdp = linked.fl_rdp /\ z.fl_wrp = linked.fl_wrp
      /\ z.fl_cnt = linked.fl_cnt /\ z.data = linked.data /\ z.next = linked.next
      /\ z.prev = linked.prev /\ z.head = linked.head /\ z.tail = linked.tail
      /\ z.ctl = linked.ctl
      /\ z.length = IF n_decl.heads > 1
                    THEN [linked.length EXCEPT ![c.head] = List!Up(s.length[c.head])]
                    ELSE linked.length
  BY <1>6 DEF List!Counted, List!multi_head, Shaped, Fields
<1> HIDE DEF z, y
<1>10. z.length = y.length
  <2>1. y.length = IF n_decl.heads = 1 THEN s.length
                   ELSE [s.length EXCEPT ![c.head] = s.length[c.head] + 1]
    BY DEF y, Finished, Deletions
  <2>2. CASE n_decl.heads = 1
    BY <2>1, <2>2, <1>2, <1>7, <1>9
  <2>3. CASE n_decl.heads > 1
    <3>1. s.length[c.head] \in 0..(NODES - 1)
      BY <2>3 DEF Ending, Deletions
    <3>2. List!Up(s.length[c.head]) = s.length[c.head] + 1
      BY <3>1, NextCount, PoolAssumption
    <3> QED BY <2>1, <2>3, <3>2, <1>2, <1>7, <1>9
  <2> QED BY <2>2, <2>3, PoolAssumption
<1>11. z.head = y.head
  <2>1. s.head = [s.head EXCEPT ![c.head] = s.head[c.head]]
    BY DEF Ending
  <2>2. z.head = [s.head EXCEPT ![c.head] = IF c.was_empty THEN c.handle ELSE s.head[c.head]]
    BY <1>2, <1>7, <1>9
  <2>3. y.head = IF c.was_empty THEN [s.head EXCEPT ![c.head] = c.handle] ELSE s.head
    BY <1>5 DEF y, Finished
  <2>4. CASE c.was_empty
    BY <2>2, <2>3, <2>4
  <2>5. CASE ~(c.was_empty)
    BY <2>1, <2>2, <2>3, <2>5
  <2> QED BY <2>4, <2>5
<1>12. z.tail = y.tail
  <2>1. s.tail = [s.tail EXCEPT ![c.head] = s.tail[c.head]]
    BY DEF Ending
  <2>2. z.tail = [s.tail EXCEPT ![c.head] = IF n_decl.track_tail THEN c.handle ELSE s.tail[c.head]]
    BY <1>2, <1>7, <1>9
  <2>3. y.tail = IF n_decl.track_tail THEN [s.tail EXCEPT ![c.head] = c.handle] ELSE s.tail
    BY <1>5 DEF y, Finished
  <2>4. CASE n_decl.track_tail
    BY <2>2, <2>3, <2>4
  <2>5. CASE ~(n_decl.track_tail)
    BY <2>1, <2>2, <2>3, <2>5
  <2> QED BY <2>4, <2>5
<1>13. /\ z.fl_mem = y.fl_mem /\ z.fl_rdp = y.fl_rdp /\ z.fl_wrp = y.fl_wrp
       /\ z.fl_cnt = y.fl_cnt /\ z.data = y.data /\ z.next = y.next /\ z.prev = y.prev
       /\ z.ctl = y.ctl
  <2>1. /\ y.fl_mem = s.fl_mem /\ y.fl_rdp = s.fl_rdp /\ y.fl_wrp = s.fl_wrp
        /\ y.fl_cnt = s.fl_cnt
        /\ y.data = words /\ y.ctl = [controllers EXCEPT !["insert_tail"] = List!Answers(c.handle)]
        /\ y.next = (IF c.was_empty THEN s.next ELSE [s.next EXCEPT ![last] = c.handle])
        /\ y.prev = (IF n_decl.doubly /\ n_decl.track_tail THEN [s.prev EXCEPT ![c.handle] = last]
                       ELSE s.prev)
    BY <1>5 DEF y, Finished, Deletions
  <2> QED BY <2>1, <1>2, <1>7, <1>9
<1> QED BY <1>3, <1>4, <1>8, <1>10, <1>11, <1>12, <1>13, SameRegisters DEF x, y

(* The linking edge of insert_after.                                       *)
LEMMA FinishInsertAfter ==
    ASSUME NEW s, NEW words, NEW controllers, NEW r, n_decl \in ListDecls, Supports(n_decl),
           Ending(n_decl, s, "insert_after"), r.op # "insert_after"
    PROVE  List!Controller("insert_after", r, s, With(s, words, controllers)) =
               Finished(n_decl, s, "insert_after", words,
                        [controllers EXCEPT !["insert_after"] = List!Answers(s.ctl["insert_after"].handle)])
<1> DEFINE x == With(s, words, controllers)
           c == s.ctl["insert_after"]
           linked == [x EXCEPT
               !.next[c.after] = c.handle,
               !.prev = IF n_decl.doubly
                        THEN [@ EXCEPT ![c.handle] = c.after, ![s.next[c.handle]] = c.handle]
                        ELSE @,
               !.ctl["insert_after"] = List!Answers(c.handle)]
           z == List!Counted(c.head, List!Up(s.length[c.head]), linked)
           y == Finished(n_decl, s, "insert_after", words,
                         [controllers EXCEPT !["insert_after"] = List!Answers(c.handle)])
<1>1. Shaped(x)
  BY DEF Shaped, With, Fields
<1>2. /\ x.fl_mem = s.fl_mem /\ x.fl_rdp = s.fl_rdp /\ x.fl_wrp = s.fl_wrp
      /\ x.fl_cnt = s.fl_cnt /\ x.next = s.next /\ x.prev = s.prev /\ x.head = s.head
      /\ x.tail = s.tail /\ x.length = s.length
      /\ x.data = words /\ x.ctl = controllers
  BY DEF With
<1>3. Shaped(y)
  BY LiteralIsShaped DEF Finished
<1> HIDE DEF x
<1>4. List!Controller("insert_after", r, s, x) = z
  <2>1. ~List!Accepts("insert_after", r, s) /\ List!Busy("insert_after", s)
    BY DEF List!Accepts, Ending
  <2>2. List!Controller("insert_after", r, s, x) = List!insert_after(r, s, x)
    BY Dispatch
  <2> QED BY <2>1, <2>2 DEF List!insert_after
<1>6. Shaped(linked)
  BY <1>1 DEF Shaped, Fields
<1>7. /\ linked.fl_mem = x.fl_mem /\ linked.fl_rdp = x.fl_rdp /\ linked.fl_wrp = x.fl_wrp
      /\ linked.fl_cnt = x.fl_cnt /\ linked.data = x.data /\ linked.head = x.head
      /\ linked.tail = x.tail /\ linked.length = x.length
      /\ linked.next = [x.next EXCEPT ![c.after] = c.handle]
      /\ linked.prev = (IF n_decl.doubly
                       THEN [x.prev EXCEPT ![c.handle] = c.after, ![s.next[c.handle]] = c.handle]
                       ELSE x.prev)
      /\ linked.ctl = [x.ctl EXCEPT !["insert_after"] = List!Answers(c.handle)]
  BY <1>1 DEF Shaped, Fields
<1> HIDE DEF linked
<1>8. Shaped(z)
  BY <1>6 DEF List!Counted, Shaped, Fields
<1>9. /\ z.fl_mem = linked.fl_mem /\ z.fl_rdp = linked.fl_rdp /\ z.fl_wrp = linked.fl_wrp
      /\ z.fl_cnt = linked.fl_cnt /\ z.data = linked.data /\ z.next = linked.next
      /\ z.prev = linked.prev /\ z.head = linked.head /\ z.tail = linked.tail
      /\ z.ctl = linked.ctl
      /\ z.length = IF n_decl.heads > 1
                    THEN [linked.length EXCEPT ![c.head] = List!Up(s.length[c.head])]
                    ELSE linked.length
  BY <1>6 DEF List!Counted, List!multi_head, Shaped, Fields
<1> HIDE DEF z, y
<1>10. z.length = y.length
  <2>1. y.length = IF n_decl.heads = 1 THEN s.length
                   ELSE [s.length EXCEPT ![c.head] = s.length[c.head] + 1]
    BY DEF y, Finished, Deletions
  <2>2. CASE n_decl.heads = 1
    BY <2>1, <2>2, <1>2, <1>7, <1>9
  <2>3. CASE n_decl.heads > 1
    <3>1. s.length[c.head] \in 0..(NODES - 1)
      BY <2>3 DEF Ending, Deletions
    <3>2. List!Up(s.length[c.head]) = s.length[c.head] + 1
      BY <3>1, NextCount, PoolAssumption
    <3> QED BY <2>1, <2>3, <3>2, <1>2, <1>7, <1>9
  <2> QED BY <2>2, <2>3, PoolAssumption
<1>11. /\ z.fl_mem = y.fl_mem /\ z.fl_rdp = y.fl_rdp /\ z.fl_wrp = y.fl_wrp
       /\ z.fl_cnt = y.fl_cnt /\ z.data = y.data /\ z.next = y.next /\ z.prev = y.prev
       /\ z.head = y.head /\ z.tail = y.tail /\ z.ctl = y.ctl
  <2>1. /\ y.fl_mem = s.fl_mem /\ y.fl_rdp = s.fl_rdp /\ y.fl_wrp = s.fl_wrp
        /\ y.fl_cnt = s.fl_cnt /\ y.head = s.head /\ y.tail = s.tail
        /\ y.data = words /\ y.ctl = [controllers EXCEPT !["insert_after"] = List!Answers(c.handle)]
        /\ y.next = [s.next EXCEPT ![c.after] = c.handle]
        /\ y.prev = (IF n_decl.doubly
                       THEN [s.prev EXCEPT ![c.handle] = c.after, ![s.next[c.handle]] = c.handle]
                       ELSE s.prev)
    BY DEF y, Finished, Deletions
  <2> QED BY <2>1, <1>2, <1>7, <1>9
<1> QED BY <1>3, <1>4, <1>8, <1>10, <1>11, SameRegisters DEF x, y

(* The second edge of delete_head.                                         *)
LEMMA FinishDeleteHead ==
    ASSUME NEW s, NEW words, NEW controllers, NEW r, n_decl \in ListDecls, Supports(n_decl),
           Ending(n_decl, s, "delete_head"), r.op # "delete_head"
    PROVE  List!Controller("delete_head", r, s, With(s, words, controllers)) =
               Finished(n_decl, s, "delete_head", words,
                        [controllers EXCEPT !["delete_head"] = List!Answers(s.ctl["delete_head"].handle)])
<1> DEFINE x == With(s, words, controllers)
           c == s.ctl["delete_head"]
           advanced == [List!GiveBack(c.handle, s, x) EXCEPT
               !.head[c.head] = s.next[c.handle],
               !.ctl["delete_head"] = List!Answers(c.handle)]
           z == List!Counted(c.head, List!Down(s.length[c.head]), advanced)
           y == Finished(n_decl, s, "delete_head", words,
                         [controllers EXCEPT !["delete_head"] = List!Answers(c.handle)])
<1>1. Shaped(x)
  BY DEF Shaped, With, Fields
<1>2. /\ x.fl_mem = s.fl_mem /\ x.fl_rdp = s.fl_rdp /\ x.fl_wrp = s.fl_wrp
      /\ x.fl_cnt = s.fl_cnt /\ x.next = s.next /\ x.prev = s.prev /\ x.head = s.head
      /\ x.tail = s.tail /\ x.length = s.length
      /\ x.data = words /\ x.ctl = controllers
  BY DEF With
<1>3. Shaped(y)
  BY LiteralIsShaped DEF Finished
<1> HIDE DEF x
<1>4. List!Controller("delete_head", r, s, x) = z
  <2>1. ~List!Accepts("delete_head", r, s) /\ List!Busy("delete_head", s)
    BY DEF List!Accepts, Ending
  <2>2. List!Controller("delete_head", r, s, x) = List!delete_head(r, s, x)
    BY Dispatch
  <2> QED BY <2>1, <2>2 DEF List!delete_head
<1>6. Shaped(advanced)
  BY <1>1 DEF Shaped, Fields, List!GiveBack
<1>7. /\ advanced.fl_rdp = x.fl_rdp /\ advanced.data = x.data /\ advanced.next = x.next
      /\ advanced.prev = x.prev /\ advanced.tail = x.tail /\ advanced.length = x.length
      /\ advanced.fl_mem = [x.fl_mem EXCEPT ![s.fl_wrp % NODES] = c.handle]
      /\ advanced.fl_wrp = List!Up(s.fl_wrp)
      /\ advanced.fl_cnt = List!Up(s.fl_cnt)
      /\ advanced.head = [x.head EXCEPT ![c.head] = s.next[c.handle]]
      /\ advanced.ctl = [x.ctl EXCEPT !["delete_head"] = List!Answers(c.handle)]
  BY <1>1 DEF Shaped, Fields, List!GiveBack
<1> HIDE DEF advanced
<1>8. Shaped(z)
  BY <1>6 DEF List!Counted, Shaped, Fields
<1>9. /\ z.fl_mem = advanced.fl_mem /\ z.fl_rdp = advanced.fl_rdp
      /\ z.fl_wrp = advanced.fl_wrp /\ z.fl_cnt = advanced.fl_cnt /\ z.data = advanced.data
      /\ z.next = advanced.next /\ z.prev = advanced.prev /\ z.head = advanced.head
      /\ z.tail = advanced.tail /\ z.ctl = advanced.ctl
      /\ z.length = IF n_decl.heads > 1
                    THEN [advanced.length EXCEPT ![c.head] = List!Down(s.length[c.head])]
                    ELSE advanced.length
  BY <1>6 DEF List!Counted, List!multi_head, Shaped, Fields
<1> HIDE DEF z, y
<1>10. z.length = y.length
  <2>1. y.length = IF n_decl.heads = 1 THEN s.length
                   ELSE [s.length EXCEPT ![c.head] = s.length[c.head] - 1]
    BY DEF y, Finished, Deletions
  <2>2. CASE n_decl.heads = 1
    BY <2>1, <2>2, <1>2, <1>7, <1>9
  <2>3. CASE n_decl.heads > 1
    <3>1. s.length[c.head] \in 1..NODES
      BY <2>3 DEF Ending, Deletions
    <3>2. List!Down(s.length[c.head]) = s.length[c.head] - 1
      BY <3>1, NextCount, PoolAssumption
    <3> QED BY <2>1, <2>3, <3>2, <1>2, <1>7, <1>9
  <2> QED BY <2>2, <2>3, PoolAssumption
<1>11. z.fl_cnt = y.fl_cnt
  <2>1. List!Up(s.fl_cnt) = s.fl_cnt + 1
    BY NextCount, PoolAssumption DEF Ending, Deletions
  <2>2. y.fl_cnt = s.fl_cnt + 1
    BY DEF y, Finished, Deletions
  <2> QED BY <2>1, <2>2, <1>7, <1>9
<1>12. /\ z.fl_mem = y.fl_mem /\ z.fl_rdp = y.fl_rdp /\ z.fl_wrp = y.fl_wrp
       /\ z.data = y.data /\ z.next = y.next /\ z.prev = y.prev /\ z.head = y.head
       /\ z.tail = y.tail /\ z.ctl = y.ctl
  <2>1. /\ y.fl_rdp = s.fl_rdp /\ y.next = s.next /\ y.prev = s.prev /\ y.tail = s.tail
        /\ y.data = words /\ y.ctl = [controllers EXCEPT !["delete_head"] = List!Answers(c.handle)]
        /\ y.fl_mem = [s.fl_mem EXCEPT ![s.fl_wrp % NODES] = c.handle]
        /\ y.fl_wrp = List!Up(s.fl_wrp)
        /\ y.head = [s.head EXCEPT ![c.head] = s.next[c.handle]]
    BY DEF y, Finished, Deletions
  <2> QED BY <2>1, <1>2, <1>7, <1>9
<1> QED BY <1>3, <1>4, <1>8, <1>10, <1>11, <1>12, SameRegisters DEF x, y

(* The second edge of delete.                                              *)
LEMMA FinishDelete ==
    ASSUME NEW s, NEW words, NEW controllers, NEW r, n_decl \in ListDecls, Supports(n_decl),
           Ending(n_decl, s, "delete"), r.op # "delete"
    PROVE  List!Controller("delete", r, s, With(s, words, controllers)) =
               Finished(n_decl, s, "delete", words,
                        [controllers EXCEPT !["delete"] = List!Answers(s.ctl["delete"].handle)])
<1> DEFINE x == With(s, words, controllers)
           c == s.ctl["delete"]
           returned == [List!GiveBack(c.handle, s, x) EXCEPT
               !.ctl["delete"] = List!Answers(c.handle)]
           z == List!Counted(c.head, List!Down(s.length[c.head]), returned)
           y == Finished(n_decl, s, "delete", words,
                         [controllers EXCEPT !["delete"] = List!Answers(c.handle)])
<1>1. Shaped(x)
  BY DEF Shaped, With, Fields
<1>2. /\ x.fl_mem = s.fl_mem /\ x.fl_rdp = s.fl_rdp /\ x.fl_wrp = s.fl_wrp
      /\ x.fl_cnt = s.fl_cnt /\ x.next = s.next /\ x.prev = s.prev /\ x.head = s.head
      /\ x.tail = s.tail /\ x.length = s.length
      /\ x.data = words /\ x.ctl = controllers
  BY DEF With
<1>3. Shaped(y)
  BY LiteralIsShaped DEF Finished
<1> HIDE DEF x
<1>4. List!Controller("delete", r, s, x) = z
  <2>1. ~List!Accepts("delete", r, s) /\ List!Busy("delete", s)
    BY DEF List!Accepts, Ending
  <2>2. List!Controller("delete", r, s, x) = List!delete(r, s, x)
    BY Dispatch
  <2> QED BY <2>1, <2>2 DEF List!delete
<1>6. Shaped(returned)
  BY <1>1 DEF Shaped, Fields, List!GiveBack
<1>7. /\ returned.fl_rdp = x.fl_rdp /\ returned.data = x.data /\ returned.next = x.next
      /\ returned.prev = x.prev /\ returned.head = x.head /\ returned.tail = x.tail
      /\ returned.length = x.length
      /\ returned.fl_mem = [x.fl_mem EXCEPT ![s.fl_wrp % NODES] = c.handle]
      /\ returned.fl_wrp = List!Up(s.fl_wrp)
      /\ returned.fl_cnt = List!Up(s.fl_cnt)
      /\ returned.ctl = [x.ctl EXCEPT !["delete"] = List!Answers(c.handle)]
  BY <1>1 DEF Shaped, Fields, List!GiveBack
<1> HIDE DEF returned
<1>8. Shaped(z)
  BY <1>6 DEF List!Counted, Shaped, Fields
<1>9. /\ z.fl_mem = returned.fl_mem /\ z.fl_rdp = returned.fl_rdp
      /\ z.fl_wrp = returned.fl_wrp /\ z.fl_cnt = returned.fl_cnt /\ z.data = returned.data
      /\ z.next = returned.next /\ z.prev = returned.prev /\ z.head = returned.head
      /\ z.tail = returned.tail /\ z.ctl = returned.ctl
      /\ z.length = IF n_decl.heads > 1
                    THEN [returned.length EXCEPT ![c.head] = List!Down(s.length[c.head])]
                    ELSE returned.length
  BY <1>6 DEF List!Counted, List!multi_head, Shaped, Fields
<1> HIDE DEF z, y
<1>10. z.length = y.length
  <2>1. y.length = IF n_decl.heads = 1 THEN s.length
                   ELSE [s.length EXCEPT ![c.head] = s.length[c.head] - 1]
    BY DEF y, Finished, Deletions
  <2>2. CASE n_decl.heads = 1
    BY <2>1, <2>2, <1>2, <1>7, <1>9
  <2>3. CASE n_decl.heads > 1
    <3>1. s.length[c.head] \in 1..NODES
      BY <2>3 DEF Ending, Deletions
    <3>2. List!Down(s.length[c.head]) = s.length[c.head] - 1
      BY <3>1, NextCount, PoolAssumption
    <3> QED BY <2>1, <2>3, <3>2, <1>2, <1>7, <1>9
  <2> QED BY <2>2, <2>3, PoolAssumption
<1>11. z.fl_cnt = y.fl_cnt
  <2>1. List!Up(s.fl_cnt) = s.fl_cnt + 1
    BY NextCount, PoolAssumption DEF Ending, Deletions
  <2>2. y.fl_cnt = s.fl_cnt + 1
    BY DEF y, Finished, Deletions
  <2> QED BY <2>1, <2>2, <1>7, <1>9
<1>12. /\ z.fl_mem = y.fl_mem /\ z.fl_rdp = y.fl_rdp /\ z.fl_wrp = y.fl_wrp
       /\ z.data = y.data /\ z.next = y.next /\ z.prev = y.prev /\ z.head = y.head
       /\ z.tail = y.tail /\ z.ctl = y.ctl
  <2>1. /\ y.fl_rdp = s.fl_rdp /\ y.next = s.next /\ y.prev = s.prev /\ y.head = s.head
        /\ y.tail = s.tail
        /\ y.data = words /\ y.ctl = [controllers EXCEPT !["delete"] = List!Answers(c.handle)]
        /\ y.fl_mem = [s.fl_mem EXCEPT ![s.fl_wrp % NODES] = c.handle]
        /\ y.fl_wrp = List!Up(s.fl_wrp)
    BY DEF y, Finished, Deletions
  <2> QED BY <2>1, <1>2, <1>7, <1>9
<1> QED BY <1>3, <1>4, <1>8, <1>10, <1>11, <1>12, SameRegisters DEF x, y

(* The same edges in the class, which may keep another tail register       *)
(* where none is declared: insert_head.                                    *)
LEMMA SimFinishInsertHead ==
    ASSUME NEW s, NEW words, NEW controllers, NEW u, NEW r, n_decl \in ListDecls,
           Supports(n_decl), Ending(n_decl, s, "insert_head"), r.op # "insert_head",
           controllers["insert_head"] = s.ctl["insert_head"], n_decl.track_tail => u = s.tail
    PROVE  LET z == List!SimController("insert_head", r, WithTail(With(s, words, controllers), u))
               y == Finished(n_decl, s, "insert_head", words,
                             [controllers EXCEPT !["insert_head"] = List!Answers(s.ctl["insert_head"].handle)])
           IN  z = WithTail(y, z.tail) /\ (n_decl.track_tail => z.tail = y.tail)
<1> DEFINE t == WithTail(With(s, words, controllers), u)
           c == t.ctl["insert_head"]
           s1 == [t EXCEPT !.next[c.handle] = t.head[c.head]]
           s2 == IF n_decl.doubly THEN [s1 EXCEPT !.prev[s1.head[c.head]] = c.handle] ELSE s1
           s3 == [s2 EXCEPT !.head[c.head] = c.handle]
           s4 == IF c.was_empty THEN [s3 EXCEPT !.tail[c.head] = c.handle] ELSE s3
           s5 == List!SimCounted(c.head, 1, s4)
           z == List!SimDone("insert_head", s5)
           y == Finished(n_decl, s, "insert_head", words,
                         [controllers EXCEPT !["insert_head"] = List!Answers(c.handle)])
           w == WithTail(y, z.tail)
<1>1. /\ Shaped(t) /\ Shaped(w)
      /\ t.fl_mem = s.fl_mem /\ t.fl_rdp = s.fl_rdp /\ t.fl_wrp = s.fl_wrp
      /\ t.fl_cnt = s.fl_cnt /\ t.next = s.next /\ t.prev = s.prev /\ t.head = s.head
      /\ t.length = s.length
      /\ t.data = words /\ t.ctl = controllers /\ t.tail = u
  <2> HIDE DEF y, z, s5
  <2> QED BY LiteralIsShaped DEF WithTail, With
<1>2. c = s.ctl["insert_head"]
  BY <1>1
<1>3. List!SimController("insert_head", r, t) = z
  <2>1. ~List!Accepts("insert_head", r, t) /\ List!Busy("insert_head", t)
    <3> HIDE DEF t
    <3> QED BY <1>2 DEF List!Accepts, List!Busy, Ending
  <2>2. List!SimController("insert_head", r, t) = List!sim_insert_head(r, t)
    BY SimDispatch
  <2> HIDE DEF t
  <2> QED BY <2>1, <2>2 DEF List!sim_insert_head
<1> HIDE DEF t
<1>4. /\ Shaped(s1)
      /\ s1.fl_mem = t.fl_mem /\ s1.fl_rdp = t.fl_rdp /\ s1.fl_wrp = t.fl_wrp
      /\ s1.fl_cnt = t.fl_cnt /\ s1.data = t.data /\ s1.prev = t.prev /\ s1.head = t.head
      /\ s1.tail = t.tail /\ s1.length = t.length /\ s1.ctl = t.ctl
      /\ s1.next = [t.next EXCEPT ![c.handle] = t.head[c.head]]
  BY <1>1 DEF Shaped, Fields
<1> HIDE DEF s1
<1>5. /\ Shaped(s2)
      /\ s2.fl_mem = s1.fl_mem /\ s2.fl_rdp = s1.fl_rdp /\ s2.fl_wrp = s1.fl_wrp
      /\ s2.fl_cnt = s1.fl_cnt /\ s2.data = s1.data /\ s2.next = s1.next
      /\ s2.head = s1.head /\ s2.tail = s1.tail /\ s2.length = s1.length /\ s2.ctl = s1.ctl
      /\ s2.prev = (IF n_decl.doubly THEN [s1.prev EXCEPT ![s1.head[c.head]] = c.handle] ELSE s1.prev)
  BY <1>4 DEF Shaped, Fields
<1> HIDE DEF s2
<1>6. /\ Shaped(s3)
      /\ s3.fl_mem = s2.fl_mem /\ s3.fl_rdp = s2.fl_rdp /\ s3.fl_wrp = s2.fl_wrp
      /\ s3.fl_cnt = s2.fl_cnt /\ s3.data = s2.data /\ s3.next = s2.next
      /\ s3.prev = s2.prev /\ s3.tail = s2.tail /\ s3.length = s2.length /\ s3.ctl = s2.ctl
      /\ s3.head = [s2.head EXCEPT ![c.head] = c.handle]
  BY <1>5 DEF Shaped, Fields
<1> HIDE DEF s3
<1>7. /\ Shaped(s4)
      /\ s4.fl_mem = s3.fl_mem /\ s4.fl_rdp = s3.fl_rdp /\ s4.fl_wrp = s3.fl_wrp
      /\ s4.fl_cnt = s3.fl_cnt /\ s4.data = s3.data /\ s4.next = s3.next
      /\ s4.prev = s3.prev /\ s4.head = s3.head /\ s4.length = s3.length /\ s4.ctl = s3.ctl
      /\ s4.tail = (IF c.was_empty THEN [s3.tail EXCEPT ![c.head] = c.handle] ELSE s3.tail)
  BY <1>6 DEF Shaped, Fields
<1> HIDE DEF s4
<1>8. /\ Shaped(s5)
      /\ s5.fl_mem = s4.fl_mem /\ s5.fl_rdp = s4.fl_rdp /\ s5.fl_wrp = s4.fl_wrp
      /\ s5.fl_cnt = s4.fl_cnt /\ s5.data = s4.data /\ s5.next = s4.next
      /\ s5.prev = s4.prev /\ s5.head = s4.head /\ s5.tail = s4.tail /\ s5.ctl = s4.ctl
      /\ s5.length = IF n_decl.heads > 1
                     THEN [s4.length EXCEPT ![c.head] = s4.length[c.head] + 1]
                     ELSE s4.length
  BY <1>7 DEF List!SimCounted, List!multi_head, Shaped, Fields
<1> HIDE DEF s5
<1>9. /\ Shaped(z)
      /\ z.fl_mem = s5.fl_mem /\ z.fl_rdp = s5.fl_rdp /\ z.fl_wrp = s5.fl_wrp
      /\ z.fl_cnt = s5.fl_cnt /\ z.data = s5.data /\ z.next = s5.next /\ z.prev = s5.prev
      /\ z.head = s5.head /\ z.tail = s5.tail /\ z.length = s5.length
      /\ z.ctl = [s5.ctl EXCEPT !["insert_head"] = List!Answers(s5.ctl["insert_head"].handle)]
  BY <1>8 DEF List!SimDone, Shaped, Fields
<1> HIDE DEF z
<1>10. /\ w.fl_mem = y.fl_mem /\ w.fl_rdp = y.fl_rdp /\ w.fl_wrp = y.fl_wrp
      /\ w.fl_cnt = y.fl_cnt /\ w.data = y.data /\ w.next = y.next /\ w.prev = y.prev
      /\ w.head = y.head /\ w.length = y.length /\ w.ctl = y.ctl
      /\ w.tail = z.tail
  BY DEF WithTail
<1> HIDE DEF w, y
<1>11. z.length = y.length
  <2>1. y.length = IF n_decl.heads = 1 THEN s.length
                   ELSE [s.length EXCEPT ![c.head] = s.length[c.head] + 1]
    BY <1>2 DEF y, Finished, Deletions
  <2>2. CASE n_decl.heads = 1
    BY <2>1, <2>2, <1>1, <1>4, <1>5, <1>6, <1>7, <1>2, <1>8, <1>9
  <2>3. CASE n_decl.heads > 1
    <3>1. s.length[c.head] \in Nat
      BY <1>2, <2>3, PoolAssumption DEF Ending, Deletions
    <3>2. s.length[c.head] + 1 = s.length[c.head] + 1
      BY <3>1
    <3> QED BY <2>1, <2>3, <3>2, <1>1, <1>4, <1>5, <1>6, <1>7, <1>2, <1>8, <1>9, SMTT(30)
  <2> QED BY <2>2, <2>3, PoolAssumption
<1>12. /\ z.fl_mem = y.fl_mem /\ z.fl_rdp = y.fl_rdp /\ z.fl_wrp = y.fl_wrp
      /\ z.fl_cnt = y.fl_cnt /\ z.data = y.data
  BY <1>1, <1>4, <1>5, <1>6, <1>7, <1>2, <1>8, <1>9, SMTT(30) DEF y, Finished, Deletions
<1>13. z.next = y.next
  <2>1. y.next = [s.next EXCEPT ![c.handle] = s.head[c.head]]
    BY <1>2 DEF y, Finished
  <2> QED BY <2>1, <1>1, <1>4, <1>5, <1>6, <1>7, <1>2, <1>8, <1>9, SMTT(30)
<1>14. z.prev = y.prev
  <2>1. y.prev = IF n_decl.doubly THEN [s.prev EXCEPT ![s.head[c.head]] = c.handle] ELSE s.prev
    BY <1>2 DEF y, Finished
  <2>2. CASE n_decl.doubly
    BY <2>1, <2>2, <1>1, <1>4, <1>5, <1>6, <1>7, <1>2, <1>8, <1>9, SMTT(30)
  <2>3. CASE ~n_decl.doubly
    BY <2>1, <2>3, <1>1, <1>4, <1>5, <1>6, <1>7, <1>2, <1>8, <1>9
  <2> QED BY <2>2, <2>3
<1>15. z.head = y.head
  BY <1>1, <1>4, <1>5, <1>6, <1>7, <1>2, <1>8, <1>9, SMTT(30) DEF y, Finished
<1>16. z.ctl = y.ctl
  <2>1. y.ctl = [controllers EXCEPT !["insert_head"] = List!Answers(c.handle)]
    BY DEF y, Finished
  <2>2. s5.ctl = controllers /\ s5.ctl["insert_head"] = c
    BY <1>1, <1>4, <1>5, <1>6, <1>7, <1>2, <1>8, <1>9, SMTT(30)
  <2> QED BY <2>1, <2>2, <1>9
<1>17. n_decl.track_tail => z.tail = y.tail
  <2> SUFFICES ASSUME n_decl.track_tail PROVE z.tail = y.tail
    OBVIOUS
  <2>1. y.tail = IF c.was_empty THEN [s.tail EXCEPT ![c.head] = c.handle] ELSE s.tail
    BY <1>2 DEF y, Finished
  <2>2. u = s.tail
    OBVIOUS
  <2>3. t.tail = s.tail
    BY <1>1, <2>2
  <2>4. z.tail = IF c.was_empty THEN [s.tail EXCEPT ![c.head] = c.handle] ELSE s.tail
    <3> HIDE DEF c
    <3> QED BY <2>3, <1>4, <1>5, <1>6, <1>7, <1>8, <1>9
  <2> QED BY <2>1, <2>4
<1>18. z = w
  BY <1>9, <1>1, <1>10, <1>11, <1>12, <1>13, <1>14, <1>15, <1>16, SameRegisters
<1> QED BY <1>2, <1>3, <1>17, <1>18 DEF t, w, y

(* insert_tail in the class.                                               *)
LEMMA SimFinishInsertTail ==
    ASSUME NEW s, NEW words, NEW controllers, NEW u, NEW r, n_decl \in ListDecls,
           Supports(n_decl), Ending(n_decl, s, "insert_tail"), r.op # "insert_tail",
           controllers["insert_tail"] = s.ctl["insert_tail"], n_decl.track_tail => u = s.tail
    PROVE  LET z == List!SimController("insert_tail", r, WithTail(With(s, words, controllers), u))
               y == Finished(n_decl, s, "insert_tail", words,
                             [controllers EXCEPT !["insert_tail"] = List!Answers(s.ctl["insert_tail"].handle)])
           IN  z = WithTail(y, z.tail) /\ (n_decl.track_tail => z.tail = y.tail)
<1> DEFINE t == WithTail(With(s, words, controllers), u)
           c == t.ctl["insert_tail"]
           s1 == IF c.was_empty THEN t ELSE [t EXCEPT !.next[t.tail[c.head]] = c.handle]
           s2 == IF n_decl.doubly THEN [s1 EXCEPT !.prev[c.handle] = s1.tail[c.head]] ELSE s1
           s3 == [s2 EXCEPT !.tail[c.head] = c.handle]
           s4 == IF c.was_empty THEN [s3 EXCEPT !.head[c.head] = c.handle] ELSE s3
           s5 == List!SimCounted(c.head, 1, s4)
           z == List!SimDone("insert_tail", s5)
           y == Finished(n_decl, s, "insert_tail", words,
                         [controllers EXCEPT !["insert_tail"] = List!Answers(c.handle)])
           w == WithTail(y, z.tail)
<1>1. /\ Shaped(t) /\ Shaped(w)
      /\ t.fl_mem = s.fl_mem /\ t.fl_rdp = s.fl_rdp /\ t.fl_wrp = s.fl_wrp
      /\ t.fl_cnt = s.fl_cnt /\ t.next = s.next /\ t.prev = s.prev /\ t.head = s.head
      /\ t.length = s.length
      /\ t.data = words /\ t.ctl = controllers /\ t.tail = u
  <2> HIDE DEF y, z, s5
  <2> QED BY LiteralIsShaped DEF WithTail, With
<1>2. c = s.ctl["insert_tail"]
  BY <1>1
<1>3. List!SimController("insert_tail", r, t) = z
  <2>1. ~List!Accepts("insert_tail", r, t) /\ List!Busy("insert_tail", t)
    <3> HIDE DEF t
    <3> QED BY <1>2 DEF List!Accepts, List!Busy, Ending
  <2>2. List!SimController("insert_tail", r, t) = List!sim_insert_tail(r, t)
    BY SimDispatch
  <2> HIDE DEF t
  <2> QED BY <2>1, <2>2 DEF List!sim_insert_tail
<1> HIDE DEF t
<1>4. /\ Shaped(s1)
      /\ s1.fl_mem = t.fl_mem /\ s1.fl_rdp = t.fl_rdp /\ s1.fl_wrp = t.fl_wrp
      /\ s1.fl_cnt = t.fl_cnt /\ s1.data = t.data /\ s1.prev = t.prev /\ s1.head = t.head
      /\ s1.tail = t.tail /\ s1.length = t.length /\ s1.ctl = t.ctl
      /\ s1.next = (IF c.was_empty THEN t.next ELSE [t.next EXCEPT ![t.tail[c.head]] = c.handle])
  BY <1>1 DEF Shaped, Fields
<1> HIDE DEF s1
<1>5. /\ Shaped(s2)
      /\ s2.fl_mem = s1.fl_mem /\ s2.fl_rdp = s1.fl_rdp /\ s2.fl_wrp = s1.fl_wrp
      /\ s2.fl_cnt = s1.fl_cnt /\ s2.data = s1.data /\ s2.next = s1.next
      /\ s2.head = s1.head /\ s2.tail = s1.tail /\ s2.length = s1.length /\ s2.ctl = s1.ctl
      /\ s2.prev = (IF n_decl.doubly THEN [s1.prev EXCEPT ![c.handle] = s1.tail[c.head]] ELSE s1.prev)
  BY <1>4 DEF Shaped, Fields
<1> HIDE DEF s2
<1>6. /\ Shaped(s3)
      /\ s3.fl_mem = s2.fl_mem /\ s3.fl_rdp = s2.fl_rdp /\ s3.fl_wrp = s2.fl_wrp
      /\ s3.fl_cnt = s2.fl_cnt /\ s3.data = s2.data /\ s3.next = s2.next
      /\ s3.prev = s2.prev /\ s3.head = s2.head /\ s3.length = s2.length /\ s3.ctl = s2.ctl
      /\ s3.tail = [s2.tail EXCEPT ![c.head] = c.handle]
  BY <1>5 DEF Shaped, Fields
<1> HIDE DEF s3
<1>7. /\ Shaped(s4)
      /\ s4.fl_mem = s3.fl_mem /\ s4.fl_rdp = s3.fl_rdp /\ s4.fl_wrp = s3.fl_wrp
      /\ s4.fl_cnt = s3.fl_cnt /\ s4.data = s3.data /\ s4.next = s3.next
      /\ s4.prev = s3.prev /\ s4.tail = s3.tail /\ s4.length = s3.length /\ s4.ctl = s3.ctl
      /\ s4.head = (IF c.was_empty THEN [s3.head EXCEPT ![c.head] = c.handle] ELSE s3.head)
  BY <1>6 DEF Shaped, Fields
<1> HIDE DEF s4
<1>8. /\ Shaped(s5)
      /\ s5.fl_mem = s4.fl_mem /\ s5.fl_rdp = s4.fl_rdp /\ s5.fl_wrp = s4.fl_wrp
      /\ s5.fl_cnt = s4.fl_cnt /\ s5.data = s4.data /\ s5.next = s4.next
      /\ s5.prev = s4.prev /\ s5.head = s4.head /\ s5.tail = s4.tail /\ s5.ctl = s4.ctl
      /\ s5.length = IF n_decl.heads > 1
                     THEN [s4.length EXCEPT ![c.head] = s4.length[c.head] + 1]
                     ELSE s4.length
  BY <1>7 DEF List!SimCounted, List!multi_head, Shaped, Fields
<1> HIDE DEF s5
<1>9. /\ Shaped(z)
      /\ z.fl_mem = s5.fl_mem /\ z.fl_rdp = s5.fl_rdp /\ z.fl_wrp = s5.fl_wrp
      /\ z.fl_cnt = s5.fl_cnt /\ z.data = s5.data /\ z.next = s5.next /\ z.prev = s5.prev
      /\ z.head = s5.head /\ z.tail = s5.tail /\ z.length = s5.length
      /\ z.ctl = [s5.ctl EXCEPT !["insert_tail"] = List!Answers(s5.ctl["insert_tail"].handle)]
  BY <1>8 DEF List!SimDone, Shaped, Fields
<1> HIDE DEF z
<1>10. /\ w.fl_mem = y.fl_mem /\ w.fl_rdp = y.fl_rdp /\ w.fl_wrp = y.fl_wrp
      /\ w.fl_cnt = y.fl_cnt /\ w.data = y.data /\ w.next = y.next /\ w.prev = y.prev
      /\ w.head = y.head /\ w.length = y.length /\ w.ctl = y.ctl
      /\ w.tail = z.tail
  BY DEF WithTail
<1> HIDE DEF w, y
<1>11. z.length = y.length
  <2>1. y.length = IF n_decl.heads = 1 THEN s.length
                   ELSE [s.length EXCEPT ![c.head] = s.length[c.head] + 1]
    BY <1>2 DEF y, Finished, Deletions
  <2>2. CASE n_decl.heads = 1
    BY <2>1, <2>2, <1>1, <1>4, <1>5, <1>6, <1>7, <1>2, <1>8, <1>9
  <2>3. CASE n_decl.heads > 1
    <3>1. s.length[c.head] \in Nat
      BY <1>2, <2>3, PoolAssumption DEF Ending, Deletions
    <3>2. s.length[c.head] + 1 = s.length[c.head] + 1
      BY <3>1
    <3> QED BY <2>1, <2>3, <3>2, <1>1, <1>4, <1>5, <1>6, <1>7, <1>2, <1>8, <1>9
  <2> QED BY <2>2, <2>3, PoolAssumption
<1>12. n_decl.track_tail /\ u = s.tail
  BY DEF Supports, Ending
<1>13. /\ z.fl_mem = y.fl_mem /\ z.fl_rdp = y.fl_rdp /\ z.fl_wrp = y.fl_wrp
      /\ z.fl_cnt = y.fl_cnt /\ z.data = y.data
  BY <1>1, <1>4, <1>5, <1>6, <1>7, <1>2, <1>8, <1>9, SMTT(30) DEF y, Finished, Deletions
<1>14. z.next = y.next
  <2>1. y.next = IF c.was_empty THEN s.next ELSE [s.next EXCEPT ![s.tail[c.head]] = c.handle]
    BY <1>2 DEF y, Finished
  <2> QED BY <2>1, <1>1, <1>4, <1>5, <1>6, <1>7, <1>2, <1>8, <1>9, <1>12, SMTT(30)
<1>15. z.prev = y.prev
  <2>1. y.prev = IF n_decl.doubly THEN [s.prev EXCEPT ![c.handle] = s.tail[c.head]] ELSE s.prev
    BY <1>2 DEF y, Finished
  <2>2. CASE n_decl.doubly
    BY <2>1, <2>2, <1>1, <1>4, <1>5, <1>6, <1>7, <1>2, <1>8, <1>9, <1>12, SMTT(30)
  <2>3. CASE ~n_decl.doubly
    BY <2>1, <2>3, <1>1, <1>4, <1>5, <1>6, <1>7, <1>2, <1>8, <1>9, <1>12, SMTT(30)
  <2> QED BY <2>2, <2>3
<1>16. z.head = y.head
  BY <1>1, <1>4, <1>5, <1>6, <1>7, <1>2, <1>8, <1>9, <1>12, SMTT(30) DEF y, Finished
<1>17. z.ctl = y.ctl
  <2>1. y.ctl = [controllers EXCEPT !["insert_tail"] = List!Answers(c.handle)]
    BY DEF y, Finished
  <2>2. s5.ctl = controllers /\ s5.ctl["insert_tail"] = c
    BY <1>1, <1>4, <1>5, <1>6, <1>7, <1>2, <1>8, <1>9
  <2> QED BY <2>1, <2>2, <1>9
<1>18. n_decl.track_tail => z.tail = y.tail
  <2> SUFFICES ASSUME n_decl.track_tail PROVE z.tail = y.tail
    OBVIOUS
  <2>1. y.tail = [s.tail EXCEPT ![c.head] = c.handle]
    BY <1>2 DEF y, Finished
  <2>2. u = s.tail
    OBVIOUS
  <2>3. t.tail = s.tail
    BY <1>1, <2>2
  <2>4. z.tail = [s.tail EXCEPT ![c.head] = c.handle]
    <3> HIDE DEF c
    <3> QED BY <2>3, <1>4, <1>5, <1>6, <1>7, <1>8, <1>9
  <2> QED BY <2>1, <2>4
<1>19. z = w
  BY <1>9, <1>1, <1>10, <1>11, <1>13, <1>14, <1>15, <1>16, <1>17, SameRegisters
<1> QED BY <1>2, <1>3, <1>18, <1>19 DEF t, w, y

(* insert_after in the class, which reads what it has just written.        *)
LEMMA SimFinishInsertAfter ==
    ASSUME NEW s, NEW words, NEW controllers, NEW u, NEW r, n_decl \in ListDecls,
           Supports(n_decl), Ending(n_decl, s, "insert_after"), r.op # "insert_after",
           controllers["insert_after"] = s.ctl["insert_after"], n_decl.track_tail => u = s.tail
    PROVE  LET z == List!SimController("insert_after", r, WithTail(With(s, words, controllers), u))
               y == Finished(n_decl, s, "insert_after", words,
                             [controllers EXCEPT !["insert_after"] = List!Answers(s.ctl["insert_after"].handle)])
           IN  z = WithTail(y, z.tail) /\ (n_decl.track_tail => z.tail = y.tail)
<1> DEFINE t == WithTail(With(s, words, controllers), u)
           c == t.ctl["insert_after"]
           s1 == [t EXCEPT !.next[c.after] = c.handle]
           s2 == IF n_decl.doubly THEN [s1 EXCEPT !.prev[c.handle] = c.after] ELSE s1
           s3 == IF n_decl.doubly THEN [s2 EXCEPT !.prev[s2.next[c.handle]] = c.handle] ELSE s2
           s5 == List!SimCounted(c.head, 1, s3)
           z == List!SimDone("insert_after", s5)
           y == Finished(n_decl, s, "insert_after", words,
                         [controllers EXCEPT !["insert_after"] = List!Answers(c.handle)])
           w == WithTail(y, z.tail)
<1>1. /\ Shaped(t) /\ Shaped(w)
      /\ t.fl_mem = s.fl_mem /\ t.fl_rdp = s.fl_rdp /\ t.fl_wrp = s.fl_wrp
      /\ t.fl_cnt = s.fl_cnt /\ t.next = s.next /\ t.prev = s.prev /\ t.head = s.head
      /\ t.length = s.length
      /\ t.data = words /\ t.ctl = controllers /\ t.tail = u
  <2> HIDE DEF y, z, s5
  <2> QED BY LiteralIsShaped DEF WithTail, With
<1>2. c = s.ctl["insert_after"]
  BY <1>1
<1>3. List!SimController("insert_after", r, t) = z
  <2>1. ~List!Accepts("insert_after", r, t) /\ List!Busy("insert_after", t)
    <3> HIDE DEF t
    <3> QED BY <1>2 DEF List!Accepts, List!Busy, Ending
  <2>2. List!SimController("insert_after", r, t) = List!sim_insert_after(r, t)
    BY SimDispatch
  <2> HIDE DEF t
  <2> QED BY <2>1, <2>2 DEF List!sim_insert_after
<1> HIDE DEF t
<1>4. /\ Shaped(s1)
      /\ s1.fl_mem = t.fl_mem /\ s1.fl_rdp = t.fl_rdp /\ s1.fl_wrp = t.fl_wrp
      /\ s1.fl_cnt = t.fl_cnt /\ s1.data = t.data /\ s1.prev = t.prev /\ s1.head = t.head
      /\ s1.tail = t.tail /\ s1.length = t.length /\ s1.ctl = t.ctl
      /\ s1.next = [t.next EXCEPT ![c.after] = c.handle]
  BY <1>1 DEF Shaped, Fields
<1> HIDE DEF s1
<1>5. /\ Shaped(s2)
      /\ s2.fl_mem = s1.fl_mem /\ s2.fl_rdp = s1.fl_rdp /\ s2.fl_wrp = s1.fl_wrp
      /\ s2.fl_cnt = s1.fl_cnt /\ s2.data = s1.data /\ s2.next = s1.next
      /\ s2.head = s1.head /\ s2.tail = s1.tail /\ s2.length = s1.length /\ s2.ctl = s1.ctl
      /\ s2.prev = (IF n_decl.doubly THEN [s1.prev EXCEPT ![c.handle] = c.after] ELSE s1.prev)
  BY <1>4 DEF Shaped, Fields
<1> HIDE DEF s2
<1>6. /\ Shaped(s3)
      /\ s3.fl_mem = s2.fl_mem /\ s3.fl_rdp = s2.fl_rdp /\ s3.fl_wrp = s2.fl_wrp
      /\ s3.fl_cnt = s2.fl_cnt /\ s3.data = s2.data /\ s3.next = s2.next
      /\ s3.head = s2.head /\ s3.tail = s2.tail /\ s3.length = s2.length /\ s3.ctl = s2.ctl
      /\ s3.prev = (IF n_decl.doubly THEN [s2.prev EXCEPT ![s2.next[c.handle]] = c.handle] ELSE s2.prev)
  BY <1>5 DEF Shaped, Fields
<1> HIDE DEF s3
<1>7. /\ Shaped(s5)
      /\ s5.fl_mem = s3.fl_mem /\ s5.fl_rdp = s3.fl_rdp /\ s5.fl_wrp = s3.fl_wrp
      /\ s5.fl_cnt = s3.fl_cnt /\ s5.data = s3.data /\ s5.next = s3.next
      /\ s5.prev = s3.prev /\ s5.head = s3.head /\ s5.tail = s3.tail /\ s5.ctl = s3.ctl
      /\ s5.length = IF n_decl.heads > 1
                     THEN [s3.length EXCEPT ![c.head] = s3.length[c.head] + 1]
                     ELSE s3.length
  BY <1>6 DEF List!SimCounted, List!multi_head, Shaped, Fields
<1> HIDE DEF s5
<1>8. /\ Shaped(z)
      /\ z.fl_mem = s5.fl_mem /\ z.fl_rdp = s5.fl_rdp /\ z.fl_wrp = s5.fl_wrp
      /\ z.fl_cnt = s5.fl_cnt /\ z.data = s5.data /\ z.next = s5.next /\ z.prev = s5.prev
      /\ z.head = s5.head /\ z.tail = s5.tail /\ z.length = s5.length
      /\ z.ctl = [s5.ctl EXCEPT !["insert_after"] = List!Answers(s5.ctl["insert_after"].handle)]
  BY <1>7 DEF List!SimDone, Shaped, Fields
<1> HIDE DEF z
<1>9. /\ w.fl_mem = y.fl_mem /\ w.fl_rdp = y.fl_rdp /\ w.fl_wrp = y.fl_wrp
      /\ w.fl_cnt = y.fl_cnt /\ w.data = y.data /\ w.next = y.next /\ w.prev = y.prev
      /\ w.head = y.head /\ w.length = y.length /\ w.ctl = y.ctl
      /\ w.tail = z.tail
  BY DEF WithTail
<1> HIDE DEF w, y
<1>10. z.length = y.length
  <2>1. y.length = IF n_decl.heads = 1 THEN s.length
                   ELSE [s.length EXCEPT ![c.head] = s.length[c.head] + 1]
    BY <1>2 DEF y, Finished, Deletions
  <2>2. CASE n_decl.heads = 1
    BY <2>1, <2>2, <1>1, <1>4, <1>5, <1>6, <1>2, <1>7, <1>8
  <2>3. CASE n_decl.heads > 1
    <3>1. s.length[c.head] \in Nat
      BY <1>2, <2>3, PoolAssumption DEF Ending, Deletions
    <3>2. s.length[c.head] + 1 = s.length[c.head] + 1
      BY <3>1
    <3> QED BY <2>1, <2>3, <3>2, <1>1, <1>4, <1>5, <1>6, <1>2, <1>7, <1>8
  <2> QED BY <2>2, <2>3, PoolAssumption
<1>11. /\ z.fl_mem = y.fl_mem /\ z.fl_rdp = y.fl_rdp /\ z.fl_wrp = y.fl_wrp
      /\ z.fl_cnt = y.fl_cnt /\ z.data = y.data
  BY <1>1, <1>4, <1>5, <1>6, <1>2, <1>7, <1>8, SMTT(30) DEF y, Finished, Deletions
<1>12. z.next = y.next
  <2>1. y.next = [s.next EXCEPT ![c.after] = c.handle]
    BY <1>2 DEF y, Finished
  <2> QED BY <2>1, <1>1, <1>4, <1>5, <1>6, <1>2, <1>7, <1>8, SMTT(30)
<1>13. z.prev = y.prev
  <2>1. y.prev = IF n_decl.doubly THEN [s.prev EXCEPT ![c.handle] = c.after, ![s.next[c.handle]] = c.handle] ELSE s.prev
    BY <1>2 DEF y, Finished
  <2>2. CASE n_decl.doubly
    <3>1. c.after # c.handle
      BY <1>2 DEF Ending
    <3>2. s2.next[c.handle] = s.next[c.handle]
      BY <3>1, <1>1, <1>4, <1>5, <1>6, <1>2, <1>7, <1>8, SMTT(30)
    <3> QED BY <2>1, <2>2, <3>2, <1>1, <1>4, <1>5, <1>6, <1>2, <1>7, <1>8, SMTT(30)
  <2>3. CASE ~n_decl.doubly
    BY <2>1, <2>3, <1>1, <1>4, <1>5, <1>6, <1>2, <1>7, <1>8
  <2> QED BY <2>2, <2>3
<1>14. z.head = y.head
  BY <1>1, <1>4, <1>5, <1>6, <1>2, <1>7, <1>8, SMTT(30) DEF y, Finished
<1>15. z.ctl = y.ctl
  <2>1. y.ctl = [controllers EXCEPT !["insert_after"] = List!Answers(c.handle)]
    BY DEF y, Finished
  <2>2. s5.ctl = controllers /\ s5.ctl["insert_after"] = c
    BY <1>1, <1>4, <1>5, <1>6, <1>2, <1>7, <1>8, SMTT(30)
  <2> QED BY <2>1, <2>2, <1>8
<1>16. n_decl.track_tail => z.tail = y.tail
  <2> SUFFICES ASSUME n_decl.track_tail PROVE z.tail = y.tail
    OBVIOUS
  <2>1. y.tail = s.tail
    BY <1>2 DEF y, Finished
  <2>2. u = s.tail
    OBVIOUS
  <2>3. t.tail = s.tail
    BY <1>1, <2>2
  <2>4. z.tail = s.tail
    <3> HIDE DEF c
    <3> QED BY <2>3, <1>4, <1>5, <1>6, <1>7, <1>8
  <2> QED BY <2>1, <2>4
<1>17. z = w
  BY <1>8, <1>1, <1>9, <1>10, <1>11, <1>12, <1>13, <1>14, <1>15, SameRegisters
<1> QED BY <1>2, <1>3, <1>16, <1>17 DEF t, w, y

(* delete_head in the class.                                               *)
LEMMA SimFinishDeleteHead ==
    ASSUME NEW s, NEW words, NEW controllers, NEW u, NEW r, n_decl \in ListDecls,
           Supports(n_decl), Ending(n_decl, s, "delete_head"), r.op # "delete_head",
           controllers["delete_head"] = s.ctl["delete_head"], n_decl.track_tail => u = s.tail
    PROVE  LET z == List!SimController("delete_head", r, WithTail(With(s, words, controllers), u))
               y == Finished(n_decl, s, "delete_head", words,
                             [controllers EXCEPT !["delete_head"] = List!Answers(s.ctl["delete_head"].handle)])
           IN  z = WithTail(y, z.tail) /\ (n_decl.track_tail => z.tail = y.tail)
<1> DEFINE t == WithTail(With(s, words, controllers), u)
           c == t.ctl["delete_head"]
           s1 == List!SimGiveBack(c.handle, t)
           s2 == [s1 EXCEPT !.head[c.head] = s1.next[c.handle]]
           s5 == List!SimCounted(c.head, -1, s2)
           z == List!SimDone("delete_head", s5)
           y == Finished(n_decl, s, "delete_head", words,
                         [controllers EXCEPT !["delete_head"] = List!Answers(c.handle)])
           w == WithTail(y, z.tail)
<1>1. /\ Shaped(t) /\ Shaped(w)
      /\ t.fl_mem = s.fl_mem /\ t.fl_rdp = s.fl_rdp /\ t.fl_wrp = s.fl_wrp
      /\ t.fl_cnt = s.fl_cnt /\ t.next = s.next /\ t.prev = s.prev /\ t.head = s.head
      /\ t.length = s.length
      /\ t.data = words /\ t.ctl = controllers /\ t.tail = u
  <2> HIDE DEF y, z, s5
  <2> QED BY LiteralIsShaped DEF WithTail, With
<1>2. c = s.ctl["delete_head"]
  BY <1>1
<1>3. List!SimController("delete_head", r, t) = z
  <2>1. ~List!Accepts("delete_head", r, t) /\ List!Busy("delete_head", t)
    <3> HIDE DEF t
    <3> QED BY <1>2 DEF List!Accepts, List!Busy, Ending
  <2>2. List!SimController("delete_head", r, t) = List!sim_delete_head(r, t)
    BY SimDispatch
  <2> HIDE DEF t
  <2> QED BY <2>1, <2>2 DEF List!sim_delete_head
<1> HIDE DEF t
<1>4. /\ Shaped(s1)
      /\ s1.fl_rdp = t.fl_rdp /\ s1.data = t.data /\ s1.next = t.next /\ s1.prev = t.prev
      /\ s1.head = t.head /\ s1.tail = t.tail /\ s1.length = t.length /\ s1.ctl = t.ctl
      /\ s1.fl_mem = [t.fl_mem EXCEPT ![t.fl_wrp % NODES] = c.handle]
      /\ s1.fl_wrp = List!Up(t.fl_wrp)
      /\ s1.fl_cnt = t.fl_cnt + 1
  BY <1>1 DEF Shaped, Fields, List!SimGiveBack
<1> HIDE DEF s1
<1>5. /\ Shaped(s2)
      /\ s2.fl_mem = s1.fl_mem /\ s2.fl_rdp = s1.fl_rdp /\ s2.fl_wrp = s1.fl_wrp
      /\ s2.fl_cnt = s1.fl_cnt /\ s2.data = s1.data /\ s2.next = s1.next
      /\ s2.prev = s1.prev /\ s2.tail = s1.tail /\ s2.length = s1.length /\ s2.ctl = s1.ctl
      /\ s2.head = [s1.head EXCEPT ![c.head] = s1.next[c.handle]]
  BY <1>4 DEF Shaped, Fields
<1> HIDE DEF s2
<1>6. /\ Shaped(s5)
      /\ s5.fl_mem = s2.fl_mem /\ s5.fl_rdp = s2.fl_rdp /\ s5.fl_wrp = s2.fl_wrp
      /\ s5.fl_cnt = s2.fl_cnt /\ s5.data = s2.data /\ s5.next = s2.next
      /\ s5.prev = s2.prev /\ s5.head = s2.head /\ s5.tail = s2.tail /\ s5.ctl = s2.ctl
      /\ s5.length = IF n_decl.heads > 1
                     THEN [s2.length EXCEPT ![c.head] = s2.length[c.head] + (-1)]
                     ELSE s2.length
  BY <1>5 DEF List!SimCounted, List!multi_head, Shaped, Fields
<1> HIDE DEF s5
<1>7. /\ Shaped(z)
      /\ z.fl_mem = s5.fl_mem /\ z.fl_rdp = s5.fl_rdp /\ z.fl_wrp = s5.fl_wrp
      /\ z.fl_cnt = s5.fl_cnt /\ z.data = s5.data /\ z.next = s5.next /\ z.prev = s5.prev
      /\ z.head = s5.head /\ z.tail = s5.tail /\ z.length = s5.length
      /\ z.ctl = [s5.ctl EXCEPT !["delete_head"] = List!Answers(s5.ctl["delete_head"].handle)]
  BY <1>6 DEF List!SimDone, Shaped, Fields
<1> HIDE DEF z
<1>8. /\ w.fl_mem = y.fl_mem /\ w.fl_rdp = y.fl_rdp /\ w.fl_wrp = y.fl_wrp
      /\ w.fl_cnt = y.fl_cnt /\ w.data = y.data /\ w.next = y.next /\ w.prev = y.prev
      /\ w.head = y.head /\ w.length = y.length /\ w.ctl = y.ctl
      /\ w.tail = z.tail
  BY DEF WithTail
<1> HIDE DEF w, y
<1>9. z.length = y.length
  <2>1. y.length = IF n_decl.heads = 1 THEN s.length
                   ELSE [s.length EXCEPT ![c.head] = s.length[c.head] - 1]
    BY <1>2 DEF y, Finished, Deletions
  <2>2. CASE n_decl.heads = 1
    BY <2>1, <2>2, <1>1, <1>4, <1>5, <1>2, <1>6, <1>7
  <2>3. CASE n_decl.heads > 1
    <3>1. s.length[c.head] \in Nat
      BY <1>2, <2>3, PoolAssumption DEF Ending, Deletions
    <3>2. s.length[c.head] + (-1) = s.length[c.head] - 1
      BY <3>1
    <3> QED BY <2>1, <2>3, <3>2, <1>1, <1>4, <1>5, <1>2, <1>6, <1>7
  <2> QED BY <2>2, <2>3, PoolAssumption
<1>10. /\ z.fl_mem = y.fl_mem /\ z.fl_rdp = y.fl_rdp /\ z.fl_wrp = y.fl_wrp
      /\ z.fl_cnt = y.fl_cnt /\ z.data = y.data
  BY <1>1, <1>4, <1>5, <1>2, <1>6, <1>7 DEF y, Finished, Deletions
<1>11. z.next = y.next
  <2>1. y.next = s.next
    BY <1>2 DEF y, Finished
  <2> QED BY <2>1, <1>1, <1>4, <1>5, <1>2, <1>6, <1>7
<1>12. z.prev = y.prev
  <2>1. y.prev = IF n_decl.doubly THEN s.prev ELSE s.prev
    BY <1>2 DEF y, Finished
  <2>2. CASE n_decl.doubly
    BY <2>1, <2>2, <1>1, <1>4, <1>5, <1>2, <1>6, <1>7
  <2>3. CASE ~n_decl.doubly
    BY <2>1, <2>3, <1>1, <1>4, <1>5, <1>2, <1>6, <1>7
  <2> QED BY <2>2, <2>3
<1>13. z.head = y.head
  BY <1>1, <1>4, <1>5, <1>2, <1>6, <1>7 DEF y, Finished
<1>14. z.ctl = y.ctl
  <2>1. y.ctl = [controllers EXCEPT !["delete_head"] = List!Answers(c.handle)]
    BY DEF y, Finished
  <2>2. s5.ctl = controllers /\ s5.ctl["delete_head"] = c
    BY <1>1, <1>4, <1>5, <1>2, <1>6, <1>7
  <2> QED BY <2>1, <2>2, <1>7
<1>15. n_decl.track_tail => z.tail = y.tail
  <2> SUFFICES ASSUME n_decl.track_tail PROVE z.tail = y.tail
    OBVIOUS
  <2>1. y.tail = s.tail
    BY <1>2 DEF y, Finished
  <2>2. u = s.tail
    OBVIOUS
  <2>3. t.tail = s.tail
    BY <1>1, <2>2
  <2>4. z.tail = s.tail
    <3> HIDE DEF c
    <3> QED BY <2>3, <1>4, <1>5, <1>6, <1>7
  <2> QED BY <2>1, <2>4
<1>16. z = w
  BY <1>7, <1>1, <1>8, <1>9, <1>10, <1>11, <1>12, <1>13, <1>14, SameRegisters
<1> QED BY <1>2, <1>3, <1>15, <1>16 DEF t, w, y

(* delete in the class.                                                    *)
LEMMA SimFinishDelete ==
    ASSUME NEW s, NEW words, NEW controllers, NEW u, NEW r, n_decl \in ListDecls,
           Supports(n_decl), Ending(n_decl, s, "delete"), r.op # "delete",
           controllers["delete"] = s.ctl["delete"], n_decl.track_tail => u = s.tail
    PROVE  LET z == List!SimController("delete", r, WithTail(With(s, words, controllers), u))
               y == Finished(n_decl, s, "delete", words,
                             [controllers EXCEPT !["delete"] = List!Answers(s.ctl["delete"].handle)])
           IN  z = WithTail(y, z.tail) /\ (n_decl.track_tail => z.tail = y.tail)
<1> DEFINE t == WithTail(With(s, words, controllers), u)
           c == t.ctl["delete"]
           s1 == List!SimGiveBack(c.handle, t)
           s5 == List!SimCounted(c.head, -1, s1)
           z == List!SimDone("delete", s5)
           y == Finished(n_decl, s, "delete", words,
                         [controllers EXCEPT !["delete"] = List!Answers(c.handle)])
           w == WithTail(y, z.tail)
<1>1. /\ Shaped(t) /\ Shaped(w)
      /\ t.fl_mem = s.fl_mem /\ t.fl_rdp = s.fl_rdp /\ t.fl_wrp = s.fl_wrp
      /\ t.fl_cnt = s.fl_cnt /\ t.next = s.next /\ t.prev = s.prev /\ t.head = s.head
      /\ t.length = s.length
      /\ t.data = words /\ t.ctl = controllers /\ t.tail = u
  <2> HIDE DEF y, z, s5
  <2> QED BY LiteralIsShaped DEF WithTail, With
<1>2. c = s.ctl["delete"]
  BY <1>1
<1>3. List!SimController("delete", r, t) = z
  <2>1. ~List!Accepts("delete", r, t) /\ List!Busy("delete", t)
    <3> HIDE DEF t
    <3> QED BY <1>2 DEF List!Accepts, List!Busy, Ending
  <2>2. List!SimController("delete", r, t) = List!sim_delete(r, t)
    BY SimDispatch
  <2> HIDE DEF t
  <2> QED BY <2>1, <2>2 DEF List!sim_delete
<1> HIDE DEF t
<1>4. /\ Shaped(s1)
      /\ s1.fl_rdp = t.fl_rdp /\ s1.data = t.data /\ s1.next = t.next /\ s1.prev = t.prev
      /\ s1.head = t.head /\ s1.tail = t.tail /\ s1.length = t.length /\ s1.ctl = t.ctl
      /\ s1.fl_mem = [t.fl_mem EXCEPT ![t.fl_wrp % NODES] = c.handle]
      /\ s1.fl_wrp = List!Up(t.fl_wrp)
      /\ s1.fl_cnt = t.fl_cnt + 1
  BY <1>1 DEF Shaped, Fields, List!SimGiveBack
<1> HIDE DEF s1
<1>5. /\ Shaped(s5)
      /\ s5.fl_mem = s1.fl_mem /\ s5.fl_rdp = s1.fl_rdp /\ s5.fl_wrp = s1.fl_wrp
      /\ s5.fl_cnt = s1.fl_cnt /\ s5.data = s1.data /\ s5.next = s1.next
      /\ s5.prev = s1.prev /\ s5.head = s1.head /\ s5.tail = s1.tail /\ s5.ctl = s1.ctl
      /\ s5.length = IF n_decl.heads > 1
                     THEN [s1.length EXCEPT ![c.head] = s1.length[c.head] + (-1)]
                     ELSE s1.length
  BY <1>4 DEF List!SimCounted, List!multi_head, Shaped, Fields
<1> HIDE DEF s5
<1>6. /\ Shaped(z)
      /\ z.fl_mem = s5.fl_mem /\ z.fl_rdp = s5.fl_rdp /\ z.fl_wrp = s5.fl_wrp
      /\ z.fl_cnt = s5.fl_cnt /\ z.data = s5.data /\ z.next = s5.next /\ z.prev = s5.prev
      /\ z.head = s5.head /\ z.tail = s5.tail /\ z.length = s5.length
      /\ z.ctl = [s5.ctl EXCEPT !["delete"] = List!Answers(s5.ctl["delete"].handle)]
  BY <1>5 DEF List!SimDone, Shaped, Fields
<1> HIDE DEF z
<1>7. /\ w.fl_mem = y.fl_mem /\ w.fl_rdp = y.fl_rdp /\ w.fl_wrp = y.fl_wrp
      /\ w.fl_cnt = y.fl_cnt /\ w.data = y.data /\ w.next = y.next /\ w.prev = y.prev
      /\ w.head = y.head /\ w.length = y.length /\ w.ctl = y.ctl
      /\ w.tail = z.tail
  BY DEF WithTail
<1> HIDE DEF w, y
<1>8. z.length = y.length
  <2>1. y.length = IF n_decl.heads = 1 THEN s.length
                   ELSE [s.length EXCEPT ![c.head] = s.length[c.head] - 1]
    BY <1>2 DEF y, Finished, Deletions
  <2>2. CASE n_decl.heads = 1
    BY <2>1, <2>2, <1>1, <1>4, <1>2, <1>5, <1>6
  <2>3. CASE n_decl.heads > 1
    <3>1. s.length[c.head] \in Nat
      BY <1>2, <2>3, PoolAssumption DEF Ending, Deletions
    <3>2. s.length[c.head] + (-1) = s.length[c.head] - 1
      BY <3>1
    <3> QED BY <2>1, <2>3, <3>2, <1>1, <1>4, <1>2, <1>5, <1>6
  <2> QED BY <2>2, <2>3, PoolAssumption
<1>9. /\ z.fl_mem = y.fl_mem /\ z.fl_rdp = y.fl_rdp /\ z.fl_wrp = y.fl_wrp
      /\ z.fl_cnt = y.fl_cnt /\ z.data = y.data
  BY <1>1, <1>4, <1>2, <1>5, <1>6 DEF y, Finished, Deletions
<1>10. z.next = y.next
  <2>1. y.next = s.next
    BY <1>2 DEF y, Finished
  <2> QED BY <2>1, <1>1, <1>4, <1>2, <1>5, <1>6
<1>11. z.prev = y.prev
  <2>1. y.prev = IF n_decl.doubly THEN s.prev ELSE s.prev
    BY <1>2 DEF y, Finished
  <2>2. CASE n_decl.doubly
    BY <2>1, <2>2, <1>1, <1>4, <1>2, <1>5, <1>6
  <2>3. CASE ~n_decl.doubly
    BY <2>1, <2>3, <1>1, <1>4, <1>2, <1>5, <1>6
  <2> QED BY <2>2, <2>3
<1>12. z.head = y.head
  BY <1>1, <1>4, <1>2, <1>5, <1>6 DEF y, Finished
<1>13. z.ctl = y.ctl
  <2>1. y.ctl = [controllers EXCEPT !["delete"] = List!Answers(c.handle)]
    BY DEF y, Finished
  <2>2. s5.ctl = controllers /\ s5.ctl["delete"] = c
    BY <1>1, <1>4, <1>2, <1>5, <1>6
  <2> QED BY <2>1, <2>2, <1>6
<1>14. n_decl.track_tail => z.tail = y.tail
  <2> SUFFICES ASSUME n_decl.track_tail PROVE z.tail = y.tail
    OBVIOUS
  <2>1. y.tail = s.tail
    BY <1>2 DEF y, Finished
  <2>2. u = s.tail
    OBVIOUS
  <2>3. t.tail = s.tail
    BY <1>1, <2>2
  <2>4. z.tail = s.tail
    <3> HIDE DEF c
    <3> QED BY <2>3, <1>4, <1>5, <1>6
  <2> QED BY <2>1, <2>4
<1>15. z = w
  BY <1>6, <1>1, <1>7, <1>8, <1>9, <1>10, <1>11, <1>12, <1>13, SameRegisters
<1> QED BY <1>2, <1>3, <1>14, <1>15 DEF t, w, y

AllIdle == [op \in List!Operations |-> List!Idle]

(* An insertion that is accepted, in the circuit.                          *)
LEMMA AcceptInsertion ==
    ASSUME NEW s, NEW r, r.op \in List!Insertions, s.fl_cnt \in 0..NODES,
           s.ctl[r.op].phase # "busy"
    PROVE  List!Controller(r.op, r, s, With(s, s.data, AllIdle)) = Accepted(s, r)
<1> DEFINE x == With(s, s.data, AllIdle)
           latched == [phase |-> "busy", handle |-> List!Slot(s), head |-> r.head,
                       was_empty |-> List!IsEmpty(s, r.head),
                       after |-> IF r.op = "insert_after" THEN r.handle ELSE 0]
           a == List!Accept(r.op, r, s, x)
           z == IF r.op = "insert_after" THEN [a EXCEPT !.next[List!Slot(s)] = s.next[r.handle]]
                ELSE a
           y == Accepted(s, r)
<1>1. /\ Shaped(x)
      /\ x.fl_mem = s.fl_mem /\ x.fl_rdp = s.fl_rdp /\ x.fl_wrp = s.fl_wrp /\ x.fl_cnt = s.fl_cnt
      /\ x.next = s.next /\ x.prev = s.prev /\ x.head = s.head /\ x.tail = s.tail
      /\ x.length = s.length /\ x.data = s.data /\ x.ctl = AllIdle
  BY LiteralIsShaped DEF With
<1>2. Shaped(y)
  <2> HIDE DEF x
  <2> QED BY LiteralIsShaped DEF Accepted
<1> HIDE DEF x
<1>3. ~List!Busy(r.op, s) /\ List!Accepts(r.op, r, s)
  BY DEF List!Accepts, List!Busy
<1>4. List!Controller(r.op, r, s, x) = IF s.fl_cnt # 0 THEN z ELSE x
  <2>1. CASE r.op = "insert_head"
    <3>1. List!Controller(r.op, r, s, x) = List!insert_head(r, s, x)
      BY <2>1, Dispatch
    <3> QED BY <3>1, <2>1, <1>3 DEF List!insert_head
  <2>2. CASE r.op = "insert_tail"
    <3>1. List!Controller(r.op, r, s, x) = List!insert_tail(r, s, x)
      BY <2>2, Dispatch
    <3> QED BY <3>1, <2>2, <1>3 DEF List!insert_tail
  <2>3. CASE r.op = "insert_after"
    <3>1. List!Controller(r.op, r, s, x) = List!insert_after(r, s, x)
      BY <2>3, Dispatch
    <3> QED BY <3>1, <2>3, <1>3 DEF List!insert_after
  <2> QED BY <2>1, <2>2, <2>3 DEF List!Insertions
<1>5. /\ r.op \in List!Operations /\ r.op \notin {"alloc", "free", "write_data", "delete_head", "delete"}
      /\ r.op \notin List!Reads
  BY DEF List!Insertions, List!Operations, List!Reads
<1>6. Latch(s, r) = IF s.fl_cnt = 0 THEN List!Idle ELSE latched
  BY <1>5 DEF Latch
<1> HIDE DEF latched
<1>7. CASE s.fl_cnt = 0
  <2>1. /\ y.fl_mem = s.fl_mem /\ y.fl_rdp = s.fl_rdp /\ y.fl_wrp = s.fl_wrp /\ y.fl_cnt = s.fl_cnt
        /\ y.next = s.next /\ y.prev = s.prev /\ y.head = s.head /\ y.tail = s.tail
        /\ y.length = s.length /\ y.data = s.data /\ y.ctl = AllIdle
    BY <1>5, <1>6, <1>7 DEF Accepted, Takes, AllIdle
  <2> HIDE DEF y
  <2>2. x = y
    BY <1>1, <1>2, <2>1, SameRegisters
  <2> QED BY <2>2, <1>4, <1>7 DEF x, y
<1>8. CASE s.fl_cnt # 0
  <2>1. /\ Shaped(a)
        /\ a.fl_mem = x.fl_mem /\ a.fl_rdp = List!Up(s.fl_rdp) /\ a.fl_wrp = x.fl_wrp
        /\ a.fl_cnt = List!Down(s.fl_cnt) /\ a.data = [x.data EXCEPT ![List!Slot(s)] = r.data]
        /\ a.next = x.next /\ a.prev = x.prev /\ a.head = x.head /\ a.tail = x.tail
        /\ a.length = x.length /\ a.ctl = [x.ctl EXCEPT ![r.op] = latched]
    BY <1>1 DEF List!Accept, List!Take, Shaped, Fields, latched
  <2> HIDE DEF a
  <2>2. /\ Shaped(z)
        /\ z.fl_mem = a.fl_mem /\ z.fl_rdp = a.fl_rdp /\ z.fl_wrp = a.fl_wrp
        /\ z.fl_cnt = a.fl_cnt /\ z.data = a.data /\ z.prev = a.prev /\ z.head = a.head
        /\ z.tail = a.tail /\ z.length = a.length /\ z.ctl = a.ctl
        /\ z.next = IF r.op = "insert_after" THEN [a.next EXCEPT ![List!Slot(s)] = s.next[r.handle]]
                    ELSE a.next
    BY <2>1 DEF Shaped, Fields
  <2> HIDE DEF z
  <2>3. List!Down(s.fl_cnt) = s.fl_cnt - 1
    BY <1>8, NextCount
  <2>4. Takes(s, r)
    BY <1>8 DEF Takes
  <2>5. /\ y.fl_mem = s.fl_mem /\ y.fl_rdp = List!Up(s.fl_rdp) /\ y.fl_wrp = s.fl_wrp
        /\ y.fl_cnt = s.fl_cnt - 1 /\ y.data = [s.data EXCEPT ![List!Slot(s)] = r.data]
        /\ y.prev = s.prev /\ y.head = s.head /\ y.tail = s.tail /\ y.length = s.length
        /\ y.next = IF r.op = "insert_after" THEN [s.next EXCEPT ![List!Slot(s)] = s.next[r.handle]]
                    ELSE s.next
    BY <1>5, <2>4 DEF Accepted
  <2>6. y.ctl = [AllIdle EXCEPT ![r.op] = latched]
    BY <1>5, <1>6, <1>8 DEF Accepted, AllIdle
  <2> HIDE DEF y
  <2>7. z = y
    BY <1>1, <1>2, <2>1, <2>2, <2>3, <2>5, <2>6, SameRegisters
  <2> QED BY <2>7, <1>4, <1>8 DEF x, y
<1> QED BY <1>7, <1>8

(* The fields after another tail register is put in.                       *)
LEMMA WithTailFacts ==
    ASSUME NEW s, NEW u
    PROVE  LET t == WithTail(s, u)
           IN  /\ Shaped(t) /\ t.tail = u
               /\ t.fl_mem = s.fl_mem /\ t.fl_rdp = s.fl_rdp /\ t.fl_wrp = s.fl_wrp
               /\ t.fl_cnt = s.fl_cnt /\ t.next = s.next /\ t.prev = s.prev /\ t.head = s.head
               /\ t.length = s.length /\ t.data = s.data /\ t.ctl = s.ctl
BY LiteralIsShaped DEF WithTail

(* The fields after words and controllers are put in.                      *)
LEMMA WithFacts ==
    ASSUME NEW s, NEW words, NEW controllers
    PROVE  LET t == With(s, words, controllers)
           IN  /\ Shaped(t) /\ t.data = words /\ t.ctl = controllers
               /\ t.fl_mem = s.fl_mem /\ t.fl_rdp = s.fl_rdp /\ t.fl_wrp = s.fl_wrp
               /\ t.fl_cnt = s.fl_cnt /\ t.next = s.next /\ t.prev = s.prev /\ t.head = s.head
               /\ t.length = s.length /\ t.tail = s.tail
BY LiteralIsShaped DEF With

(* Accepting an operation keeps the shape of the registers.                *)
LEMMA AcceptedFacts ==
    ASSUME NEW s, NEW r
    PROVE  Shaped(Accepted(s, r))
BY LiteralIsShaped DEF Accepted

(* The same in the class, which latches before it counts.                  *)
LEMMA SimAcceptInsertion ==
    ASSUME NEW s, NEW u, NEW r, r.op \in List!Insertions, s.fl_cnt \in 0..NODES
    PROVE  List!SimController(r.op, r, WithTail(With(s, s.data, AllIdle), u)) =
               WithTail(Accepted(s, r), u)
<1> DEFINE x == WithTail(With(s, s.data, AllIdle), u)
           latched == [phase |-> "busy", handle |-> List!Slot(s), head |-> r.head,
                       was_empty |-> List!IsEmpty(s, r.head),
                       after |-> IF r.op = "insert_after" THEN r.handle ELSE 0]
           stored == [x EXCEPT !.data[List!Slot(x)] = r.data]
           kept == [stored EXCEPT
               !.ctl[r.op] = [phase |-> "busy", handle |-> List!Slot(x), head |-> r.head,
                           was_empty |-> List!IsEmpty(stored, r.head),
                           after |-> IF r.op = "insert_after" THEN r.handle ELSE 0]]
           a == List!SimTake(kept)
           z == IF r.op = "insert_after" THEN [a EXCEPT !.next[List!Slot(x)] = x.next[r.handle]]
                ELSE a
           y == WithTail(Accepted(s, r), u)
<1>1. /\ Shaped(x)
      /\ x.fl_mem = s.fl_mem /\ x.fl_rdp = s.fl_rdp /\ x.fl_wrp = s.fl_wrp /\ x.fl_cnt = s.fl_cnt
      /\ x.next = s.next /\ x.prev = s.prev /\ x.head = s.head /\ x.tail = u
      /\ x.length = s.length /\ x.data = s.data /\ x.ctl = AllIdle
  BY WithTailFacts, WithFacts
<1>2. Shaped(y)
  BY WithTailFacts
<1> HIDE DEF x
<1>5. /\ r.op \in List!Operations /\ r.op \notin {"alloc", "free", "write_data", "delete_head", "delete"}
      /\ r.op \notin List!Reads
  BY DEF List!Insertions, List!Operations, List!Reads
<1>3. ~List!Busy(r.op, x) /\ List!Accepts(r.op, r, x) /\ List!Slot(x) = List!Slot(s)
  BY <1>1, <1>5 DEF List!Accepts, List!Busy, AllIdle, List!Idle, List!Slot
<1>4. List!SimController(r.op, r, x) = IF x.fl_cnt # 0 THEN z ELSE x
  <2>0. List!SimAccept(r.op, r, x) = a
    BY DEF List!SimAccept
  <2> HIDE DEF a
  <2>1. CASE r.op = "insert_head"
    <3>1. List!SimController(r.op, r, x) = List!sim_insert_head(r, x)
      BY <2>1, SimDispatch
    <3> QED BY <2>0, <3>1, <2>1, <1>3 DEF List!sim_insert_head
  <2>2. CASE r.op = "insert_tail"
    <3>1. List!SimController(r.op, r, x) = List!sim_insert_tail(r, x)
      BY <2>2, SimDispatch
    <3> QED BY <2>0, <3>1, <2>2, <1>3 DEF List!sim_insert_tail
  <2>3. CASE r.op = "insert_after"
    <3>1. List!SimController(r.op, r, x) = List!sim_insert_after(r, x)
      BY <2>3, SimDispatch
    <3> QED BY <2>0, <3>1, <2>3, <1>3 DEF List!sim_insert_after
  <2> QED BY <2>1, <2>2, <2>3 DEF List!Insertions
<1>6. Latch(s, r) = IF s.fl_cnt = 0 THEN List!Idle ELSE latched
  BY <1>5 DEF Latch
<1>9. /\ y.tail = u
      /\ \A f \in Fields \ {"tail"} : y[f] = Accepted(s, r)[f]
  BY WithTailFacts DEF Fields
<1>7. CASE s.fl_cnt = 0
  <2> HIDE DEF latched
  <2>1. /\ y.fl_mem = s.fl_mem /\ y.fl_rdp = s.fl_rdp /\ y.fl_wrp = s.fl_wrp /\ y.fl_cnt = s.fl_cnt
        /\ y.next = s.next /\ y.prev = s.prev /\ y.head = s.head
        /\ y.length = s.length /\ y.data = s.data /\ y.ctl = AllIdle
    BY <1>5, <1>6, <1>7, WithTailFacts DEF Accepted, Takes, AllIdle
  <2> HIDE DEF y
  <2>2. x = y
    BY <1>1, <1>2, <1>9, <2>1, SameRegisters
  <2>3. List!SimController(r.op, r, x) = x
    <3> HIDE DEF z
    <3> QED BY <1>1, <1>4, <1>7
  <2> QED BY <2>2, <2>3 DEF x, y
<1>8. CASE s.fl_cnt # 0
  <2>1. /\ Shaped(stored)
        /\ stored.fl_mem = x.fl_mem /\ stored.fl_rdp = x.fl_rdp /\ stored.fl_wrp = x.fl_wrp
        /\ stored.fl_cnt = x.fl_cnt /\ stored.data = [x.data EXCEPT ![List!Slot(s)] = r.data]
        /\ stored.next = x.next /\ stored.prev = x.prev /\ stored.head = x.head
        /\ stored.tail = x.tail /\ stored.length = x.length /\ stored.ctl = x.ctl
    BY <1>1, <1>3 DEF Shaped, Fields
  <2> HIDE DEF stored
  <2>2. List!IsEmpty(stored, r.head) = List!IsEmpty(s, r.head)
    BY <1>1, <2>1 DEF List!IsEmpty
  <2>3. /\ Shaped(kept)
        /\ kept.fl_mem = stored.fl_mem /\ kept.fl_rdp = stored.fl_rdp
        /\ kept.fl_wrp = stored.fl_wrp /\ kept.fl_cnt = stored.fl_cnt /\ kept.data = stored.data
        /\ kept.next = stored.next /\ kept.prev = stored.prev /\ kept.head = stored.head
        /\ kept.tail = stored.tail /\ kept.length = stored.length
        /\ kept.ctl = [stored.ctl EXCEPT ![r.op] = latched]
    BY <2>1, <2>2, <1>3 DEF Shaped, Fields
  <2> HIDE DEF kept, latched
  <2>4. /\ Shaped(a)
        /\ a.fl_mem = kept.fl_mem /\ a.fl_rdp = List!Up(kept.fl_rdp) /\ a.fl_wrp = kept.fl_wrp
        /\ a.fl_cnt = kept.fl_cnt - 1 /\ a.data = kept.data
        /\ a.next = kept.next /\ a.prev = kept.prev /\ a.head = kept.head /\ a.tail = kept.tail
        /\ a.length = kept.length /\ a.ctl = kept.ctl
    BY <2>3 DEF List!SimTake, Shaped, Fields
  <2> HIDE DEF a
  <2>5. /\ Shaped(z)
        /\ z.fl_mem = a.fl_mem /\ z.fl_rdp = a.fl_rdp /\ z.fl_wrp = a.fl_wrp
        /\ z.fl_cnt = a.fl_cnt /\ z.data = a.data /\ z.prev = a.prev /\ z.head = a.head
        /\ z.tail = a.tail /\ z.length = a.length /\ z.ctl = a.ctl
        /\ z.next = IF r.op = "insert_after" THEN [a.next EXCEPT ![List!Slot(x)] = x.next[r.handle]]
                    ELSE a.next
    BY <2>4 DEF Shaped, Fields
  <2> HIDE DEF z
  <2>6. Takes(s, r)
    BY <1>8 DEF Takes
  <2>7. /\ y.fl_mem = s.fl_mem /\ y.fl_rdp = List!Up(s.fl_rdp) /\ y.fl_wrp = s.fl_wrp
        /\ y.fl_cnt = s.fl_cnt - 1 /\ y.data = [s.data EXCEPT ![List!Slot(s)] = r.data]
        /\ y.prev = s.prev /\ y.head = s.head /\ y.length = s.length
        /\ y.next = IF r.op = "insert_after" THEN [s.next EXCEPT ![List!Slot(s)] = s.next[r.handle]]
                    ELSE s.next
    BY <1>5, <2>6, WithTailFacts DEF Accepted
  <2>8. y.ctl = [AllIdle EXCEPT ![r.op] = latched]
    <3>1. y.ctl = Accepted(s, r).ctl
      BY WithTailFacts
    <3> HIDE DEF y
    <3> QED BY <3>1, <1>5, <1>6, <1>8 DEF Accepted, AllIdle
  <2> HIDE DEF y
  <2>9. z = y
    <3>1. z.fl_mem = y.fl_mem /\ z.fl_rdp = y.fl_rdp /\ z.fl_wrp = y.fl_wrp /\ z.fl_cnt = y.fl_cnt
      BY <1>1, <2>1, <2>3, <2>4, <2>5, <2>7
    <3>2. z.data = y.data /\ z.prev = y.prev /\ z.head = y.head /\ z.tail = y.tail /\ z.length = y.length
      BY <1>1, <1>9, <2>1, <2>3, <2>4, <2>5, <2>7
    <3>3. z.next = y.next
      BY <1>1, <1>3, <2>1, <2>3, <2>4, <2>5, <2>7
    <3>4. z.ctl = y.ctl
      BY <1>1, <2>1, <2>3, <2>4, <2>5, <2>8
    <3> QED BY <1>2, <2>5, <3>1, <3>2, <3>3, <3>4, SameRegisters
  <2>10. List!SimController(r.op, r, x) = z
    BY <1>1, <1>4, <1>8
  <2> QED BY <2>9, <2>10 DEF x, y
<1> QED BY <1>7, <1>8

(* The edge that serves alloc.                                             *)
LEMMA AcceptAlloc ==
    ASSUME NEW s, NEW r, r.op = "alloc", s.fl_cnt \in 0..NODES,
           s.ctl["alloc"].phase # "busy"
    PROVE  List!Controller("alloc", r, s, With(s, s.data, AllIdle)) = Accepted(s, r)
<1> DEFINE x == With(s, s.data, AllIdle)
           z == [List!Take(s, x) EXCEPT !.ctl["alloc"] = List!Answers(List!Slot(s))]
           y == Accepted(s, r)
<1>1. /\ Shaped(x) /\ Shaped(y)
      /\ x.fl_mem = s.fl_mem /\ x.fl_rdp = s.fl_rdp /\ x.fl_wrp = s.fl_wrp
      /\ x.fl_cnt = s.fl_cnt /\ x.data = s.data /\ x.next = s.next /\ x.prev = s.prev
      /\ x.head = s.head /\ x.length = s.length
      /\ x.tail = s.tail /\ x.ctl = AllIdle
  BY WithTailFacts, WithFacts, AcceptedFacts
<1>2. /\ y.tail = s.tail
      /\ y.fl_mem = Accepted(s, r).fl_mem /\ y.fl_rdp = Accepted(s, r).fl_rdp
      /\ y.fl_wrp = Accepted(s, r).fl_wrp /\ y.fl_cnt = Accepted(s, r).fl_cnt
      /\ y.data = Accepted(s, r).data /\ y.next = Accepted(s, r).next
      /\ y.prev = Accepted(s, r).prev /\ y.head = Accepted(s, r).head
      /\ y.length = Accepted(s, r).length /\ y.ctl = Accepted(s, r).ctl
  BY WithTailFacts DEF Accepted
<1> HIDE DEF x, y
<1>3. List!Slot(x) = List!Slot(s) /\ (List!IsEmpty(x, r.head) <=> List!IsEmpty(s, r.head))
  BY <1>1 DEF List!Slot, List!IsEmpty
<1>4. ~List!Busy("alloc", s) /\ List!Accepts("alloc", r, s)
  BY DEF List!Accepts, List!Busy
<1>5. List!Controller("alloc", r, s, x) = IF s.fl_cnt # 0 THEN z ELSE x
  <2>1. List!Controller("alloc", r, s, x) = List!alloc(r, s, x)
    BY Dispatch
  <2> HIDE DEF z
  <2>2. List!alloc(r, s, x) = IF s.fl_cnt # 0 THEN z ELSE x
    BY <1>1, <1>3, <1>4 DEF List!alloc, z
  <2> QED BY <2>1, <2>2
<1>6. s.fl_cnt # 0 => List!Down(s.fl_cnt) = s.fl_cnt - 1
  BY NextCount, PoolAssumption
<1>7. /\ Shaped(z)
      /\ z.fl_mem = x.fl_mem
      /\ z.fl_rdp = List!Up(s.fl_rdp)
      /\ z.fl_wrp = x.fl_wrp
      /\ z.fl_cnt = List!Down(s.fl_cnt)
      /\ z.data = x.data
      /\ z.next = x.next
      /\ z.prev = x.prev
      /\ z.head = x.head
      /\ z.tail = x.tail
      /\ z.length = x.length
      /\ z.ctl = [AllIdle EXCEPT !["alloc"] = List!Answers(List!Slot(s))]
  BY <1>1, <1>3 DEF Shaped, Fields, List!Take
<1> HIDE DEF z
<1>8. CASE s.fl_cnt # 0
  <2>1. /\ Accepted(s, r).fl_mem = s.fl_mem
        /\ Accepted(s, r).fl_rdp = List!Up(s.fl_rdp)
        /\ Accepted(s, r).fl_wrp = s.fl_wrp
        /\ Accepted(s, r).fl_cnt = s.fl_cnt - 1
        /\ Accepted(s, r).data = s.data
        /\ Accepted(s, r).next = s.next
        /\ Accepted(s, r).prev = s.prev
        /\ Accepted(s, r).head = s.head
        /\ Accepted(s, r).length = s.length
    BY <1>8 DEF Accepted, Takes, List!Insertions
  <2>2. Accepted(s, r).ctl = [AllIdle EXCEPT !["alloc"] = List!Answers(List!Slot(s))]
    <3>1. Latch(s, r) = List!Answers(List!Slot(s))
      BY <1>8 DEF Latch, List!Insertions, List!Reads
    <3> QED BY <3>1 DEF Accepted, AllIdle, List!Operations
  <2>3. z = y
    BY <2>1, <2>2, <1>1, <1>2, <1>7, <1>6, <1>8, SameRegisters
  <2> QED BY <2>3, <1>5, <1>8 DEF x, y
<1>9. CASE s.fl_cnt = 0
  <2>1. /\ Accepted(s, r).fl_mem = s.fl_mem
        /\ Accepted(s, r).fl_rdp = s.fl_rdp
        /\ Accepted(s, r).fl_wrp = s.fl_wrp
        /\ Accepted(s, r).fl_cnt = s.fl_cnt
        /\ Accepted(s, r).data = s.data
        /\ Accepted(s, r).next = s.next
        /\ Accepted(s, r).prev = s.prev
        /\ Accepted(s, r).head = s.head
        /\ Accepted(s, r).length = s.length
    BY <1>9 DEF Accepted, Takes, List!Insertions
  <2>2. Accepted(s, r).ctl = AllIdle
    <3>1. Latch(s, r) = List!Idle
      BY <1>9 DEF Latch, List!Insertions, List!Reads
    <3> QED BY <3>1 DEF Accepted, AllIdle, List!Operations
  <2>3. x = y
    BY <2>1, <2>2, <1>1, <1>2, <1>7, <1>6, <1>9, SameRegisters
  <2> QED BY <2>3, <1>5, <1>9 DEF x, y
<1> QED BY <1>8, <1>9

(* The call that serves alloc.                                             *)
LEMMA SimAcceptAlloc ==
    ASSUME NEW s, NEW u, NEW r, r.op = "alloc", s.fl_cnt \in 0..NODES
    PROVE  List!SimController("alloc", r, WithTail(With(s, s.data, AllIdle), u)) = WithTail(Accepted(s, r), u)
<1> DEFINE x == WithTail(With(s, s.data, AllIdle), u)
           z == [List!SimTake(x) EXCEPT !.ctl["alloc"] = List!Answers(List!Slot(x))]
           y == WithTail(Accepted(s, r), u)
<1>1. /\ Shaped(x) /\ Shaped(y)
      /\ x.fl_mem = s.fl_mem /\ x.fl_rdp = s.fl_rdp /\ x.fl_wrp = s.fl_wrp
      /\ x.fl_cnt = s.fl_cnt /\ x.data = s.data /\ x.next = s.next /\ x.prev = s.prev
      /\ x.head = s.head /\ x.length = s.length
      /\ x.tail = u /\ x.ctl = AllIdle
  BY WithTailFacts, WithFacts, AcceptedFacts
<1>2. /\ y.tail = u
      /\ y.fl_mem = Accepted(s, r).fl_mem /\ y.fl_rdp = Accepted(s, r).fl_rdp
      /\ y.fl_wrp = Accepted(s, r).fl_wrp /\ y.fl_cnt = Accepted(s, r).fl_cnt
      /\ y.data = Accepted(s, r).data /\ y.next = Accepted(s, r).next
      /\ y.prev = Accepted(s, r).prev /\ y.head = Accepted(s, r).head
      /\ y.length = Accepted(s, r).length /\ y.ctl = Accepted(s, r).ctl
  BY WithTailFacts DEF WithTail
<1> HIDE DEF x, y
<1>3. List!Slot(x) = List!Slot(s) /\ (List!IsEmpty(x, r.head) <=> List!IsEmpty(s, r.head))
  BY <1>1 DEF List!Slot, List!IsEmpty
<1>4. ~List!Busy("alloc", x) /\ List!Accepts("alloc", r, x)
  BY <1>1 DEF List!Accepts, List!Busy, AllIdle, List!Idle, List!Operations
<1>5. List!SimController("alloc", r, x) = IF s.fl_cnt # 0 THEN z ELSE x
  <2>1. List!SimController("alloc", r, x) = List!sim_alloc(r, x)
    BY SimDispatch
  <2> HIDE DEF z
  <2>2. List!sim_alloc(r, x) = IF s.fl_cnt # 0 THEN z ELSE x
    BY <1>1, <1>3, <1>4 DEF List!sim_alloc, z
  <2> QED BY <2>1, <2>2
<1>6. /\ Shaped(z)
      /\ z.fl_mem = x.fl_mem
      /\ z.fl_rdp = List!Up(s.fl_rdp)
      /\ z.fl_wrp = x.fl_wrp
      /\ z.fl_cnt = s.fl_cnt - 1
      /\ z.data = x.data
      /\ z.next = x.next
      /\ z.prev = x.prev
      /\ z.head = x.head
      /\ z.tail = x.tail
      /\ z.length = x.length
      /\ z.ctl = [AllIdle EXCEPT !["alloc"] = List!Answers(List!Slot(s))]
  BY <1>1, <1>3 DEF Shaped, Fields, List!SimTake
<1> HIDE DEF z
<1>7. CASE s.fl_cnt # 0
  <2>1. /\ Accepted(s, r).fl_mem = s.fl_mem
        /\ Accepted(s, r).fl_rdp = List!Up(s.fl_rdp)
        /\ Accepted(s, r).fl_wrp = s.fl_wrp
        /\ Accepted(s, r).fl_cnt = s.fl_cnt - 1
        /\ Accepted(s, r).data = s.data
        /\ Accepted(s, r).next = s.next
        /\ Accepted(s, r).prev = s.prev
        /\ Accepted(s, r).head = s.head
        /\ Accepted(s, r).length = s.length
    BY <1>7 DEF Accepted, Takes, List!Insertions
  <2>2. Accepted(s, r).ctl = [AllIdle EXCEPT !["alloc"] = List!Answers(List!Slot(s))]
    <3>1. Latch(s, r) = List!Answers(List!Slot(s))
      BY <1>7 DEF Latch, List!Insertions, List!Reads
    <3> QED BY <3>1 DEF Accepted, AllIdle, List!Operations
  <2>3. z = y
    BY <2>1, <2>2, <1>1, <1>2, <1>6, <1>7, SameRegisters
  <2> QED BY <2>3, <1>5, <1>7 DEF x, y
<1>8. CASE s.fl_cnt = 0
  <2>1. /\ Accepted(s, r).fl_mem = s.fl_mem
        /\ Accepted(s, r).fl_rdp = s.fl_rdp
        /\ Accepted(s, r).fl_wrp = s.fl_wrp
        /\ Accepted(s, r).fl_cnt = s.fl_cnt
        /\ Accepted(s, r).data = s.data
        /\ Accepted(s, r).next = s.next
        /\ Accepted(s, r).prev = s.prev
        /\ Accepted(s, r).head = s.head
        /\ Accepted(s, r).length = s.length
    BY <1>8 DEF Accepted, Takes, List!Insertions
  <2>2. Accepted(s, r).ctl = AllIdle
    <3>1. Latch(s, r) = List!Idle
      BY <1>8 DEF Latch, List!Insertions, List!Reads
    <3> QED BY <3>1 DEF Accepted, AllIdle, List!Operations
  <2>3. x = y
    BY <2>1, <2>2, <1>1, <1>2, <1>6, <1>8, SameRegisters
  <2> QED BY <2>3, <1>5, <1>8 DEF x, y
<1> QED BY <1>7, <1>8

(* The edge that serves free.                                              *)
LEMMA AcceptFree ==
    ASSUME NEW s, NEW r, r.op = "free", s.fl_cnt \in 0..(NODES - 1),
           s.ctl["free"].phase # "busy"
    PROVE  List!Controller("free", r, s, With(s, s.data, AllIdle)) = Accepted(s, r)
<1> DEFINE x == With(s, s.data, AllIdle)
           z == List!GiveBack(r.handle, s, x)
           y == Accepted(s, r)
<1>1. /\ Shaped(x) /\ Shaped(y)
      /\ x.fl_mem = s.fl_mem /\ x.fl_rdp = s.fl_rdp /\ x.fl_wrp = s.fl_wrp
      /\ x.fl_cnt = s.fl_cnt /\ x.data = s.data /\ x.next = s.next /\ x.prev = s.prev
      /\ x.head = s.head /\ x.length = s.length
      /\ x.tail = s.tail /\ x.ctl = AllIdle
  BY WithTailFacts, WithFacts, AcceptedFacts
<1>2. /\ y.tail = s.tail
      /\ y.fl_mem = Accepted(s, r).fl_mem /\ y.fl_rdp = Accepted(s, r).fl_rdp
      /\ y.fl_wrp = Accepted(s, r).fl_wrp /\ y.fl_cnt = Accepted(s, r).fl_cnt
      /\ y.data = Accepted(s, r).data /\ y.next = Accepted(s, r).next
      /\ y.prev = Accepted(s, r).prev /\ y.head = Accepted(s, r).head
      /\ y.length = Accepted(s, r).length /\ y.ctl = Accepted(s, r).ctl
  BY WithTailFacts DEF Accepted
<1> HIDE DEF x, y
<1>3. List!Slot(x) = List!Slot(s) /\ (List!IsEmpty(x, r.head) <=> List!IsEmpty(s, r.head))
  BY <1>1 DEF List!Slot, List!IsEmpty
<1>4. ~List!Busy("free", s) /\ List!Accepts("free", r, s)
  BY DEF List!Accepts, List!Busy
<1>5. List!Controller("free", r, s, x) = z
  <2>1. List!Controller("free", r, s, x) = List!free(r, s, x)
    BY Dispatch
  <2> HIDE DEF z
  <2>2. List!free(r, s, x) = z
    BY <1>1, <1>3, <1>4 DEF List!free, z
  <2> QED BY <2>1, <2>2
<1>6. List!Up(s.fl_cnt) = s.fl_cnt + 1
  BY NextCount, PoolAssumption
<1>7. /\ Shaped(z)
      /\ z.fl_mem = [s.fl_mem EXCEPT ![s.fl_wrp % NODES] = r.handle]
      /\ z.fl_rdp = x.fl_rdp
      /\ z.fl_wrp = List!Up(s.fl_wrp)
      /\ z.fl_cnt = List!Up(s.fl_cnt)
      /\ z.data = x.data
      /\ z.next = x.next
      /\ z.prev = x.prev
      /\ z.head = x.head
      /\ z.tail = x.tail
      /\ z.length = x.length
      /\ z.ctl = x.ctl
  BY <1>1, <1>3 DEF Shaped, Fields, List!GiveBack
<1> HIDE DEF z
<1>8. z = y
  <2>1. /\ Accepted(s, r).fl_mem = [s.fl_mem EXCEPT ![s.fl_wrp % NODES] = r.handle]
        /\ Accepted(s, r).fl_rdp = s.fl_rdp
        /\ Accepted(s, r).fl_wrp = List!Up(s.fl_wrp)
        /\ Accepted(s, r).fl_cnt = s.fl_cnt + 1
        /\ Accepted(s, r).data = s.data
        /\ Accepted(s, r).next = s.next
        /\ Accepted(s, r).prev = s.prev
        /\ Accepted(s, r).head = s.head
        /\ Accepted(s, r).length = s.length
    BY DEF Accepted, Takes, List!Insertions
  <2>2. Accepted(s, r).ctl = AllIdle
    <3>1. Latch(s, r) = List!Idle
      BY DEF Latch, List!Insertions, List!Reads
    <3> QED BY <3>1 DEF Accepted, AllIdle, List!Operations
  <2>3. z = y
    BY <2>1, <2>2, <1>1, <1>2, <1>7, <1>6, SameRegisters
  <2> QED BY <2>3
<1> QED BY <1>5, <1>8 DEF x, y

(* The call that serves free.                                              *)
LEMMA SimAcceptFree ==
    ASSUME NEW s, NEW u, NEW r, r.op = "free", s.fl_cnt \in 0..(NODES - 1)
    PROVE  List!SimController("free", r, WithTail(With(s, s.data, AllIdle), u)) = WithTail(Accepted(s, r), u)
<1> DEFINE x == WithTail(With(s, s.data, AllIdle), u)
           z == List!SimGiveBack(r.handle, x)
           y == WithTail(Accepted(s, r), u)
<1>1. /\ Shaped(x) /\ Shaped(y)
      /\ x.fl_mem = s.fl_mem /\ x.fl_rdp = s.fl_rdp /\ x.fl_wrp = s.fl_wrp
      /\ x.fl_cnt = s.fl_cnt /\ x.data = s.data /\ x.next = s.next /\ x.prev = s.prev
      /\ x.head = s.head /\ x.length = s.length
      /\ x.tail = u /\ x.ctl = AllIdle
  BY WithTailFacts, WithFacts, AcceptedFacts
<1>2. /\ y.tail = u
      /\ y.fl_mem = Accepted(s, r).fl_mem /\ y.fl_rdp = Accepted(s, r).fl_rdp
      /\ y.fl_wrp = Accepted(s, r).fl_wrp /\ y.fl_cnt = Accepted(s, r).fl_cnt
      /\ y.data = Accepted(s, r).data /\ y.next = Accepted(s, r).next
      /\ y.prev = Accepted(s, r).prev /\ y.head = Accepted(s, r).head
      /\ y.length = Accepted(s, r).length /\ y.ctl = Accepted(s, r).ctl
  BY WithTailFacts DEF WithTail
<1> HIDE DEF x, y
<1>3. List!Slot(x) = List!Slot(s) /\ (List!IsEmpty(x, r.head) <=> List!IsEmpty(s, r.head))
  BY <1>1 DEF List!Slot, List!IsEmpty
<1>4. ~List!Busy("free", x) /\ List!Accepts("free", r, x)
  BY <1>1 DEF List!Accepts, List!Busy, AllIdle, List!Idle, List!Operations
<1>5. List!SimController("free", r, x) = z
  <2>1. List!SimController("free", r, x) = List!sim_free(r, x)
    BY SimDispatch
  <2> HIDE DEF z
  <2>2. List!sim_free(r, x) = z
    BY <1>1, <1>3, <1>4 DEF List!sim_free, z
  <2> QED BY <2>1, <2>2
<1>6. /\ Shaped(z)
      /\ z.fl_mem = [s.fl_mem EXCEPT ![s.fl_wrp % NODES] = r.handle]
      /\ z.fl_rdp = x.fl_rdp
      /\ z.fl_wrp = List!Up(s.fl_wrp)
      /\ z.fl_cnt = s.fl_cnt + 1
      /\ z.data = x.data
      /\ z.next = x.next
      /\ z.prev = x.prev
      /\ z.head = x.head
      /\ z.tail = x.tail
      /\ z.length = x.length
      /\ z.ctl = x.ctl
  BY <1>1, <1>3 DEF Shaped, Fields, List!SimGiveBack
<1> HIDE DEF z
<1>7. z = y
  <2>1. /\ Accepted(s, r).fl_mem = [s.fl_mem EXCEPT ![s.fl_wrp % NODES] = r.handle]
        /\ Accepted(s, r).fl_rdp = s.fl_rdp
        /\ Accepted(s, r).fl_wrp = List!Up(s.fl_wrp)
        /\ Accepted(s, r).fl_cnt = s.fl_cnt + 1
        /\ Accepted(s, r).data = s.data
        /\ Accepted(s, r).next = s.next
        /\ Accepted(s, r).prev = s.prev
        /\ Accepted(s, r).head = s.head
        /\ Accepted(s, r).length = s.length
    BY DEF Accepted, Takes, List!Insertions
  <2>2. Accepted(s, r).ctl = AllIdle
    <3>1. Latch(s, r) = List!Idle
      BY DEF Latch, List!Insertions, List!Reads
    <3> QED BY <3>1 DEF Accepted, AllIdle, List!Operations
  <2>3. z = y
    BY <2>1, <2>2, <1>1, <1>2, <1>6, SameRegisters
  <2> QED BY <2>3
<1> QED BY <1>5, <1>7 DEF x, y

(* The edge that accepts delete_head.                                      *)
LEMMA AcceptDeleteHead ==
    ASSUME NEW s, NEW r, r.op = "delete_head", s.fl_cnt \in 0..NODES,
           s.ctl["delete_head"].phase # "busy"
    PROVE  List!Controller("delete_head", r, s, With(s, s.data, AllIdle)) = Accepted(s, r)
<1> DEFINE x == With(s, s.data, AllIdle)
           z == [x EXCEPT !.ctl["delete_head"] = [phase |-> "busy", handle |-> s.head[r.head],
                                               head |-> r.head]]
           y == Accepted(s, r)
<1>1. /\ Shaped(x) /\ Shaped(y)
      /\ x.fl_mem = s.fl_mem /\ x.fl_rdp = s.fl_rdp /\ x.fl_wrp = s.fl_wrp
      /\ x.fl_cnt = s.fl_cnt /\ x.data = s.data /\ x.next = s.next /\ x.prev = s.prev
      /\ x.head = s.head /\ x.length = s.length
      /\ x.tail = s.tail /\ x.ctl = AllIdle
  BY WithTailFacts, WithFacts, AcceptedFacts
<1>2. /\ y.tail = s.tail
      /\ y.fl_mem = Accepted(s, r).fl_mem /\ y.fl_rdp = Accepted(s, r).fl_rdp
      /\ y.fl_wrp = Accepted(s, r).fl_wrp /\ y.fl_cnt = Accepted(s, r).fl_cnt
      /\ y.data = Accepted(s, r).data /\ y.next = Accepted(s, r).next
      /\ y.prev = Accepted(s, r).prev /\ y.head = Accepted(s, r).head
      /\ y.length = Accepted(s, r).length /\ y.ctl = Accepted(s, r).ctl
  BY WithTailFacts DEF Accepted
<1> HIDE DEF x, y
<1>3. List!Slot(x) = List!Slot(s) /\ (List!IsEmpty(x, r.head) <=> List!IsEmpty(s, r.head))
  BY <1>1 DEF List!Slot, List!IsEmpty
<1>4. ~List!Busy("delete_head", s) /\ List!Accepts("delete_head", r, s)
  BY DEF List!Accepts, List!Busy
<1>5. List!Controller("delete_head", r, s, x) = IF ~List!IsEmpty(s, r.head) THEN z ELSE x
  <2>1. List!Controller("delete_head", r, s, x) = List!delete_head(r, s, x)
    BY Dispatch
  <2> HIDE DEF z
  <2>2. List!delete_head(r, s, x) = IF ~List!IsEmpty(s, r.head) THEN z ELSE x
    BY <1>1, <1>3, <1>4 DEF List!delete_head, z
  <2> QED BY <2>1, <2>2
<1>6. /\ Shaped(z)
      /\ z.fl_mem = x.fl_mem
      /\ z.fl_rdp = x.fl_rdp
      /\ z.fl_wrp = x.fl_wrp
      /\ z.fl_cnt = x.fl_cnt
      /\ z.data = x.data
      /\ z.next = x.next
      /\ z.prev = x.prev
      /\ z.head = x.head
      /\ z.tail = x.tail
      /\ z.length = x.length
      /\ z.ctl = [AllIdle EXCEPT !["delete_head"] = [phase |-> "busy", handle |-> s.head[r.head],
                                               head |-> r.head]]
  BY <1>1, <1>3 DEF Shaped, Fields
<1> HIDE DEF z
<1>7. CASE ~List!IsEmpty(s, r.head)
  <2>1. /\ Accepted(s, r).fl_mem = s.fl_mem
        /\ Accepted(s, r).fl_rdp = s.fl_rdp
        /\ Accepted(s, r).fl_wrp = s.fl_wrp
        /\ Accepted(s, r).fl_cnt = s.fl_cnt
        /\ Accepted(s, r).data = s.data
        /\ Accepted(s, r).next = s.next
        /\ Accepted(s, r).prev = s.prev
        /\ Accepted(s, r).head = s.head
        /\ Accepted(s, r).length = s.length
    BY <1>7 DEF Accepted, Takes, List!Insertions
  <2>2. Accepted(s, r).ctl = [AllIdle EXCEPT !["delete_head"] = [phase |-> "busy", handle |-> s.head[r.head],
                                               head |-> r.head]]
    <3>1. Latch(s, r) = [phase |-> "busy", handle |-> s.head[r.head],
                                               head |-> r.head]
      BY <1>7 DEF Latch, List!Insertions, List!Reads
    <3> QED BY <3>1 DEF Accepted, AllIdle, List!Operations
  <2>3. z = y
    BY <2>1, <2>2, <1>1, <1>2, <1>6, <1>7, SameRegisters
  <2> QED BY <2>3, <1>5, <1>7 DEF x, y
<1>8. CASE List!IsEmpty(s, r.head)
  <2>1. /\ Accepted(s, r).fl_mem = s.fl_mem
        /\ Accepted(s, r).fl_rdp = s.fl_rdp
        /\ Accepted(s, r).fl_wrp = s.fl_wrp
        /\ Accepted(s, r).fl_cnt = s.fl_cnt
        /\ Accepted(s, r).data = s.data
        /\ Accepted(s, r).next = s.next
        /\ Accepted(s, r).prev = s.prev
        /\ Accepted(s, r).head = s.head
        /\ Accepted(s, r).length = s.length
    BY <1>8 DEF Accepted, Takes, List!Insertions
  <2>2. Accepted(s, r).ctl = AllIdle
    <3>1. Latch(s, r) = List!Idle
      BY <1>8 DEF Latch, List!Insertions, List!Reads
    <3> QED BY <3>1 DEF Accepted, AllIdle, List!Operations
  <2>3. x = y
    BY <2>1, <2>2, <1>1, <1>2, <1>6, <1>8, SameRegisters
  <2> QED BY <2>3, <1>5, <1>8 DEF x, y
<1> QED BY <1>7, <1>8

(* The call that accepts delete_head.                                      *)
LEMMA SimAcceptDeleteHead ==
    ASSUME NEW s, NEW u, NEW r, r.op = "delete_head", s.fl_cnt \in 0..NODES
    PROVE  List!SimController("delete_head", r, WithTail(With(s, s.data, AllIdle), u)) = WithTail(Accepted(s, r), u)
<1> DEFINE x == WithTail(With(s, s.data, AllIdle), u)
           z == [x EXCEPT !.ctl["delete_head"] = [phase |-> "busy", handle |-> x.head[r.head],
                                               head |-> r.head]]
           y == WithTail(Accepted(s, r), u)
<1>1. /\ Shaped(x) /\ Shaped(y)
      /\ x.fl_mem = s.fl_mem /\ x.fl_rdp = s.fl_rdp /\ x.fl_wrp = s.fl_wrp
      /\ x.fl_cnt = s.fl_cnt /\ x.data = s.data /\ x.next = s.next /\ x.prev = s.prev
      /\ x.head = s.head /\ x.length = s.length
      /\ x.tail = u /\ x.ctl = AllIdle
  BY WithTailFacts, WithFacts, AcceptedFacts
<1>2. /\ y.tail = u
      /\ y.fl_mem = Accepted(s, r).fl_mem /\ y.fl_rdp = Accepted(s, r).fl_rdp
      /\ y.fl_wrp = Accepted(s, r).fl_wrp /\ y.fl_cnt = Accepted(s, r).fl_cnt
      /\ y.data = Accepted(s, r).data /\ y.next = Accepted(s, r).next
      /\ y.prev = Accepted(s, r).prev /\ y.head = Accepted(s, r).head
      /\ y.length = Accepted(s, r).length /\ y.ctl = Accepted(s, r).ctl
  BY WithTailFacts DEF WithTail
<1> HIDE DEF x, y
<1>3. List!Slot(x) = List!Slot(s) /\ (List!IsEmpty(x, r.head) <=> List!IsEmpty(s, r.head))
  BY <1>1 DEF List!Slot, List!IsEmpty
<1>4. ~List!Busy("delete_head", x) /\ List!Accepts("delete_head", r, x)
  BY <1>1 DEF List!Accepts, List!Busy, AllIdle, List!Idle, List!Operations
<1>5. List!SimController("delete_head", r, x) = IF ~List!IsEmpty(s, r.head) THEN z ELSE x
  <2>1. List!SimController("delete_head", r, x) = List!sim_delete_head(r, x)
    BY SimDispatch
  <2> HIDE DEF z
  <2>2. List!sim_delete_head(r, x) = IF ~List!IsEmpty(s, r.head) THEN z ELSE x
    BY <1>1, <1>3, <1>4 DEF List!sim_delete_head, z
  <2> QED BY <2>1, <2>2
<1>6. /\ Shaped(z)
      /\ z.fl_mem = x.fl_mem
      /\ z.fl_rdp = x.fl_rdp
      /\ z.fl_wrp = x.fl_wrp
      /\ z.fl_cnt = x.fl_cnt
      /\ z.data = x.data
      /\ z.next = x.next
      /\ z.prev = x.prev
      /\ z.head = x.head
      /\ z.tail = x.tail
      /\ z.length = x.length
      /\ z.ctl = [AllIdle EXCEPT !["delete_head"] = [phase |-> "busy", handle |-> s.head[r.head],
                                               head |-> r.head]]
  BY <1>1, <1>3 DEF Shaped, Fields
<1> HIDE DEF z
<1>7. CASE ~List!IsEmpty(s, r.head)
  <2>1. /\ Accepted(s, r).fl_mem = s.fl_mem
        /\ Accepted(s, r).fl_rdp = s.fl_rdp
        /\ Accepted(s, r).fl_wrp = s.fl_wrp
        /\ Accepted(s, r).fl_cnt = s.fl_cnt
        /\ Accepted(s, r).data = s.data
        /\ Accepted(s, r).next = s.next
        /\ Accepted(s, r).prev = s.prev
        /\ Accepted(s, r).head = s.head
        /\ Accepted(s, r).length = s.length
    BY <1>7 DEF Accepted, Takes, List!Insertions
  <2>2. Accepted(s, r).ctl = [AllIdle EXCEPT !["delete_head"] = [phase |-> "busy", handle |-> s.head[r.head],
                                               head |-> r.head]]
    <3>1. Latch(s, r) = [phase |-> "busy", handle |-> s.head[r.head],
                                               head |-> r.head]
      BY <1>7 DEF Latch, List!Insertions, List!Reads
    <3> QED BY <3>1 DEF Accepted, AllIdle, List!Operations
  <2>3. z = y
    BY <2>1, <2>2, <1>1, <1>2, <1>6, <1>7, SameRegisters
  <2> QED BY <2>3, <1>5, <1>7 DEF x, y
<1>8. CASE List!IsEmpty(s, r.head)
  <2>1. /\ Accepted(s, r).fl_mem = s.fl_mem
        /\ Accepted(s, r).fl_rdp = s.fl_rdp
        /\ Accepted(s, r).fl_wrp = s.fl_wrp
        /\ Accepted(s, r).fl_cnt = s.fl_cnt
        /\ Accepted(s, r).data = s.data
        /\ Accepted(s, r).next = s.next
        /\ Accepted(s, r).prev = s.prev
        /\ Accepted(s, r).head = s.head
        /\ Accepted(s, r).length = s.length
    BY <1>8 DEF Accepted, Takes, List!Insertions
  <2>2. Accepted(s, r).ctl = AllIdle
    <3>1. Latch(s, r) = List!Idle
      BY <1>8 DEF Latch, List!Insertions, List!Reads
    <3> QED BY <3>1 DEF Accepted, AllIdle, List!Operations
  <2>3. x = y
    BY <2>1, <2>2, <1>1, <1>2, <1>6, <1>8, SameRegisters
  <2> QED BY <2>3, <1>5, <1>8 DEF x, y
<1> QED BY <1>7, <1>8

(* The edge that accepts delete.                                           *)
LEMMA AcceptDelete ==
    ASSUME NEW s, NEW r, r.op = "delete", s.fl_cnt \in 0..NODES,
           s.ctl["delete"].phase # "busy"
    PROVE  List!Controller("delete", r, s, With(s, s.data, AllIdle)) = Accepted(s, r)
<1> DEFINE x == With(s, s.data, AllIdle)
           z == [x EXCEPT !.ctl["delete"] = [phase |-> "busy", handle |-> r.handle, head |-> r.head]]
           y == Accepted(s, r)
<1>1. /\ Shaped(x) /\ Shaped(y)
      /\ x.fl_mem = s.fl_mem /\ x.fl_rdp = s.fl_rdp /\ x.fl_wrp = s.fl_wrp
      /\ x.fl_cnt = s.fl_cnt /\ x.data = s.data /\ x.next = s.next /\ x.prev = s.prev
      /\ x.head = s.head /\ x.length = s.length
      /\ x.tail = s.tail /\ x.ctl = AllIdle
  BY WithTailFacts, WithFacts, AcceptedFacts
<1>2. /\ y.tail = s.tail
      /\ y.fl_mem = Accepted(s, r).fl_mem /\ y.fl_rdp = Accepted(s, r).fl_rdp
      /\ y.fl_wrp = Accepted(s, r).fl_wrp /\ y.fl_cnt = Accepted(s, r).fl_cnt
      /\ y.data = Accepted(s, r).data /\ y.next = Accepted(s, r).next
      /\ y.prev = Accepted(s, r).prev /\ y.head = Accepted(s, r).head
      /\ y.length = Accepted(s, r).length /\ y.ctl = Accepted(s, r).ctl
  BY WithTailFacts DEF Accepted
<1> HIDE DEF x, y
<1>3. List!Slot(x) = List!Slot(s) /\ (List!IsEmpty(x, r.head) <=> List!IsEmpty(s, r.head))
  BY <1>1 DEF List!Slot, List!IsEmpty
<1>4. ~List!Busy("delete", s) /\ List!Accepts("delete", r, s)
  BY DEF List!Accepts, List!Busy
<1>5. List!Controller("delete", r, s, x) = z
  <2>1. List!Controller("delete", r, s, x) = List!delete(r, s, x)
    BY Dispatch
  <2> HIDE DEF z
  <2>2. List!delete(r, s, x) = z
    BY <1>1, <1>3, <1>4 DEF List!delete, z
  <2> QED BY <2>1, <2>2
<1>6. /\ Shaped(z)
      /\ z.fl_mem = x.fl_mem
      /\ z.fl_rdp = x.fl_rdp
      /\ z.fl_wrp = x.fl_wrp
      /\ z.fl_cnt = x.fl_cnt
      /\ z.data = x.data
      /\ z.next = x.next
      /\ z.prev = x.prev
      /\ z.head = x.head
      /\ z.tail = x.tail
      /\ z.length = x.length
      /\ z.ctl = [AllIdle EXCEPT !["delete"] = [phase |-> "busy", handle |-> r.handle, head |-> r.head]]
  BY <1>1, <1>3 DEF Shaped, Fields
<1> HIDE DEF z
<1>7. z = y
  <2>1. /\ Accepted(s, r).fl_mem = s.fl_mem
        /\ Accepted(s, r).fl_rdp = s.fl_rdp
        /\ Accepted(s, r).fl_wrp = s.fl_wrp
        /\ Accepted(s, r).fl_cnt = s.fl_cnt
        /\ Accepted(s, r).data = s.data
        /\ Accepted(s, r).next = s.next
        /\ Accepted(s, r).prev = s.prev
        /\ Accepted(s, r).head = s.head
        /\ Accepted(s, r).length = s.length
    BY DEF Accepted, Takes, List!Insertions
  <2>2. Accepted(s, r).ctl = [AllIdle EXCEPT !["delete"] = [phase |-> "busy", handle |-> r.handle, head |-> r.head]]
    <3>1. Latch(s, r) = [phase |-> "busy", handle |-> r.handle, head |-> r.head]
      BY DEF Latch, List!Insertions, List!Reads
    <3> QED BY <3>1 DEF Accepted, AllIdle, List!Operations
  <2>3. z = y
    BY <2>1, <2>2, <1>1, <1>2, <1>6, SameRegisters
  <2> QED BY <2>3
<1> QED BY <1>5, <1>7 DEF x, y

(* The call that accepts delete.                                           *)
LEMMA SimAcceptDelete ==
    ASSUME NEW s, NEW u, NEW r, r.op = "delete", s.fl_cnt \in 0..NODES
    PROVE  List!SimController("delete", r, WithTail(With(s, s.data, AllIdle), u)) = WithTail(Accepted(s, r), u)
<1> DEFINE x == WithTail(With(s, s.data, AllIdle), u)
           z == [x EXCEPT !.ctl["delete"] = [phase |-> "busy", handle |-> r.handle, head |-> r.head]]
           y == WithTail(Accepted(s, r), u)
<1>1. /\ Shaped(x) /\ Shaped(y)
      /\ x.fl_mem = s.fl_mem /\ x.fl_rdp = s.fl_rdp /\ x.fl_wrp = s.fl_wrp
      /\ x.fl_cnt = s.fl_cnt /\ x.data = s.data /\ x.next = s.next /\ x.prev = s.prev
      /\ x.head = s.head /\ x.length = s.length
      /\ x.tail = u /\ x.ctl = AllIdle
  BY WithTailFacts, WithFacts, AcceptedFacts
<1>2. /\ y.tail = u
      /\ y.fl_mem = Accepted(s, r).fl_mem /\ y.fl_rdp = Accepted(s, r).fl_rdp
      /\ y.fl_wrp = Accepted(s, r).fl_wrp /\ y.fl_cnt = Accepted(s, r).fl_cnt
      /\ y.data = Accepted(s, r).data /\ y.next = Accepted(s, r).next
      /\ y.prev = Accepted(s, r).prev /\ y.head = Accepted(s, r).head
      /\ y.length = Accepted(s, r).length /\ y.ctl = Accepted(s, r).ctl
  BY WithTailFacts DEF WithTail
<1> HIDE DEF x, y
<1>3. List!Slot(x) = List!Slot(s) /\ (List!IsEmpty(x, r.head) <=> List!IsEmpty(s, r.head))
  BY <1>1 DEF List!Slot, List!IsEmpty
<1>4. ~List!Busy("delete", x) /\ List!Accepts("delete", r, x)
  BY <1>1 DEF List!Accepts, List!Busy, AllIdle, List!Idle, List!Operations
<1>5. List!SimController("delete", r, x) = z
  <2>1. List!SimController("delete", r, x) = List!sim_delete(r, x)
    BY SimDispatch
  <2> HIDE DEF z
  <2>2. List!sim_delete(r, x) = z
    BY <1>1, <1>3, <1>4 DEF List!sim_delete, z
  <2> QED BY <2>1, <2>2
<1>6. /\ Shaped(z)
      /\ z.fl_mem = x.fl_mem
      /\ z.fl_rdp = x.fl_rdp
      /\ z.fl_wrp = x.fl_wrp
      /\ z.fl_cnt = x.fl_cnt
      /\ z.data = x.data
      /\ z.next = x.next
      /\ z.prev = x.prev
      /\ z.head = x.head
      /\ z.tail = x.tail
      /\ z.length = x.length
      /\ z.ctl = [AllIdle EXCEPT !["delete"] = [phase |-> "busy", handle |-> r.handle, head |-> r.head]]
  BY <1>1, <1>3 DEF Shaped, Fields
<1> HIDE DEF z
<1>7. z = y
  <2>1. /\ Accepted(s, r).fl_mem = s.fl_mem
        /\ Accepted(s, r).fl_rdp = s.fl_rdp
        /\ Accepted(s, r).fl_wrp = s.fl_wrp
        /\ Accepted(s, r).fl_cnt = s.fl_cnt
        /\ Accepted(s, r).data = s.data
        /\ Accepted(s, r).next = s.next
        /\ Accepted(s, r).prev = s.prev
        /\ Accepted(s, r).head = s.head
        /\ Accepted(s, r).length = s.length
    BY DEF Accepted, Takes, List!Insertions
  <2>2. Accepted(s, r).ctl = [AllIdle EXCEPT !["delete"] = [phase |-> "busy", handle |-> r.handle, head |-> r.head]]
    <3>1. Latch(s, r) = [phase |-> "busy", handle |-> r.handle, head |-> r.head]
      BY DEF Latch, List!Insertions, List!Reads
    <3> QED BY <3>1 DEF Accepted, AllIdle, List!Operations
  <2>3. z = y
    BY <2>1, <2>2, <1>1, <1>2, <1>6, SameRegisters
  <2> QED BY <2>3
<1> QED BY <1>5, <1>7 DEF x, y

Accesses == {"write_data"} \cup List!Reads
WordsOf(x, r) ==
    IF r.op = "write_data" THEN [x.data EXCEPT ![r.handle] = r.data] ELSE x.data

(* What a read or write of a word answers.                                 *)
LEMMA LatchOfWord ==
    ASSUME NEW s, NEW r, r.op \in Accesses
    PROVE  /\ r.op = "write_data" => Latch(s, r) = List!Answers(r.handle)
           /\ r.op \in List!Reads => Latch(s, r) = List!Answers(List!Read(r.op, r.handle, s))
<1>1. r.op \notin List!Insertions \cup {"delete_head", "delete", "alloc"}
  BY DEF Accesses, List!Reads, List!Insertions
<1>2. r.op = "write_data" => r.op \notin List!Reads
  BY DEF List!Reads
<1>3. CASE r.op = "write_data"
  BY <1>1, <1>2, <1>3 DEF Latch
<1>4. CASE r.op \in List!Reads
  <2>1. r.op # "write_data"
    BY <1>4 DEF List!Reads
  <2> QED BY <1>1, <1>4, <2>1 DEF Latch
<1> QED BY <1>2, <1>3, <1>4 DEF Accesses

(* A read or write touches its word and its controller only.               *)
LEMMA WordController ==
    ASSUME NEW s, NEW x, NEW r, r.op \in Accesses, Shaped(x)
    PROVE  /\ List!Controller(r.op, r, s, x) =
                  With(x, WordsOf(x, r), [x.ctl EXCEPT ![r.op] = Latch(s, r)])
           /\ List!SimController(r.op, r, x) =
                  With(x, WordsOf(x, r), [x.ctl EXCEPT ![r.op] = Latch(x, r)])
<1>1. CASE r.op = "write_data"
  <2> DEFINE z == [x EXCEPT !.data[r.handle] = r.data,
                            !.ctl["write_data"] = List!Answers(r.handle)]
             y == With(x, WordsOf(x, r), [x.ctl EXCEPT ![r.op] = List!Answers(r.handle)])
  <2>1. /\ Shaped(y) /\ y.data = [x.data EXCEPT ![r.handle] = r.data]
        /\ y.ctl = [x.ctl EXCEPT !["write_data"] = List!Answers(r.handle)]
        /\ y.fl_mem = x.fl_mem /\ y.fl_rdp = x.fl_rdp /\ y.fl_wrp = x.fl_wrp
        /\ y.fl_cnt = x.fl_cnt /\ y.next = x.next /\ y.prev = x.prev /\ y.head = x.head
        /\ y.length = x.length /\ y.tail = x.tail
    BY <1>1, WithFacts DEF WordsOf
  <2> HIDE DEF y
  <2>2. /\ Shaped(z) /\ z.data = [x.data EXCEPT ![r.handle] = r.data]
        /\ z.ctl = [x.ctl EXCEPT !["write_data"] = List!Answers(r.handle)]
        /\ z.fl_mem = x.fl_mem /\ z.fl_rdp = x.fl_rdp /\ z.fl_wrp = x.fl_wrp
        /\ z.fl_cnt = x.fl_cnt /\ z.next = x.next /\ z.prev = x.prev /\ z.head = x.head
        /\ z.length = x.length /\ z.tail = x.tail
    BY DEF Shaped, Fields
  <2>3. List!Controller(r.op, r, s, x) = z
    <3>1. List!Controller(r.op, r, s, x) = List!write_data(r, s, x)
      BY <1>1, Dispatch
    <3> QED BY <3>1, <1>1 DEF List!write_data
  <2>4. List!SimController(r.op, r, x) = z
    <3>1. List!SimController(r.op, r, x) = List!sim_write_data(r, x)
      BY <1>1, SimDispatch
    <3> QED BY <3>1, <1>1 DEF List!sim_write_data
  <2> HIDE DEF z
  <2>5. z = y
    BY <2>1, <2>2, SameRegisters
  <2>6. Latch(s, r) = List!Answers(r.handle) /\ Latch(x, r) = List!Answers(r.handle)
    BY <1>1, LatchOfWord
  <2> QED BY <2>3, <2>4, <2>5, <2>6 DEF y
<1>2. CASE r.op \in List!Reads
  <2>0. r.op # "write_data"
    BY <1>2 DEF List!Reads
  <2>1. ASSUME NEW w, NEW v, v = [x EXCEPT !.ctl[r.op] = w]
        PROVE  v = With(x, WordsOf(x, r), [x.ctl EXCEPT ![r.op] = w])
    <3> DEFINE y == With(x, WordsOf(x, r), [x.ctl EXCEPT ![r.op] = w])
    <3>1. /\ Shaped(y) /\ y.data = x.data /\ y.ctl = [x.ctl EXCEPT ![r.op] = w]
          /\ y.fl_mem = x.fl_mem /\ y.fl_rdp = x.fl_rdp /\ y.fl_wrp = x.fl_wrp
          /\ y.fl_cnt = x.fl_cnt /\ y.next = x.next /\ y.prev = x.prev /\ y.head = x.head
          /\ y.length = x.length /\ y.tail = x.tail
      BY <2>0, WithFacts DEF WordsOf
    <3> HIDE DEF y
    <3>2. /\ Shaped(v) /\ v.data = x.data /\ v.ctl = [x.ctl EXCEPT ![r.op] = w]
          /\ v.fl_mem = x.fl_mem /\ v.fl_rdp = x.fl_rdp /\ v.fl_wrp = x.fl_wrp
          /\ v.fl_cnt = x.fl_cnt /\ v.next = x.next /\ v.prev = x.prev /\ v.head = x.head
          /\ v.length = x.length /\ v.tail = x.tail
      BY <2>1 DEF Shaped, Fields
    <3>3. v = y
      BY <3>1, <3>2, SameRegisters
    <3> QED BY <3>3 DEF y
  <2>3. List!Controller(r.op, r, s, x) = [x EXCEPT !.ctl[r.op] = Latch(s, r)]
    <3>1. List!Controller(r.op, r, s, x) = List!read(r.op, r, s, x)
      BY <1>2, Dispatch
    <3>2. Latch(s, r) = List!Answers(List!Read(r.op, r.handle, s))
      BY <1>2, LatchOfWord
    <3> QED BY <3>1, <3>2 DEF List!read
  <2>4. List!SimController(r.op, r, x) = [x EXCEPT !.ctl[r.op] = Latch(x, r)]
    <3>1. List!SimController(r.op, r, x) = List!sim_read(r.op, r, x)
      BY <1>2, SimDispatch
    <3>2. Latch(x, r) = List!Answers(List!Read(r.op, r.handle, x))
      BY <1>2, LatchOfWord
    <3> QED BY <3>1, <3>2 DEF List!sim_read
  <2>5. List!Controller(r.op, r, s, x) = With(x, WordsOf(x, r), [x.ctl EXCEPT ![r.op] = Latch(s, r)])
    BY <2>1, <2>3
  <2>6. List!SimController(r.op, r, x) = With(x, WordsOf(x, r), [x.ctl EXCEPT ![r.op] = Latch(x, r)])
    BY <2>1, <2>4
  <2> QED BY <2>5, <2>6
<1> QED BY <1>1, <1>2 DEF Accesses

(* The same with its result named.                                         *)
Worded(x, r, v) == With(x, WordsOf(x, r), [x.ctl EXCEPT ![r.op] = v])

(* Reads and writes of words, with the result named.                       *)
LEMMA WordedController ==
    ASSUME NEW s, NEW x, NEW r, r.op \in Accesses, Shaped(x)
    PROVE  /\ List!Controller(r.op, r, s, x) = Worded(x, r, Latch(s, r))
           /\ List!SimController(r.op, r, x) = Worded(x, r, Latch(x, r))
BY WordController, SMTT(30) DEF Worded

(* What the edge does while no operation is under way.                     *)
Calm(s) == \A op \in List!Operations : s.ctl[op].phase # "busy"
Fit(s, r) == s.fl_cnt \in 0..NODES /\ (r.op = "free" => s.fl_cnt < NODES)

(* The edge and the call that serve a read or write of a word.             *)
LEMMA AcceptWord ==
    ASSUME NEW s, NEW u, NEW r, r.op \in Accesses
    PROVE  /\ List!Controller(r.op, r, s, With(s, s.data, AllIdle)) = Accepted(s, r)
           /\ List!SimController(r.op, r, WithTail(With(s, s.data, AllIdle), u)) =
                  WithTail(Accepted(s, r), u)
<1> DEFINE x == With(s, s.data, AllIdle)
           t == WithTail(x, u)
           a == Accepted(s, r)
           w == Worded(x, r, Latch(s, r))
           z == Worded(t, r, Latch(t, r))
           y == WithTail(a, u)
<1>1. /\ Shaped(x) /\ Shaped(t) /\ Shaped(a) /\ Shaped(w) /\ Shaped(z) /\ Shaped(y)
  BY WithFacts, WithTailFacts, AcceptedFacts DEF Worded
<1>2. r.op \notin List!Insertions \cup {"alloc", "free"} /\ r.op \in List!Operations
  BY DEF Accesses, List!Reads, List!Insertions, List!Operations
<1>3. /\ a.fl_mem = s.fl_mem /\ a.fl_rdp = s.fl_rdp /\ a.fl_wrp = s.fl_wrp /\ a.fl_cnt = s.fl_cnt
      /\ a.data = WordsOf(s, r) /\ a.next = s.next /\ a.prev = s.prev /\ a.head = s.head
      /\ a.tail = s.tail /\ a.length = s.length /\ a.ctl = [AllIdle EXCEPT ![r.op] = Latch(s, r)]
  BY <1>2 DEF Accepted, Takes, WordsOf, AllIdle
<1>4. /\ x.fl_mem = s.fl_mem /\ x.fl_rdp = s.fl_rdp /\ x.fl_wrp = s.fl_wrp /\ x.fl_cnt = s.fl_cnt
      /\ x.data = s.data /\ x.next = s.next /\ x.prev = s.prev /\ x.head = s.head
      /\ x.tail = s.tail /\ x.length = s.length /\ x.ctl = AllIdle
  BY WithFacts
<1> HIDE DEF a, x
<1>5. /\ t.fl_mem = x.fl_mem /\ t.fl_rdp = x.fl_rdp /\ t.fl_wrp = x.fl_wrp /\ t.fl_cnt = x.fl_cnt
      /\ t.data = x.data /\ t.next = x.next /\ t.prev = x.prev /\ t.head = x.head
      /\ t.tail = u /\ t.length = x.length /\ t.ctl = x.ctl
  BY WithTailFacts
<1>6. /\ w.fl_mem = x.fl_mem /\ w.fl_rdp = x.fl_rdp /\ w.fl_wrp = x.fl_wrp /\ w.fl_cnt = x.fl_cnt
      /\ w.data = WordsOf(x, r) /\ w.next = x.next /\ w.prev = x.prev /\ w.head = x.head
      /\ w.tail = x.tail /\ w.length = x.length /\ w.ctl = [x.ctl EXCEPT ![r.op] = Latch(s, r)]
  BY WithFacts DEF Worded
<1>7. /\ y.fl_mem = a.fl_mem /\ y.fl_rdp = a.fl_rdp /\ y.fl_wrp = a.fl_wrp /\ y.fl_cnt = a.fl_cnt
      /\ y.data = a.data /\ y.next = a.next /\ y.prev = a.prev /\ y.head = a.head
      /\ y.tail = u /\ y.length = a.length /\ y.ctl = a.ctl
  BY WithTailFacts
<1> HIDE DEF t
<1>8. /\ z.fl_mem = t.fl_mem /\ z.fl_rdp = t.fl_rdp /\ z.fl_wrp = t.fl_wrp /\ z.fl_cnt = t.fl_cnt
      /\ z.data = WordsOf(t, r) /\ z.next = t.next /\ z.prev = t.prev /\ z.head = t.head
      /\ z.tail = t.tail /\ z.length = t.length /\ z.ctl = [t.ctl EXCEPT ![r.op] = Latch(t, r)]
  BY WithFacts DEF Worded
<1>9. List!Controller(r.op, r, s, x) = w /\ List!SimController(r.op, r, t) = z
  BY <1>1, WordedController
<1> HIDE DEF w, y, z
<1>10. WordsOf(x, r) = WordsOf(s, r) /\ WordsOf(t, r) = WordsOf(s, r)
  BY <1>4, <1>5 DEF WordsOf
<1>11. Latch(t, r) = Latch(s, r)
  <2>1. CASE r.op = "write_data"
    BY <2>1, LatchOfWord
  <2>2. CASE r.op \in List!Reads
    <3>1. List!Read(r.op, r.handle, t) = List!Read(r.op, r.handle, s)
      BY <1>4, <1>5 DEF List!Read
    <3> QED BY <2>2, <3>1, LatchOfWord
  <2> QED BY <2>1, <2>2 DEF Accesses
<1>12. w = a
  BY <1>1, <1>3, <1>4, <1>6, <1>10, SameRegisters
<1>13. z = y
  <2>1. /\ z.fl_mem = y.fl_mem /\ z.fl_rdp = y.fl_rdp /\ z.fl_wrp = y.fl_wrp /\ z.fl_cnt = y.fl_cnt
        /\ z.next = y.next /\ z.prev = y.prev /\ z.head = y.head /\ z.tail = y.tail
        /\ z.length = y.length
    BY <1>3, <1>4, <1>5, <1>7, <1>8
  <2>2. z.data = y.data /\ z.ctl = y.ctl
    BY <1>3, <1>4, <1>5, <1>7, <1>8, <1>10, <1>11
  <2> QED BY <1>1, <2>1, <2>2, SameRegisters
<1> QED BY <1>9, <1>12, <1>13 DEF a, t, x, y

(* Every operation is accepted alike by the circuit and the class.         *)
LEMMA AcceptedIs ==
    ASSUME NEW s, NEW r, r.op \in List!Operations, Calm(s), Fit(s, r)
    PROVE  /\ List!Controller(r.op, r, s, With(s, s.data, AllIdle)) = Accepted(s, r)
           /\ \A u : List!SimController(r.op, r, WithTail(With(s, s.data, AllIdle), u)) =
                         WithTail(Accepted(s, r), u)
<1>0. s.ctl[r.op].phase # "busy" /\ s.fl_cnt \in 0..NODES
  BY DEF Calm, Fit
<1>1. CASE r.op \in List!Insertions
  BY <1>0, <1>1, AcceptInsertion, SimAcceptInsertion
<1>2. CASE r.op = "alloc"
  BY <1>0, <1>2, AcceptAlloc, SimAcceptAlloc
<1>3. CASE r.op = "free"
  <2>1. s.fl_cnt \in 0..(NODES - 1)
    BY <1>0, <1>3, PoolAssumption DEF Fit
  <2> QED BY <1>0, <1>3, <2>1, AcceptFree, SimAcceptFree
<1>4. CASE r.op = "delete_head"
  BY <1>0, <1>4, AcceptDeleteHead, SimAcceptDeleteHead
<1>5. CASE r.op = "delete"
  BY <1>0, <1>5, AcceptDelete, SimAcceptDelete
<1>6. CASE r.op \in Accesses
  BY <1>6, AcceptWord
<1> QED
  BY <1>1, <1>2, <1>3, <1>4, <1>5, <1>6 DEF Accesses, List!Operations, List!Insertions, List!Reads

(* The operations of a declaration are known and numbered.                 *)
LEMMA DeclaredOps ==
    ASSUME n_decl \in ListDecls
    PROVE  /\ Len(n_decl.ops) \in Nat /\ DOMAIN n_decl.ops = 1..Len(n_decl.ops)
           /\ \A i \in DOMAIN n_decl.ops : n_decl.ops[i] \in List!Operations
           /\ "none" \notin List!Operations
<1>1. n_decl.ops \in Seq(List!Operations)
  BY PoolAssumption
<1> QED BY <1>1 DEF List!Operations

(* An edge while no operation is under way.                                *)
LEMMA CalmEdge ==
    ASSUME n_decl \in ListDecls, Supports(n_decl), NEW s, NEW r, Shaped(s), Calm(s), Fit(s, r),
           r.op = "none" \/ Does(n_decl, r.op)
    PROVE  /\ List!Clocked(r, s) = Accepted(s, r)
           /\ \A u : List!eval_posedge(r, WithTail(s, u)) = WithTail(Accepted(s, r), u)
<1> DEFINE P == DOMAIN n_decl.ops
           x == With(s, s.data, AllIdle)
<1>1. Len(n_decl.ops) \in Nat /\ P = 1..Len(n_decl.ops)
  BY DeclaredOps
<1>2. \A i, j \in P : n_decl.ops[i] = n_decl.ops[j] => i = j
  BY DEF Supports
<1>3. \A i \in P : n_decl.ops[i] # "none" /\ n_decl.ops[i] \in List!Operations
  BY DeclaredOps
<1>4. Quieted(s) = AllIdle
  BY DEF Quieted, AllIdle, Calm, List!Busy
<1>5. List!PulsesEnded(s) = x
  BY <1>4, BaseIs
<1>6. CASE r.op = "none"
  <2>1. Accepted(s, r) = x
    <3>1. Latch(s, r) = List!Idle
      BY <1>6 DEF Latch, List!Insertions, List!Reads
    <3>2. [op \in List!Operations |-> IF op = r.op THEN Latch(s, r) ELSE List!Idle] = AllIdle
      BY <3>1 DEF AllIdle
    <3> QED BY <1>6, <3>2 DEF Accepted, Takes, List!Insertions, With
  <2>2. \A y : Ran(P, r.op, r, s, y) = y /\ SimRan(P, r.op, r, y) = y
    BY <1>3, <1>6 DEF Ran, SimRan
  <2>3. \A y : Ran(P, "none", r, s, y) = y /\ SimRan(P, "none", r, y) = y
    BY <1>3 DEF Ran, SimRan
  <2>4. \A i \in P : \A y : List!Controller(n_decl.ops[i], r, s, y) = y
    BY <1>3, <1>6, IdleController DEF Calm
  <2>5. List!Clocked(r, s) = x
    <3>1. \/ List!Clocked(r, s) = Ran(P, "none", r, s, Ran(P, r.op, r, s, List!PulsesEnded(s)))
          \/ List!Clocked(r, s) = Ran(P, r.op, r, s, Ran(P, "none", r, s, List!PulsesEnded(s)))
      BY <1>1, <1>2, <1>3, <2>4, ClockedIs
    <3> QED BY <3>1, <2>2, <2>3, <1>5
  <2>6. ASSUME NEW u PROVE List!eval_posedge(r, WithTail(s, u)) = WithTail(x, u)
    <3> DEFINE t == WithTail(s, u)
               base == List!PulsesEnded(t)
               R(y) == SimRan(P, r.op, r, y)
               B(y) == SimRan(P, "none", r, y)
    <3>1. base = WithTail(x, u)
      <4>1. Shaped(t) /\ t.data = s.data /\ Quieted(t) = Quieted(s)
        BY WithTailFacts DEF Quieted, List!Busy
      <4>2. base = With(t, s.data, AllIdle)
        BY <4>1, <1>4, BaseIs
      <4>3. With(WithTail(s, u), s.data, AllIdle) = WithTail(With(s, s.data, AllIdle), u)
        BY DEF With, WithTail
      <4> QED BY <4>2, <4>3
    <3>2. base.ctl = AllIdle
      BY <3>1, WithTailFacts, WithFacts
    <3> HIDE DEF base
    <3>3. \A i \in P : List!SimController(n_decl.ops[i], r, base) = base
      BY <1>3, <1>6, <3>2, IdleSimController DEF AllIdle, List!Idle
    <3>4. \A y : R(y) = y /\ B(y) = y
      BY <2>2, <2>3
    <3>5. \/ List!eval_posedge(r, t) = B(R(base))
          \/ List!eval_posedge(r, t) = R(B(base))
      <4>1. \A i \in P : \A y \in {base, R(base), B(base), R(B(base)), B(R(base))} :
                List!SimController(n_decl.ops[i], r, y) = y
        <5> HIDE DEF R, B
        <5> QED BY <3>3, <3>4
      <4> HIDE DEF t
      <4> QED BY <1>1, <1>2, <1>3, <4>1, SimClockedIs DEF base
    <3> HIDE DEF R, B
    <3> QED BY <3>1, <3>4, <3>5
  <2> HIDE DEF x
  <2> QED BY <2>1, <2>5, <2>6
<1>7. CASE Does(n_decl, r.op)
  <2>1. r.op \in List!Operations /\ r.op # "none"
    BY <1>3, <1>7 DEF Does
  <2>2. List!Controller(r.op, r, s, x) = Accepted(s, r)
    BY <2>1, AcceptedIs
  <2>3. \A y : Ran(P, r.op, r, s, y) = List!Controller(r.op, r, s, y)
    BY <1>7 DEF Ran, Does
  <2>4. \A y : SimRan(P, r.op, r, y) = List!SimController(r.op, r, y)
    BY <1>7 DEF SimRan, Does
  <2>5. \A y : Ran(P, "none", r, s, y) = y /\ SimRan(P, "none", r, y) = y
    BY <1>3 DEF Ran, SimRan
  <2>6. List!Clocked(r, s) = Accepted(s, r)
    <3>1. \A i \in P : n_decl.ops[i] \notin {r.op, "none"} =>
              \A y : List!Controller(n_decl.ops[i], r, s, y) = y
      BY <1>3, IdleController DEF Calm
    <3>2. \/ List!Clocked(r, s) = Ran(P, "none", r, s, Ran(P, r.op, r, s, List!PulsesEnded(s)))
          \/ List!Clocked(r, s) = Ran(P, r.op, r, s, Ran(P, "none", r, s, List!PulsesEnded(s)))
      BY <1>1, <1>2, <1>3, <3>1, <2>1, ClockedIs
    <3> HIDE DEF x
    <3> QED BY <3>2, <2>2, <2>3, <2>5, <1>5
  <2>7. ASSUME NEW u PROVE List!eval_posedge(r, WithTail(s, u)) = WithTail(Accepted(s, r), u)
    <3> DEFINE t == WithTail(s, u)
               base == List!PulsesEnded(t)
               R(y) == SimRan(P, r.op, r, y)
               B(y) == SimRan(P, "none", r, y)
               after == WithTail(Accepted(s, r), u)
    <3>1. base = WithTail(x, u)
      <4>1. Shaped(t) /\ t.data = s.data /\ Quieted(t) = Quieted(s)
        BY WithTailFacts DEF Quieted, List!Busy
      <4>2. base = With(t, s.data, AllIdle)
        BY <4>1, <1>4, BaseIs
      <4>3. With(WithTail(s, u), s.data, AllIdle) = WithTail(With(s, s.data, AllIdle), u)
        BY DEF With, WithTail
      <4> QED BY <4>2, <4>3
    <3>2. base.ctl = AllIdle
      BY <3>1, WithTailFacts, WithFacts
    <3>3. after.ctl = [op \in List!Operations |-> IF op = r.op THEN Latch(s, r) ELSE List!Idle]
      <4>1. after.ctl = Accepted(s, r).ctl
        BY WithTailFacts
      <4> HIDE DEF after
      <4> QED BY <4>1 DEF Accepted
    <3>4. R(base) = after
      <4>1. List!SimController(r.op, r, WithTail(x, u)) = after
        BY <2>1, AcceptedIs
      <4> HIDE DEF base, after
      <4> QED BY <3>1, <4>1, <2>4
    <3> HIDE DEF base, after
    <3>5. \A i \in P : n_decl.ops[i] # r.op =>
              /\ List!SimController(n_decl.ops[i], r, base) = base
              /\ List!SimController(n_decl.ops[i], r, after) = after
      BY <1>3, <3>2, <3>3, IdleSimController DEF AllIdle, List!Idle
    <3>6. \A y : B(y) = y
      BY <2>5
    <3>7. \/ List!eval_posedge(r, t) = B(R(base))
          \/ List!eval_posedge(r, t) = R(B(base))
      <4>1. \A i \in P : n_decl.ops[i] \notin {r.op, "none"} =>
                \A y \in {base, R(base), B(base), R(B(base)), B(R(base))} :
                    List!SimController(n_decl.ops[i], r, y) = y
        <5> HIDE DEF R, B
        <5> QED BY <3>4, <3>5, <3>6
      <4> HIDE DEF t
      <4> QED BY <1>1, <1>2, <1>3, <2>1, <4>1, SimClockedIs DEF base
    <3> HIDE DEF R, B
    <3>8. List!eval_posedge(r, t) = after
      BY <3>4, <3>6, <3>7
    <3> QED BY <3>8 DEF after
  <2> QED BY <2>6, <2>7
<1> QED BY <1>6, <1>7

(* The controller of the operation under way, in the circuit.              *)
LEMMA FinishedIs ==
    ASSUME NEW s, NEW words, NEW controllers, NEW r, NEW b, n_decl \in ListDecls,
           Supports(n_decl), Ending(n_decl, s, b), r.op # b
    PROVE  List!Controller(b, r, s, With(s, words, controllers)) =
               Finished(n_decl, s, b, words,
                        [controllers EXCEPT ![b] = List!Answers(s.ctl[b].handle)])
<1>1. CASE b = "insert_head"
  <2>1. Ending(n_decl, s, "insert_head") /\ r.op # "insert_head"
    BY <1>1
  <2> QED BY <1>1, <2>1, FinishInsertHead
<1>2. CASE b = "insert_tail"
  <2>1. Ending(n_decl, s, "insert_tail") /\ r.op # "insert_tail"
    BY <1>2
  <2> QED BY <1>2, <2>1, FinishInsertTail
<1>3. CASE b = "insert_after"
  <2>1. Ending(n_decl, s, "insert_after") /\ r.op # "insert_after"
    BY <1>3
  <2> QED BY <1>3, <2>1, FinishInsertAfter
<1>4. CASE b = "delete_head"
  <2>1. Ending(n_decl, s, "delete_head") /\ r.op # "delete_head"
    BY <1>4
  <2> QED BY <1>4, <2>1, FinishDeleteHead
<1>5. CASE b = "delete"
  <2>1. Ending(n_decl, s, "delete") /\ r.op # "delete"
    BY <1>5
  <2> QED BY <1>5, <2>1, FinishDelete
<1> QED BY <1>1, <1>2, <1>3, <1>4, <1>5 DEF Ending, Structure

(* And in the class.                                                       *)
LEMMA SimFinishedIs ==
    ASSUME NEW s, NEW words, NEW controllers, NEW u, NEW r, NEW b, n_decl \in ListDecls,
           Supports(n_decl), Ending(n_decl, s, b), r.op # b,
           controllers[b] = s.ctl[b], n_decl.track_tail => u = s.tail
    PROVE  LET z == List!SimController(b, r, WithTail(With(s, words, controllers), u))
               y == Finished(n_decl, s, b, words,
                             [controllers EXCEPT ![b] = List!Answers(s.ctl[b].handle)])
           IN  z = WithTail(y, z.tail) /\ (n_decl.track_tail => z.tail = y.tail)
<1>1. CASE b = "insert_head"
  <2>1. /\ Ending(n_decl, s, "insert_head") /\ r.op # "insert_head"
        /\ controllers["insert_head"] = s.ctl["insert_head"]
    BY <1>1
  <2>2. LET z == List!SimController("insert_head", r, WithTail(With(s, words, controllers), u))
            y == Finished(n_decl, s, "insert_head", words,
                          [controllers EXCEPT !["insert_head"] = List!Answers(s.ctl["insert_head"].handle)])
        IN  z = WithTail(y, z.tail) /\ (n_decl.track_tail => z.tail = y.tail)
    BY <2>1, SimFinishInsertHead
  <2> QED BY <1>1, <2>2
<1>2. CASE b = "insert_tail"
  <2>1. /\ Ending(n_decl, s, "insert_tail") /\ r.op # "insert_tail"
        /\ controllers["insert_tail"] = s.ctl["insert_tail"]
    BY <1>2
  <2>2. LET z == List!SimController("insert_tail", r, WithTail(With(s, words, controllers), u))
            y == Finished(n_decl, s, "insert_tail", words,
                          [controllers EXCEPT !["insert_tail"] = List!Answers(s.ctl["insert_tail"].handle)])
        IN  z = WithTail(y, z.tail) /\ (n_decl.track_tail => z.tail = y.tail)
    BY <2>1, SimFinishInsertTail
  <2> QED BY <1>2, <2>2
<1>3. CASE b = "insert_after"
  <2>1. /\ Ending(n_decl, s, "insert_after") /\ r.op # "insert_after"
        /\ controllers["insert_after"] = s.ctl["insert_after"]
    BY <1>3
  <2>2. LET z == List!SimController("insert_after", r, WithTail(With(s, words, controllers), u))
            y == Finished(n_decl, s, "insert_after", words,
                          [controllers EXCEPT !["insert_after"] = List!Answers(s.ctl["insert_after"].handle)])
        IN  z = WithTail(y, z.tail) /\ (n_decl.track_tail => z.tail = y.tail)
    BY <2>1, SimFinishInsertAfter
  <2> QED BY <1>3, <2>2
<1>4. CASE b = "delete_head"
  <2>1. /\ Ending(n_decl, s, "delete_head") /\ r.op # "delete_head"
        /\ controllers["delete_head"] = s.ctl["delete_head"]
    BY <1>4
  <2>2. LET z == List!SimController("delete_head", r, WithTail(With(s, words, controllers), u))
            y == Finished(n_decl, s, "delete_head", words,
                          [controllers EXCEPT !["delete_head"] = List!Answers(s.ctl["delete_head"].handle)])
        IN  z = WithTail(y, z.tail) /\ (n_decl.track_tail => z.tail = y.tail)
    BY <2>1, SimFinishDeleteHead
  <2> QED BY <1>4, <2>2
<1>5. CASE b = "delete"
  <2>1. /\ Ending(n_decl, s, "delete") /\ r.op # "delete"
        /\ controllers["delete"] = s.ctl["delete"]
    BY <1>5
  <2>2. LET z == List!SimController("delete", r, WithTail(With(s, words, controllers), u))
            y == Finished(n_decl, s, "delete", words,
                          [controllers EXCEPT !["delete"] = List!Answers(s.ctl["delete"].handle)])
        IN  z = WithTail(y, z.tail) /\ (n_decl.track_tail => z.tail = y.tail)
    BY <2>1, SimFinishDelete
  <2> QED BY <1>5, <2>2
<1> QED BY <1>1, <1>2, <1>3, <1>4, <1>5 DEF Ending, Structure

(* The controllers after the edge that ends b.                             *)
Ended(s, b, r) ==
    [op \in List!Operations |->
        IF op = b THEN List!Answers(s.ctl[b].handle)
        ELSE IF op = r.op THEN Latch(s, r) ELSE List!Idle]
OnlyBusy(s, b) == \A op \in List!Operations : s.ctl[op].phase = "busy" <=> op = b

(* Words and controllers may be written before or after the links.         *)
LEMMA WordsCommute ==
    ASSUME NEW d, NEW s, NEW b, NEW w, NEW c, NEW v, NEW e
    PROVE  With(Finished(d, s, b, w, c), v, e) = Finished(d, s, b, v, e)
<1> DEFINE x == With(Finished(d, s, b, w, c), v, e)
           y == Finished(d, s, b, v, e)
<1>1. Shaped(x) /\ Shaped(y)
  <2>1. Shaped(x)
    BY WithFacts
  <2>2. Shaped(y)
    BY LiteralIsShaped, SMTT(30) DEF Finished
  <2> QED BY <2>1, <2>2
<1>2. /\ x.fl_mem = y.fl_mem /\ x.fl_rdp = y.fl_rdp /\ x.fl_wrp = y.fl_wrp /\ x.fl_cnt = y.fl_cnt
      /\ x.data = y.data /\ x.next = y.next /\ x.prev = y.prev /\ x.head = y.head
      /\ x.tail = y.tail /\ x.length = y.length /\ x.ctl = y.ctl
  BY DEF Finished, With
<1> HIDE DEF x, y
<1>3. x = y
  BY <1>1, <1>2, SameRegisters
<1> QED BY <1>3 DEF x, y

(* The tail register is put in before or after words and controllers.      *)
LEMMA TailCommutes ==
    ASSUME NEW s, NEW w, NEW c, NEW u
    PROVE  With(WithTail(s, u), w, c) = WithTail(With(s, w, c), u)
<1> DEFINE x == With(WithTail(s, u), w, c)
           y == WithTail(With(s, w, c), u)
<1>1. Shaped(x)
  BY WithFacts
<1>2. Shaped(y)
  BY WithTailFacts
<1>3. /\ x.data = w /\ x.ctl = c /\ x.tail = u
      /\ x.fl_mem = s.fl_mem /\ x.fl_rdp = s.fl_rdp /\ x.fl_wrp = s.fl_wrp
      /\ x.fl_cnt = s.fl_cnt /\ x.next = s.next /\ x.prev = s.prev
      /\ x.head = s.head /\ x.length = s.length
  BY WithFacts, WithTailFacts
<1>4. /\ y.data = w /\ y.ctl = c /\ y.tail = u
      /\ y.fl_mem = s.fl_mem /\ y.fl_rdp = s.fl_rdp /\ y.fl_wrp = s.fl_wrp
      /\ y.fl_cnt = s.fl_cnt /\ y.next = s.next /\ y.prev = s.prev
      /\ y.head = s.head /\ y.length = s.length
  BY WithFacts, WithTailFacts
<1> HIDE DEF x, y
<1>5. x = y
  BY <1>1, <1>2, <1>3, <1>4, SameRegisters
<1> QED BY <1>5 DEF x, y

(* Words are read and written in the same edge that links a node: the two  *)
(* controllers touch different entries.                                    *)
LEMMA EndedIs ==
    ASSUME NEW s, NEW b, NEW r, b \in List!Operations, OnlyBusy(s, b), r.op # b
    PROVE  LET a == List!Answers(s.ctl[b].handle)
           IN  /\ Quieted(s)[b] = s.ctl[b]
               /\ \A op \in List!Operations : op # b => Quieted(s)[op] = List!Idle
               /\ r.op \notin List!Operations => [Quieted(s) EXCEPT ![b] = a] = Ended(s, b, r)
               /\ r.op \in List!Operations =>
                     /\ [[Quieted(s) EXCEPT ![r.op] = Latch(s, r)] EXCEPT ![b] = a] = Ended(s, b, r)
                     /\ [[Quieted(s) EXCEPT ![b] = a] EXCEPT ![r.op] = Latch(s, r)] = Ended(s, b, r)
                     /\ [Quieted(s) EXCEPT ![r.op] = Latch(s, r)][b] = s.ctl[b]
<1>1. \A op \in List!Operations : Quieted(s)[op] = IF op = b THEN s.ctl[b] ELSE List!Idle
  BY DEF Quieted, List!Busy, OnlyBusy
<1>2. Quieted(s) = [op \in List!Operations |-> IF op = b THEN s.ctl[b] ELSE List!Idle]
  BY <1>1 DEF Quieted
<1> QED BY <1>2 DEF Ended

(* Withdrawing answers leaves the controller that is busy.                 *)
LEMMA QuietedIs ==
    ASSUME NEW s, NEW b, b \in List!Operations, OnlyBusy(s, b)
    PROVE  /\ Quieted(s)[b] = s.ctl[b]
           /\ \A op \in List!Operations : op # b => Quieted(s)[op] = List!Idle
           /\ \A o, v : o # b => [Quieted(s) EXCEPT ![o] = v][b] = s.ctl[b]
<1>1. \A op \in List!Operations : Quieted(s)[op] = IF op = b THEN s.ctl[b] ELSE List!Idle
  BY DEF Quieted, List!Busy, OnlyBusy
<1>2. Quieted(s) = [op \in List!Operations |-> IF op = b THEN s.ctl[b] ELSE List!Idle]
  BY <1>1 DEF Quieted
<1> QED BY <1>2

(* The edge that ends b, in the circuit.                                   *)
LEMMA BusyEdge ==
    ASSUME n_decl \in ListDecls, Supports(n_decl), NEW s, NEW r, NEW b, Shaped(s),
           Ending(n_decl, s, b), OnlyBusy(s, b),
           r.op = "none" \/ (r.op \in {"write_data", "read_data"} /\ Does(n_decl, r.op))
    PROVE  List!Clocked(r, s) = Finished(n_decl, s, b, WordsOf(s, r), Ended(s, b, r))
<1> DEFINE P == DOMAIN n_decl.ops
           Q == Quieted(s)
           base == With(s, s.data, Q)
           a == List!Answers(s.ctl[b].handle)
           R(y) == Ran(P, r.op, r, s, y)
           B(y) == Ran(P, b, r, s, y)
           goal == Finished(n_decl, s, b, WordsOf(s, r), Ended(s, b, r))
<1>1. Len(n_decl.ops) \in Nat /\ P = 1..Len(n_decl.ops)
  BY DeclaredOps
<1>2. \A i, j \in P : n_decl.ops[i] = n_decl.ops[j] => i = j
  BY DEF Supports
<1>3. \A i \in P : n_decl.ops[i] # "none" /\ n_decl.ops[i] \in List!Operations
  BY DeclaredOps
<1>4. List!PulsesEnded(s) = base
  BY BaseIs
<1>5. b \in List!Operations /\ r.op # b /\ Does(n_decl, b)
  BY DEF Ending, Structure, List!Operations
<1>6. List!Clocked(r, s) = B(R(base)) \/ List!Clocked(r, s) = R(B(base))
  <2>1. \A i \in P : n_decl.ops[i] \notin {r.op, b} =>
            \A y : List!Controller(n_decl.ops[i], r, s, y) = y
    BY <1>3, IdleController DEF OnlyBusy
  <2> HIDE DEF base
  <2> QED BY <1>1, <1>2, <1>4, <1>5, <2>1, ClockedIs
<1>7. \A y : B(y) = List!Controller(b, r, s, y)
  BY <1>5 DEF Ran, Does
<1>8. \A w, c : B(With(s, w, c)) = Finished(n_decl, s, b, w, [c EXCEPT ![b] = a])
  <2> HIDE DEF B, a
  <2> TAKE w, c
  <2> QED BY <1>5, <1>7, FinishedIs DEF a
<1>9. CASE r.op = "none"
  <2>1. \A y : R(y) = y
    BY <1>3, <1>9 DEF Ran
  <2>2. WordsOf(s, r) = s.data
    BY <1>9 DEF WordsOf
  <2>3. [Q EXCEPT ![b] = a] = Ended(s, b, r)
    BY <1>5, <1>9, EndedIs, DeclaredOps
  <2>4. B(base) = goal
    <3> HIDE DEF B, Q, a
    <3> QED BY <1>8, <2>2, <2>3
  <2> HIDE DEF R, B, base, goal
  <2>5. List!Clocked(r, s) = goal
    BY <1>6, <2>1, <2>4
  <2> QED BY <2>5 DEF goal
<1>10. CASE r.op \in {"write_data", "read_data"} /\ Does(n_decl, r.op)
  <2>1. r.op \in Accesses /\ r.op \in List!Operations
    BY <1>10 DEF Accesses, List!Reads, List!Operations
  <2>2. \A y : R(y) = List!Controller(r.op, r, s, y)
    BY <1>10 DEF Ran, Does
  <2>3. \A y : Shaped(y) => R(y) = With(y, WordsOf(y, r), [y.ctl EXCEPT ![r.op] = Latch(s, r)])
    <3> HIDE DEF R
    <3> SUFFICES ASSUME NEW y, Shaped(y)
                 PROVE  R(y) = With(y, WordsOf(y, r), [y.ctl EXCEPT ![r.op] = Latch(s, r)])
      OBVIOUS
    <3>1. List!Controller(r.op, r, s, y) = Worded(y, r, Latch(s, r))
      BY <2>1, WordedController
    <3> QED BY <2>2, <3>1 DEF Worded
  <2>4. B(R(base)) = goal
    <3>1. R(base) = With(base, WordsOf(base, r), [base.ctl EXCEPT ![r.op] = Latch(s, r)])
      BY <2>3, WithFacts
    <3>2. WordsOf(base, r) = WordsOf(s, r) /\ base.ctl = Q
      BY WithFacts DEF WordsOf
    <3>3. \A w, c : With(base, w, c) = With(s, w, c)
      BY DEF With
    <3> HIDE DEF B, R, base, Q, a
    <3>4. R(base) = With(s, WordsOf(s, r), [Q EXCEPT ![r.op] = Latch(s, r)])
      BY <3>1, <3>2, <3>3
    <3>5. B(R(base)) = Finished(n_decl, s, b, WordsOf(s, r), [[Q EXCEPT ![r.op] = Latch(s, r)] EXCEPT ![b] = a])
      BY <3>4, <1>8
    <3>6. [[Q EXCEPT ![r.op] = Latch(s, r)] EXCEPT ![b] = a] = Ended(s, b, r)
      BY <1>5, <2>1, EndedIs DEF Q, a
    <3> QED BY <3>5, <3>6
  <2>5. R(B(base)) = goal
    <3> DEFINE f == Finished(n_decl, s, b, s.data, [Q EXCEPT ![b] = a])
    <3>1. B(base) = f
      <4> HIDE DEF B, Q, a
      <4> QED BY <1>8
    <3>2. Shaped(f) /\ f.data = s.data /\ f.ctl = [Q EXCEPT ![b] = a]
      <4>1. Shaped(f)
        BY LiteralIsShaped, SMTT(30) DEF Finished
      <4> HIDE DEF Q, a
      <4> QED BY <4>1 DEF Finished
    <3>3. WordsOf(f, r) = WordsOf(s, r)
      BY <3>2 DEF WordsOf
    <3>4. \A w, c : With(f, w, c) = Finished(n_decl, s, b, w, c)
      BY WordsCommute
    <3>5. [[Q EXCEPT ![b] = a] EXCEPT ![r.op] = Latch(s, r)] = Ended(s, b, r)
      BY <1>5, <2>1, EndedIs
    <3> HIDE DEF f, B, R, base, Q, a
    <3>6. R(f) = With(f, WordsOf(f, r), [f.ctl EXCEPT ![r.op] = Latch(s, r)])
      BY <2>3, <3>2
    <3> QED BY <3>1, <3>2, <3>3, <3>4, <3>5, <3>6
  <2> HIDE DEF R, B, base, goal
  <2>6. List!Clocked(r, s) = goal
    BY <1>6, <2>4, <2>5
  <2> QED BY <2>6 DEF goal
<1> QED BY <1>9, <1>10

(* And in the class.                                                       *)
LEMMA SimBusyEdge ==
    ASSUME n_decl \in ListDecls, Supports(n_decl), NEW s, NEW r, NEW b, NEW u, Shaped(s),
           Ending(n_decl, s, b), OnlyBusy(s, b), n_decl.track_tail => u = s.tail,
           r.op = "none" \/ (r.op \in {"write_data", "read_data"} /\ Does(n_decl, r.op))
    PROVE  LET z == List!eval_posedge(r, WithTail(s, u))
               y == Finished(n_decl, s, b, WordsOf(s, r), Ended(s, b, r))
           IN  z = WithTail(y, z.tail) /\ (n_decl.track_tail => z.tail = y.tail)
<1> DEFINE P == DOMAIN n_decl.ops
           Q == Quieted(s)
           t == WithTail(s, u)
           base == WithTail(With(s, s.data, Q), u)
           a == List!Answers(s.ctl[b].handle)
           R(y) == SimRan(P, r.op, r, y)
           B(y) == SimRan(P, b, r, y)
           goal == Finished(n_decl, s, b, WordsOf(s, r), Ended(s, b, r))
           Good(z) == z = WithTail(goal, z.tail) /\ (n_decl.track_tail => z.tail = goal.tail)
<1>1. Len(n_decl.ops) \in Nat /\ P = 1..Len(n_decl.ops)
  BY DeclaredOps
<1>2. \A i, j \in P : n_decl.ops[i] = n_decl.ops[j] => i = j
  BY DEF Supports
<1>3. \A i \in P : n_decl.ops[i] # "none" /\ n_decl.ops[i] \in List!Operations
  BY DeclaredOps
<1>4. List!PulsesEnded(t) = base
  <2>1. Shaped(t) /\ t.data = s.data /\ Quieted(t) = Q
    BY WithTailFacts DEF Quieted, List!Busy
  <2>2. List!PulsesEnded(t) = With(t, s.data, Q)
    BY <2>1, BaseIs
  <2>3. With(WithTail(s, u), s.data, Q) = WithTail(With(s, s.data, Q), u)
    BY DEF With, WithTail
  <2> QED BY <2>2, <2>3
<1>5. b \in List!Operations /\ r.op # b /\ Does(n_decl, b)
  BY DEF Ending, Structure, List!Operations
<1>6. \A y : B(y) = List!SimController(b, r, y)
  BY <1>5 DEF SimRan, Does
<1>7. ASSUME NEW w, NEW c, c[b] = s.ctl[b]
      PROVE  LET f == Finished(n_decl, s, b, w, [c EXCEPT ![b] = a])
                 z == B(WithTail(With(s, w, c), u))
             IN  z = WithTail(f, z.tail) /\ (n_decl.track_tail => z.tail = f.tail)
  <2>1. LET z == List!SimController(b, r, WithTail(With(s, w, c), u))
            f == Finished(n_decl, s, b, w, [c EXCEPT ![b] = a])
        IN  z = WithTail(f, z.tail) /\ (n_decl.track_tail => z.tail = f.tail)
    BY <1>5, <1>7, SimFinishedIs
  <2> HIDE DEF B, a
  <2> QED BY <1>6, <2>1
<1>8. Quieted(s)[b] = s.ctl[b] /\ \A op \in List!Operations : op # b => Q[op] = List!Idle
  <2> HIDE DEF a
  <2>1. /\ Quieted(s)[b] = s.ctl[b]
        /\ \A op \in List!Operations : op # b => Quieted(s)[op] = List!Idle
    BY <1>5, QuietedIs
  <2> QED BY <2>1
<1>9. CASE r.op = "none"
  <2>1. \A y : R(y) = y
    BY <1>3, <1>9 DEF SimRan
  <2>2. WordsOf(s, r) = s.data
    BY <1>9 DEF WordsOf
  <2>3. [Q EXCEPT ![b] = a] = Ended(s, b, r)
    BY <1>5, <1>9, EndedIs, DeclaredOps
  <2>4. Good(B(base))
    <3> HIDE DEF B, Q, a
    <3>1. goal = Finished(n_decl, s, b, s.data, [Q EXCEPT ![b] = a])
      BY <2>2, <2>3
    <3> HIDE DEF goal
    <3> QED BY <1>7, <1>8, <3>1 DEF Q
  <2>5. base.ctl = Q
    BY WithTailFacts, WithFacts
  <2>6. B(base).ctl = Ended(s, b, r)
    <3>1. B(base).ctl = goal.ctl
      <4> HIDE DEF B, base, goal
      <4> QED BY <2>4, WithTailFacts
    <3> HIDE DEF B, base
    <3> QED BY <3>1 DEF Finished
  <2>7. List!eval_posedge(r, t) = B(R(base)) \/ List!eval_posedge(r, t) = R(B(base))
    <3> HIDE DEF base, Q
    <3>1. \A i \in P : n_decl.ops[i] \notin {r.op, b} =>
            \A y \in {base, B(base)} : List!SimController(n_decl.ops[i], r, y) = y
      <4> HIDE DEF B
      <4>1. \A op \in List!Operations : op \notin {r.op, b} =>
                base.ctl[op] = List!Idle /\ B(base).ctl[op] = List!Idle
        BY <1>8, <2>5, <2>6 DEF Ended
      <4> QED BY <4>1, <1>3, IdleSimController DEF List!Idle
    <3>2. \A i \in P : n_decl.ops[i] \notin {r.op, b} =>
            \A y \in {base, R(base), B(base), R(B(base)), B(R(base))} :
                List!SimController(n_decl.ops[i], r, y) = y
      <4> HIDE DEF R, B
      <4> QED BY <3>1, <2>1
    <3> HIDE DEF t
    <3> QED BY <1>1, <1>2, <1>4, <1>5, <3>2, SimClockedIs
  <2> HIDE DEF R, B, base, goal, t
  <2>8. List!eval_posedge(r, t) = B(base)
    BY <2>1, <2>7
  <2> HIDE DEF Good
  <2>9. Good(List!eval_posedge(r, t))
    BY <2>4, <2>8
  <2> QED BY <2>9 DEF Good, goal, t
<1>10. CASE r.op \in {"write_data", "read_data"} /\ Does(n_decl, r.op)
  <2>1. r.op \in Accesses /\ r.op \in List!Operations
    BY <1>10 DEF Accesses, List!Reads, List!Operations
  <2>2. \A y : Shaped(y) => R(y) = With(y, WordsOf(y, r), [y.ctl EXCEPT ![r.op] = Latch(y, r)])
    <3>1. \A y : R(y) = List!SimController(r.op, r, y)
      BY <1>10 DEF SimRan, Does
    <3> HIDE DEF R
    <3> QED BY <2>1, <3>1, WordController
  <2>3. \A y : y.data = s.data => WordsOf(y, r) = WordsOf(s, r) /\ Latch(y, r) = Latch(s, r)
    <3> TAKE y
    <3> HAVE y.data = s.data
    <3>1. CASE r.op = "write_data"
      BY <3>1, <2>1, LatchOfWord DEF WordsOf
    <3>2. CASE r.op = "read_data"
      <4>1. r.op \in List!Reads /\ r.op # "write_data"
        BY <3>2 DEF List!Reads
      <4>2. List!Read(r.op, r.handle, y) = List!Read(r.op, r.handle, s)
        BY <3>2 DEF List!Read
      <4> QED BY <4>1, <4>2, <2>1, LatchOfWord DEF WordsOf
    <3> QED BY <1>10, <3>1, <3>2
  <2>4. R(base) = WithTail(With(s, WordsOf(s, r), [Q EXCEPT ![r.op] = Latch(s, r)]), u)
    <3>1. Shaped(base) /\ base.data = s.data /\ base.ctl = Q
      BY WithTailFacts, WithFacts
    <3>2. \A w, c : With(base, w, c) = WithTail(With(s, w, c), u)
      <4> HIDE DEF Q
      <4>1. \A w, c : With(With(s, s.data, Q), w, c) = With(s, w, c)
        BY DEF With
      <4> QED BY <4>1, TailCommutes
    <3> HIDE DEF R, base, Q
    <3> QED BY <2>2, <2>3, <3>1, <3>2
  <2>5. Good(B(R(base)))
    <3>1. [[Q EXCEPT ![r.op] = Latch(s, r)] EXCEPT ![b] = a] = Ended(s, b, r)
      BY <1>5, <2>1, EndedIs
    <3>2. [Q EXCEPT ![r.op] = Latch(s, r)][b] = s.ctl[b]
      <4>1. [Quieted(s) EXCEPT ![r.op] = Latch(s, r)][b] = s.ctl[b]
        BY <1>5, <2>1, QuietedIs
      <4> QED BY <4>1
    <3> DEFINE c == [Q EXCEPT ![r.op] = Latch(s, r)]
    <3> HIDE DEF R, B, base, Q, a, c
    <3>3. goal = Finished(n_decl, s, b, WordsOf(s, r), [c EXCEPT ![b] = a])
      BY <3>1 DEF c
    <3>4. R(base) = WithTail(With(s, WordsOf(s, r), c), u)
      BY <2>4 DEF c
    <3>5. c[b] = s.ctl[b]
      BY <3>2 DEF c
    <3> HIDE DEF goal
    <3> QED BY <1>7, <3>3, <3>4, <3>5
  <2> DEFINE f == Finished(n_decl, s, b, s.data, [Q EXCEPT ![b] = a])
             z == B(base)
  <2>6. z = WithTail(f, z.tail) /\ (n_decl.track_tail => z.tail = f.tail)
    <3> HIDE DEF B, Q, a
    <3> QED BY <1>7, <1>8 DEF Q
  <2>7. f.data = s.data /\ f.ctl = [Q EXCEPT ![b] = a] /\ f.tail = goal.tail
    <3> HIDE DEF Q, a
    <3> QED BY DEF Finished
  <2>8. Shaped(z) /\ z.data = s.data /\ z.ctl = [Q EXCEPT ![b] = a]
    <3> HIDE DEF z, f
    <3> QED BY <2>6, <2>7, WithTailFacts
  <2>9. R(z) = WithTail(goal, z.tail)
    <3>1. [[Q EXCEPT ![b] = a] EXCEPT ![r.op] = Latch(s, r)] = Ended(s, b, r)
      BY <1>5, <2>1, EndedIs
    <3>2. \A w, c, v : With(WithTail(f, v), w, c) = WithTail(With(f, w, c), v)
      <4> HIDE DEF f
      <4> QED BY TailCommutes
    <3>3. \A w, c : With(f, w, c) = Finished(n_decl, s, b, w, c)
      BY WordsCommute
    <3> HIDE DEF R, z, Q, a, f
    <3>4. R(z) = With(z, WordsOf(s, r), Ended(s, b, r))
      BY <2>2, <2>3, <2>8, <3>1
    <3>5. With(z, WordsOf(s, r), Ended(s, b, r)) = WithTail(With(f, WordsOf(s, r), Ended(s, b, r)), z.tail)
      BY <2>6, <3>2
    <3> QED BY <3>3, <3>4, <3>5
  <2>10. Good(R(z))
    <3>1. R(z).tail = z.tail
      <4> HIDE DEF R, z, goal
      <4> QED BY <2>9, WithTailFacts
    <3> HIDE DEF R, z, goal, f
    <3> QED BY <2>6, <2>7, <2>9, <3>1
  <2>11. \A y : Shaped(y) => R(y).ctl = [y.ctl EXCEPT ![r.op] = Latch(y, r)]
    <3> HIDE DEF R
    <3> QED BY <2>2, WithFacts
  <2>12. base.ctl = Q /\ Shaped(base)
    BY WithTailFacts, WithFacts
  <2>13. \A y : Good(y) => y.ctl = Ended(s, b, r)
    <3> TAKE y
    <3> HAVE Good(y)
    <3>1. y.ctl = goal.ctl
      <4> HIDE DEF goal
      <4> QED BY WithTailFacts
    <3> QED BY <3>1 DEF Finished
  <2> HIDE DEF R, B, base, goal, t, Good, f, Q, a, z
  <2>14. \A op \in List!Operations : op \notin {r.op, b} =>
            \A y \in {base, R(base), B(base), R(B(base)), B(R(base))} : y.ctl[op] = List!Idle
    <3>1. \A op \in List!Operations : op \notin {r.op, b} =>
              base.ctl[op] = List!Idle /\ R(base).ctl[op] = List!Idle /\ B(base).ctl[op] = List!Idle
      <4>1. R(base).ctl = [Q EXCEPT ![r.op] = Latch(base, r)]
        BY <2>11, <2>12
      <4>2. B(base).ctl = [Q EXCEPT ![b] = a]
        BY <2>8 DEF z
      <4>3. \A op \in List!Operations : op # b => Q[op] = List!Idle
        BY <1>8
      <4>4. \A op, v, o : op # o => [Q EXCEPT ![o] = v][op] = Q[op]
        BY DEF Q, Quieted
      <4> QED BY <4>1, <4>2, <4>3, <4>4, <2>12
    <3>2. \A op \in List!Operations : op \notin {r.op, b} =>
              B(R(base)).ctl[op] = List!Idle /\ R(B(base)).ctl[op] = List!Idle
      BY <2>5, <2>10, <2>13 DEF Ended, z
    <3> QED BY <3>1, <3>2
  <2>15. List!eval_posedge(r, t) = B(R(base)) \/ List!eval_posedge(r, t) = R(B(base))
    <3>1. \A i \in P : n_decl.ops[i] \notin {r.op, b} =>
            \A y \in {base, R(base), B(base), R(B(base)), B(R(base))} :
                List!SimController(n_decl.ops[i], r, y) = y
      BY <1>3, <2>14, IdleSimController DEF List!Idle
    <3>2. \A i \in P : n_decl.ops[i] \notin {r.op, b} =>
            LET xb == List!PulsesEnded(t)
                RR(y) == SimRan(P, r.op, r, y)
                BB(y) == SimRan(P, b, r, y)
            IN  \A y \in {xb, RR(xb), BB(xb), RR(BB(xb)), BB(RR(xb))} :
                    List!SimController(n_decl.ops[i], r, y) = y
      BY <3>1, <1>4 DEF R, B
    <3>3. \/ List!eval_posedge(r, t) = SimRan(P, b, r, SimRan(P, r.op, r, List!PulsesEnded(t)))
          \/ List!eval_posedge(r, t) = SimRan(P, r.op, r, SimRan(P, b, r, List!PulsesEnded(t)))
      BY <1>1, <1>2, <1>5, <3>2, SimClockedIs
    <3> QED BY <3>3, <1>4 DEF R, B
  <2>16. Good(List!eval_posedge(r, t))
    BY <2>5, <2>10, <2>15 DEF z
  <2> QED BY <2>16 DEF Good, goal, t
<1> QED BY <1>9, <1>10
=============================================================================
